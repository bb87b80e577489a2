------------------------------ MODULE LogProofs ------------------------------
(***************************************************************************)
(* Theorems about LogQueue for every set of threads, every ring with more  *)
(* slots than threads, and every number of lines.                          *)
(***************************************************************************)
EXTENDS LogQueue, FiniteSetTheorems, SequenceTheorems, WellFoundedInduction, TLAPS

-----------------------------------------------------------------------------
(* The inductive invariant, one part per concern *)

StepName == {"sync", "drain", "line", "summary", "stop", "join", "sweep", "end", "_Exit",
             "dogStop", "dogJoin"}

\* What a thread still has to do ends the process. It stops nothing before the
\* log is synchronous, and sweeps and ends cleanly only behind the writer's end.
PlanOK(q, a, w) ==
  /\ q \in Seq(StepName)
  /\ q # <<>> => q[Len(q)] \in {"end", "_Exit"}
  /\ \A i \in 1..Len(q) :
       /\ q[i] \in {"end", "_Exit"} => i = Len(q)
       /\ q[i] = "stop" => a = FALSE \/ \E j \in 1..i - 1 : q[j] = "drain"
       /\ q[i] \in {"sweep", "end"} => w = "gone" \/ \E j \in 1..i - 1 : q[j] = "join"

\* Two lines at most come on the way out: one of a handler, one of the summary.
HasLine(q)    == \E i \in 1..Len(q) : q[i] = "line"
HasSummary(q) == \E i \in 1..Len(q) : q[i] = "summary"
LinesDue(q, s) ==
  (IF HasLine(q) THEN 1 ELSE 0) + (IF s = FALSE /\ HasSummary(q) THEN 1 ELSE 0)
DueOK(q, n, s) ==
  /\ \A i, j \in 1..Len(q) : q[i] = "line" =>
       /\ q[j] = "line" => i = j
       /\ q[j] = "summary" => i < j
  /\ n + LinesDue(q, s) <= MaxLines + 2
  /\ q = <<>> => n <= MaxLines

TodoInv ==
  /\ todo \in [Thread -> Seq(StepName)] /\ count \in [Thread -> Nat]
  /\ \A t \in Thread : /\ PlanOK(todo[t], async, wpc)
                       /\ DueOK(todo[t], count[t], summary)

\* A thread that waits for the writer is inside a drain.
WaitInv ==
  \A t \in Thread : pc[t] \in {"drain", "idle", "recheck"} =>
                       ~async /\ Leaving(t) /\ Head(todo[t]) = "drain"

\* A thread inside a lock holds it, and one that holds it without having left is inside.
LockInv ==
  \A t \in Thread : /\ pc[t] = "inside" => mu = t
                    /\ pc[t] = "writing" => io = t
                    /\ mu = t /\ ~Leaving(t) => pc[t] = "inside"
                    /\ io = t /\ ~Leaving(t) => pc[t] = "writing"

\* Lines a thread has let go of; the one it is about to queue or write is not.
Holding(t) == pc[t] \in {"queue", "inside", "direct", "writing"}
Limit(t) == IF Holding(t) THEN count[t] - 1 ELSE count[t]
Spent(e) == e[2] <= Limit(e[1])
Entries == Lines \cup {<<t, 0>> : t \in Thread} \cup {<<"dropped", n>> : n \in Nat}

FileInv ==
  /\ file \in Seq(Entries) /\ order \in Seq(Lines) /\ lost \subseteq Lines
  /\ \A i \in 1..Len(file) : file[i] \in Lines => Spent(file[i])
  /\ \A i \in 1..Len(order) : Spent(order[i])
  /\ \A e \in lost : Spent(e)
  /\ IsInjective(order) /\ IsFiniteSet(lost)
  /\ \A i, j \in 1..Len(file) : file[i] = file[j] /\ file[i] \in Lines => i = j
  /\ \A t \in Thread : Holding(t) => count[t] >= 1
  /\ Kept(file, ToSet(order)) \o batch \o ring = order
  /\ Cardinality(lost) = dropped + note + Noted(file)
  /\ swept \in Nat /\ swept + Len(ring) <= Len(order)

\* From its last batch on the writer leaves nothing behind but one line of a
\* thread that was on its way to the ring then.
LastInv ==
  /\ stop => ~async
  /\ wpc \in {"test", "asleep"} => ~last
  /\ wpc = "gone" => last
  /\ wpc # "write" => batch = <<>> /\ note = 0
  /\ last => /\ stop /\ dropped = 0
             /\ \A i, j \in 1..Len(ring) : ring[i][1] = ring[j][1] => i = j
             /\ \A i \in 1..Len(ring) : pc[ring[i][1]] \notin {"queue", "inside"}

CleanInv == ended = "clean" => wpc = "gone"

LogInv == TypeOK /\ TodoInv /\ WaitInv /\ LockInv /\ FileInv /\ LastInv /\ CleanInv
-----------------------------------------------------------------------------
(* Induction over numbers and over sequences, as facts about sets *)

LEMMA LeastNat ==
  ASSUME NEW S \in SUBSET Nat, S # {}
  PROVE  \E x \in S : \A y \in S : x <= y
<1> DEFINE R == {ss \in Nat \X Nat : ss[1] < ss[2]}
<1>1. IsWellFoundedOn(R, Nat)
  BY NatLessThanWellFounded DEF OpToRel
<1>2. PICK x \in S : \A y \in S : ~ (<<y, x>> \in R)
  BY <1>1, WFMin
<1>3. ASSUME NEW y \in S PROVE x <= y
  <2>1. x \in Nat /\ y \in Nat /\ <<y, x>> \in Nat \X Nat /\ ~ (<<y, x>> \in R)
    BY <1>2
  <2>2. ~ (y < x)
    BY <2>1
  <2> QED
    BY <2>1, <2>2
<1> QED
  BY <1>3

LEMMA NatInduct ==
  ASSUME NEW T, 0 \in T, \A n \in Nat : n \in T => n + 1 \in T
  PROVE  Nat \subseteq T
<1> DEFINE S == Nat \ T
<1>1. ASSUME S # {} PROVE FALSE
  <2>1. PICK x \in S : \A y \in S : x <= y
    BY <1>1, LeastNat
  <2>2. x \in Nat /\ x # 0 /\ x - 1 \in Nat /\ (x - 1) + 1 = x
    BY <2>1
  <2>3. x - 1 \notin S
    BY <2>1, <2>2
  <2> QED
    BY <2>1, <2>2, <2>3
<1> QED
  BY <1>1

LEMMA SeqInduct ==
  ASSUME NEW E, NEW T, <<>> \in T, \A s \in Seq(E), e \in E : s \in T => Append(s, e) \in T
  PROVE  Seq(E) \subseteq T
<1> DEFINE U == {n \in Nat : \A s \in Seq(E) : Len(s) = n => s \in T}
<1>1. 0 \in U
  BY EmptySeq
<1>2. ASSUME NEW n \in Nat, n \in U PROVE n + 1 \in U
  <2> SUFFICES ASSUME NEW s \in Seq(E), Len(s) = n + 1 PROVE s \in T
    OBVIOUS
  <2> DEFINE p == SubSeq(s, 1, n)
  <2>1. p \in Seq(E) /\ Len(p) = n /\ \A i \in 1..n : p[i] = s[i]
    BY SubSeqProperties
  <2>2. s[n + 1] \in E
    BY ElementOfSeq
  <2>3. Append(p, s[n + 1]) = s
    <3> HIDE DEF p
    <3> QED
      BY <2>1, <2>2, AppendProperties, SeqEqual
  <2>4. p \in T
    BY <1>2, <2>1
  <2> HIDE DEF p
  <2> QED
    BY <2>1, <2>2, <2>3, <2>4
<1>3. Nat \subseteq U
  <2> HIDE DEF U
  <2> QED
    BY <1>1, <1>2, NatInduct
<1> QED
  BY <1>3, LenProperties

-----------------------------------------------------------------------------
(* Kept and Noted, one entry at a time *)

KeptStep(k, f, S, m) == IF f[m] \in S THEN Append(k[m - 1], f[m]) ELSE k[m - 1]
IsKept(k, f, S, n) == k = [m \in 0..n |-> IF m = 0 THEN <<>> ELSE KeptStep(k, f, S, m)]

LEMMA KeptExists ==
  ASSUME NEW f, NEW S, NEW n \in Nat
  PROVE  \E k : IsKept(k, f, S, n)
<1> DEFINE T == {i \in Nat : \E k : IsKept(k, f, S, i)}
<1>1. 0 \in T
  <2>1. IsKept([m \in 0..0 |-> <<>>], f, S, 0)
    BY DEF IsKept
  <2> QED
    BY <2>1
<1>2. ASSUME NEW i \in Nat, i \in T PROVE i + 1 \in T
  <2>1. PICK k : IsKept(k, f, S, i)
    BY <1>2
  <2> DEFINE j == [m \in 0..i + 1 |-> IF m = i + 1 THEN KeptStep(k, f, S, m) ELSE k[m]]
  <2>2. \A m \in 0..i + 1 : j[m] = IF m = 0 THEN <<>> ELSE KeptStep(j, f, S, m)
    <3> SUFFICES ASSUME NEW m \in 0..i + 1
                 PROVE  j[m] = IF m = 0 THEN <<>> ELSE KeptStep(j, f, S, m)
      OBVIOUS
    <3>1. CASE m = 0
      BY <2>1, <3>1 DEF IsKept
    <3>2. CASE m # 0
      <4>1. m - 1 \in 0..i /\ m - 1 # i + 1 /\ m - 1 \in 0..i + 1
        BY <3>2
      <4>2. j[m - 1] = k[m - 1]
        BY <4>1
      <4>3. j[m] = KeptStep(k, f, S, m)
        BY <2>1, <3>2, <4>1 DEF IsKept
      <4> HIDE DEF j
      <4> QED
        BY <3>2, <4>2, <4>3 DEF KeptStep
    <3> QED
      BY <3>1, <3>2
  <2>3. j = [m \in 0..i + 1 |-> j[m]]
    OBVIOUS
  <2> HIDE DEF j
  <2>4. IsKept(j, f, S, i + 1)
    BY <2>2, <2>3 DEF IsKept
  <2> QED
    BY <2>4
<1>3. Nat \subseteq T
  <2> HIDE DEF T
  <2> QED
    BY <1>1, <1>2, NatInduct
<1> QED
  BY <1>3

LEMMA KeptIs ==
  ASSUME NEW f, NEW S, Len(f) \in Nat
  PROVE  \E k : IsKept(k, f, S, Len(f)) /\ Kept(f, S) = k[Len(f)]
<1> DEFINE P(k) == k = [n \in 0..Len(f) |->
                          IF n = 0 THEN <<>>
                          ELSE IF f[n] \in S THEN Append(k[n - 1], f[n]) ELSE k[n - 1]]
<1>1. \E k : P(k)
  <2>1. PICK k : IsKept(k, f, S, Len(f))
    BY KeptExists
  <2>2. P(k)
    BY <2>1 DEF IsKept, KeptStep
  <2> QED
    BY <2>2
<1>2. P(CHOOSE k : P(k))
  BY <1>1
<1>3. Kept(f, S) = (CHOOSE k : P(k))[Len(f)]
  BY DEF Kept
<1> QED
  BY <1>2, <1>3 DEF IsKept, KeptStep

\* Two runs over what agrees so far agree so far.
LEMMA KeptAgrees ==
  ASSUME NEW f, NEW g, NEW S, NEW R, NEW n \in Nat, NEW m \in Nat, NEW k, NEW j,
         IsKept(k, f, S, n), IsKept(j, g, R, m),
         NEW l \in Nat, l <= n, l <= m,
         \A i \in 1..l : f[i] = g[i] /\ (f[i] \in S <=> g[i] \in R)
  PROVE  k[l] = j[l]
<1> DEFINE T == {i \in Nat : i <= l => k[i] = j[i]}
<1>1. 0 \in T
  BY DEF IsKept
<1>2. ASSUME NEW i \in Nat, i \in T PROVE i + 1 \in T
  <2> SUFFICES ASSUME i + 1 <= l PROVE k[i + 1] = j[i + 1]
    OBVIOUS
  <2>1. k[i + 1] = KeptStep(k, f, S, i + 1)
    BY DEF IsKept
  <2>2. j[i + 1] = KeptStep(j, g, R, i + 1)
    BY DEF IsKept
  <2>3. k[(i + 1) - 1] = j[(i + 1) - 1] /\ i + 1 \in 1..l
    BY <1>2
  <2> QED
    BY <2>1, <2>2, <2>3 DEF KeptStep
<1>3. Nat \subseteq T
  <2> HIDE DEF T
  <2> QED
    BY <1>1, <1>2, NatInduct
<1> QED
  BY <1>3

LEMMA KeptEmpty == ASSUME NEW S PROVE Kept(<<>>, S) = <<>>
<1>1. Len(<<>>) = 0
  OBVIOUS
<1>2. PICK k : IsKept(k, <<>>, S, 0) /\ Kept(<<>>, S) = k[0]
  BY <1>1, KeptIs
<1> QED
  BY <1>2 DEF IsKept

LEMMA KeptAppend ==
  ASSUME NEW E, NEW f \in Seq(E), NEW e \in E, NEW S
  PROVE  Kept(Append(f, e), S) = IF e \in S THEN Append(Kept(f, S), e) ELSE Kept(f, S)
<1> DEFINE g == Append(f, e)
           n == Len(f)
<1>1. n \in Nat /\ Len(g) = n + 1 /\ g[n + 1] = e /\ \A i \in 1..n : g[i] = f[i]
  BY AppendProperties
<1> HIDE DEF g, n
<1>2. PICK k : IsKept(k, f, S, n) /\ Kept(f, S) = k[n]
  BY <1>1, KeptIs DEF n
<1>3. PICK j : IsKept(j, g, S, n + 1) /\ Kept(g, S) = j[n + 1]
  BY <1>1, KeptIs
<1>4. k[n] = j[n]
  <2>1. n + 1 \in Nat /\ n <= n /\ n <= n + 1
    BY <1>1
  <2>2. IsKept(k, f, S, n) /\ IsKept(j, g, S, n + 1)
    BY <1>2, <1>3
  <2>3. \A i \in 1..n : f[i] = g[i] /\ (f[i] \in S <=> g[i] \in S)
    BY <1>1
  <2> QED
    BY <1>1, <2>1, <2>2, <2>3, KeptAgrees
<1>5. j[n + 1] = KeptStep(j, g, S, n + 1)
  BY <1>1, <1>3 DEF IsKept
<1>6. (n + 1) - 1 = n
  BY <1>1
<1> QED
  BY <1>1, <1>2, <1>3, <1>4, <1>5, <1>6 DEF KeptStep, g

\* The sets may differ in what does not occur.
LEMMA KeptSame ==
  ASSUME NEW E, NEW f \in Seq(E), NEW S, NEW R,
         \A i \in 1..Len(f) : f[i] \in S <=> f[i] \in R
  PROVE  Kept(f, S) = Kept(f, R)
<1>1. Len(f) \in Nat
  BY LenProperties
<1>2. PICK k : IsKept(k, f, S, Len(f)) /\ Kept(f, S) = k[Len(f)]
  BY <1>1, KeptIs
<1>3. PICK j : IsKept(j, f, R, Len(f)) /\ Kept(f, R) = j[Len(f)]
  BY <1>1, KeptIs
<1> DEFINE n == Len(f)
<1>4. n \in Nat /\ IsKept(k, f, S, n) /\ IsKept(j, f, R, n) /\ \A i \in 1..n : f[i] \in S <=> f[i] \in R
  BY <1>1, <1>2, <1>3
<1> HIDE DEF n
<1>5. k[n] = j[n]
  BY <1>4, KeptAgrees
<1> QED
  BY <1>2, <1>3, <1>5 DEF n

LEMMA KeptType ==
  ASSUME NEW E, NEW f \in Seq(E), NEW S
  PROVE  Kept(f, S) \in Seq(S)
<1> DEFINE T == {s \in Seq(E) : Kept(s, S) \in Seq(S)}
<1>1. <<>> \in T
  BY KeptEmpty, EmptySeq
<1>2. ASSUME NEW s \in Seq(E), NEW e \in E, s \in T PROVE Append(s, e) \in T
  <2>1. Append(s, e) \in Seq(E)
    BY AppendProperties
  <2>2. Kept(s, S) \in Seq(S)
    BY <1>2
  <2>3. e \in S => Append(Kept(s, S), e) \in Seq(S)
    BY <2>2, AppendProperties
  <2> QED
    BY <2>1, <2>2, <2>3, KeptAppend
<1>3. Seq(E) \subseteq T
  <2> HIDE DEF T
  <2> QED
    BY <1>1, <1>2, SeqInduct
<1> QED
  BY <1>3

\* What is kept is what occurs and is in the set, each occurrence once.
LEMMA KeptMembers ==
  ASSUME NEW E, NEW f \in Seq(E), NEW S
  PROVE  /\ \A i \in 1..Len(f) : f[i] \in S => \E j \in 1..Len(Kept(f, S)) : Kept(f, S)[j] = f[i]
         /\ \A j \in 1..Len(Kept(f, S)) : \E i \in 1..Len(f) : Kept(f, S)[j] = f[i]
<1> DEFINE Covers(s) == \A i \in 1..Len(s) : s[i] \in S =>
                          \E j \in 1..Len(Kept(s, S)) : Kept(s, S)[j] = s[i]
           Comes(s)  == \A j \in 1..Len(Kept(s, S)) : \E i \in 1..Len(s) : Kept(s, S)[j] = s[i]
           T == {s \in Seq(E) : Covers(s) /\ Comes(s)}
<1>1. <<>> \in T
  <2>1. Len(<<>>) = 0 /\ Kept(<<>>, S) = <<>>
    BY KeptEmpty
  <2> QED
    BY <2>1
<1>2. ASSUME NEW s \in Seq(E), NEW e \in E, s \in T PROVE Append(s, e) \in T
  <2> DEFINE g == Append(s, e)
             k == Kept(s, S)
             l == Kept(g, S)
             n == Len(s)
             m == Len(k)
  <2>1. g \in Seq(E) /\ n \in Nat /\ Len(g) = n + 1 /\ g[n + 1] = e /\ \A i \in 1..n : g[i] = s[i]
    BY AppendProperties
  <2>2. k \in Seq(S) /\ m \in Nat
    BY KeptType
  <2>3. l = IF e \in S THEN Append(k, e) ELSE k
    BY KeptAppend
  <2>4. e \in S => Len(l) = m + 1 /\ l[m + 1] = e /\ \A j \in 1..m : l[j] = k[j]
    <3> HIDE DEF k, l
    <3> QED
      BY <2>2, <2>3, AppendProperties DEF m
  <2>5. e \notin S => Len(l) = m /\ \A j \in 1..m : l[j] = k[j]
    BY <2>3
  <2>6. \A i \in 1..n : s[i] \in S => \E j \in 1..m : k[j] = s[i]
    BY <1>2
  <2>7. \A j \in 1..m : \E i \in 1..n : k[j] = s[i]
    BY <1>2
  <2> HIDE DEF g, k, l, n, m
  <2>8. ASSUME NEW i \in 1..Len(g), g[i] \in S PROVE \E j \in 1..Len(l) : l[j] = g[i]
    <3>1. CASE i = n + 1
      BY <2>1, <2>2, <2>4, <2>8, <3>1
    <3>2. CASE i \in 1..n
      <4>1. g[i] = s[i] /\ s[i] \in S
        BY <2>1, <2>8, <3>2
      <4>2. PICK j \in 1..m : k[j] = s[i]
        BY <2>6, <3>2, <4>1
      <4>3. l[j] = k[j] /\ j \in 1..Len(l)
        BY <2>2, <2>4, <2>5, <4>2
      <4> QED
        BY <4>1, <4>2, <4>3
    <3> QED
      BY <2>1, <3>1, <3>2
  <2>9. ASSUME NEW j \in 1..Len(l) PROVE \E i \in 1..Len(g) : l[j] = g[i]
    <3>1. CASE e \in S /\ j = m + 1
      BY <2>1, <2>4, <3>1
    <3>2. CASE j \in 1..m
      BY <2>1, <2>4, <2>5, <2>7, <3>2
    <3> QED
      BY <2>2, <2>4, <2>5, <3>1, <3>2
  <2> QED
    BY <2>1, <2>8, <2>9 DEF g, l
<1>3. Seq(E) \subseteq T
  <2> HIDE DEF T
  <2> QED
    BY <1>1, <1>2, SeqInduct
<1> QED
  BY <1>3

LEMMA KeptInjective ==
  ASSUME NEW E, NEW f \in Seq(E), NEW S,
         \A i, j \in 1..Len(f) : f[i] = f[j] /\ f[i] \in S => i = j
  PROVE  IsInjective(Kept(f, S))
<1> DEFINE Once(s) == \A i, j \in 1..Len(s) : s[i] = s[j] /\ s[i] \in S => i = j
           Inj(k) == \A i, j \in 1..Len(k) : k[i] = k[j] => i = j
           T == {s \in Seq(E) : Once(s) => Inj(Kept(s, S))}
<1>1. <<>> \in T
  <2>1. Len(<<>>) = 0 /\ Kept(<<>>, S) = <<>>
    BY KeptEmpty
  <2> QED
    BY <2>1
<1>2. ASSUME NEW s \in Seq(E), NEW e \in E, s \in T PROVE Append(s, e) \in T
  <2> DEFINE g == Append(s, e)
             k == Kept(s, S)
             l == Kept(g, S)
             n == Len(s)
             m == Len(k)
  <2>1. g \in Seq(E) /\ n \in Nat /\ Len(g) = n + 1 /\ g[n + 1] = e /\ \A i \in 1..n : g[i] = s[i]
    BY AppendProperties
  <2>2. k \in Seq(S) /\ m \in Nat
    BY KeptType
  <2>3. l = IF e \in S THEN Append(k, e) ELSE k
    BY KeptAppend
  <2>4. e \in S => Len(l) = m + 1 /\ l[m + 1] = e /\ \A j \in 1..m : l[j] = k[j]
    <3> HIDE DEF k, l
    <3> QED
      BY <2>2, <2>3, AppendProperties DEF m
  <2>5. \A j \in 1..m : \E i \in 1..n : k[j] = s[i]
    BY KeptMembers
  <2>6. Once(s) => Inj(k)
    BY <1>2
  <2> SUFFICES ASSUME Once(g) PROVE Inj(l)
    BY <2>1
  <2>7. Once(s)
    <3> HIDE DEF g
    <3> QED
      BY <2>1
  <2>8. \A i, j \in 1..m : k[i] = k[j] => i = j
    BY <2>6, <2>7
  <2>9. CASE e \notin S
    BY <2>3, <2>8, <2>9
  <2>10. CASE e \in S
    <3>1. \A j \in 1..m : k[j] # e
      <4> SUFFICES ASSUME NEW j \in 1..m, k[j] = e PROVE FALSE
        OBVIOUS
      <4>1. PICK i \in 1..n : k[j] = s[i]
        BY <2>5
      <4>2. g[i] = g[n + 1] /\ g[i] \in S /\ i \in 1..Len(g) /\ n + 1 \in 1..Len(g) /\ i # n + 1
        <5> HIDE DEF g, k, n
        <5> QED
          BY <2>1, <2>10, <4>1
      <4> HIDE DEF g, n
      <4> QED
        BY <4>2
    <3> HIDE DEF l, k, m, g, n
    <3> SUFFICES ASSUME NEW i \in 1..Len(l), NEW j \in 1..Len(l), l[i] = l[j], i # j
                 PROVE  FALSE
      OBVIOUS
    <3>2. m \in Nat /\ Len(l) = m + 1 /\ l[m + 1] = e /\ \A h \in 1..m : l[h] = k[h]
      BY <2>2, <2>4, <2>10
    <3>3. i \in 1..m \/ j \in 1..m
      BY <3>2
    <3>4. CASE i \in 1..m /\ j \in 1..m
      BY <2>8, <3>2, <3>4
    <3>5. CASE i = m + 1 \/ j = m + 1
      BY <3>1, <3>2, <3>3, <3>5
    <3> QED
      BY <3>2, <3>4, <3>5
  <2> QED
    BY <2>9, <2>10
<1>3. Seq(E) \subseteq T
  <2> HIDE DEF T
  <2> QED
    BY <1>1, <1>2, SeqInduct
<1>4. Inj(Kept(f, S))
  BY <1>3
<1>5. Kept(f, S) \in Seq(S)
  BY KeptType
<1> QED
  BY <1>4, <1>5 DEF IsInjective

LEMMA AppendConcat ==
  ASSUME NEW E, NEW f \in Seq(E), NEW s \in Seq(E), NEW e \in E
  PROVE  f \o Append(s, e) = Append(f \o s, e)
<1>1. <<e>> \in Seq(E) /\ f \o s \in Seq(E)
  BY ConcatProperties
<1>2. Append(s, e) = s \o <<e>> /\ Append(f \o s, e) = (f \o s) \o <<e>>
  BY <1>1, AppendIsConcat
<1>3. (f \o s) \o <<e>> = f \o (s \o <<e>>)
  BY <1>1, ConcatAssociative
<1> QED
  BY <1>2, <1>3

\* What is appended in a batch is kept as a batch.
LEMMA KeptConcat ==
  ASSUME NEW E, NEW f \in Seq(E), NEW S, NEW g \in Seq(S), S \subseteq E
  PROVE  Kept(f \o g, S) = Kept(f, S) \o g
<1> DEFINE T == {s \in Seq(S) : Kept(f \o s, S) = Kept(f, S) \o s}
<1>1. Kept(f, S) \in Seq(S)
  BY KeptType
<1>2. <<>> \in T
  <2>1. f \o <<>> = f /\ Kept(f, S) \o <<>> = Kept(f, S)
    BY <1>1, ConcatEmptySeq
  <2> QED
    BY <2>1, EmptySeq
<1>3. ASSUME NEW s \in Seq(S), NEW e \in S, s \in T PROVE Append(s, e) \in T
  <2>1. s \in Seq(E) /\ e \in E /\ f \o s \in Seq(E)
    BY ConcatProperties, SeqMonotonic
  <2>2. f \o Append(s, e) = Append(f \o s, e)
    BY <2>1, AppendConcat
  <2>3. Kept(f, S) \o Append(s, e) = Append(Kept(f, S) \o s, e)
    BY <1>1, AppendConcat
  <2>4. Kept(Append(f \o s, e), S) = Append(Kept(f \o s, S), e)
    <3>1. ASSUME NEW h \in Seq(E) PROVE Kept(Append(h, e), S) = Append(Kept(h, S), e)
      BY <2>1, KeptAppend
    <3> QED
      BY <2>1, <3>1
  <2> QED
    BY <1>3, <2>2, <2>3, <2>4, AppendProperties
<1>4. Seq(S) \subseteq T
  <2> HIDE DEF T
  <2> QED
    BY <1>2, <1>3, SeqInduct
<1> QED
  BY <1>4

NotedStep(k, f, m) == IF f[m][1] = "dropped" THEN k[m - 1] + f[m][2] ELSE k[m - 1]
IsNoted(k, f, n) == k = [m \in 0..n |-> IF m = 0 THEN 0 ELSE NotedStep(k, f, m)]

LEMMA NotedExists ==
  ASSUME NEW f, NEW n \in Nat
  PROVE  \E k : IsNoted(k, f, n)
<1> DEFINE T == {i \in Nat : \E k : IsNoted(k, f, i)}
<1>1. 0 \in T
  <2>1. IsNoted([m \in 0..0 |-> 0], f, 0)
    BY DEF IsNoted
  <2> QED
    BY <2>1
<1>2. ASSUME NEW i \in Nat, i \in T PROVE i + 1 \in T
  <2>1. PICK k : IsNoted(k, f, i)
    BY <1>2
  <2> DEFINE j == [m \in 0..i + 1 |-> IF m = i + 1 THEN NotedStep(k, f, m) ELSE k[m]]
  <2>2. \A m \in 0..i + 1 : j[m] = IF m = 0 THEN 0 ELSE NotedStep(j, f, m)
    <3> SUFFICES ASSUME NEW m \in 0..i + 1
                 PROVE  j[m] = IF m = 0 THEN 0 ELSE NotedStep(j, f, m)
      OBVIOUS
    <3>1. CASE m = 0
      BY <2>1, <3>1 DEF IsNoted
    <3>2. CASE m # 0
      <4>1. m - 1 \in 0..i /\ m - 1 # i + 1 /\ m - 1 \in 0..i + 1
        BY <3>2
      <4>2. j[m - 1] = k[m - 1]
        BY <4>1
      <4>3. j[m] = NotedStep(k, f, m)
        BY <2>1, <3>2, <4>1 DEF IsNoted
      <4> HIDE DEF j
      <4> QED
        BY <3>2, <4>2, <4>3 DEF NotedStep
    <3> QED
      BY <3>1, <3>2
  <2>3. j = [m \in 0..i + 1 |-> j[m]]
    OBVIOUS
  <2> HIDE DEF j
  <2>4. IsNoted(j, f, i + 1)
    BY <2>2, <2>3 DEF IsNoted
  <2> QED
    BY <2>4
<1>3. Nat \subseteq T
  <2> HIDE DEF T
  <2> QED
    BY <1>1, <1>2, NatInduct
<1> QED
  BY <1>3

LEMMA NotedIs ==
  ASSUME NEW f, Len(f) \in Nat
  PROVE  \E k : IsNoted(k, f, Len(f)) /\ Noted(f) = k[Len(f)]
<1> DEFINE P(k) == k = [n \in 0..Len(f) |->
                          IF n = 0 THEN 0
                          ELSE IF f[n][1] = "dropped" THEN k[n - 1] + f[n][2] ELSE k[n - 1]]
<1>1. \E k : P(k)
  <2>1. PICK k : IsNoted(k, f, Len(f))
    BY NotedExists
  <2>2. P(k)
    BY <2>1 DEF IsNoted, NotedStep
  <2> QED
    BY <2>2
<1>2. P(CHOOSE k : P(k))
  BY <1>1
<1>3. Noted(f) = (CHOOSE k : P(k))[Len(f)]
  BY DEF Noted
<1> QED
  BY <1>2, <1>3 DEF IsNoted, NotedStep

LEMMA NotedEmpty == Noted(<<>>) = 0
<1>1. Len(<<>>) = 0
  OBVIOUS
<1>2. PICK k : IsNoted(k, <<>>, 0) /\ Noted(<<>>) = k[0]
  BY <1>1, NotedIs
<1> QED
  BY <1>2 DEF IsNoted

LEMMA NotedAppend ==
  ASSUME NEW E, NEW f \in Seq(E), NEW e \in E
  PROVE  Noted(Append(f, e)) = IF e[1] = "dropped" THEN Noted(f) + e[2] ELSE Noted(f)
<1> DEFINE g == Append(f, e)
           n == Len(f)
<1>1. n \in Nat /\ Len(g) = n + 1 /\ g[n + 1] = e /\ \A i \in 1..n : g[i] = f[i]
  BY AppendProperties
<1> HIDE DEF g, n
<1>2. PICK k : IsNoted(k, f, n) /\ Noted(f) = k[n]
  BY <1>1, NotedIs DEF n
<1>3. PICK j : IsNoted(j, g, n + 1) /\ Noted(g) = j[n + 1]
  BY <1>1, NotedIs
<1> DEFINE T == {i \in Nat : i <= n => k[i] = j[i]}
<1>4. 0 \in T
  BY <1>1, <1>2, <1>3 DEF IsNoted
<1>5. ASSUME NEW i \in Nat, i \in T PROVE i + 1 \in T
  <2> SUFFICES ASSUME i + 1 <= n PROVE k[i + 1] = j[i + 1]
    OBVIOUS
  <2>1. k[i + 1] = NotedStep(k, f, i + 1)
    BY <1>1, <1>2 DEF IsNoted
  <2>2. j[i + 1] = NotedStep(j, g, i + 1)
    BY <1>1, <1>3 DEF IsNoted
  <2>3. k[(i + 1) - 1] = j[(i + 1) - 1] /\ f[i + 1] = g[i + 1]
    BY <1>1, <1>5
  <2> QED
    BY <2>1, <2>2, <2>3 DEF NotedStep
<1>6. Nat \subseteq T
  <2> HIDE DEF T
  <2> QED
    BY <1>4, <1>5, NatInduct
<1>7. k[n] = j[n]
  BY <1>1, <1>6
<1>8. j[n + 1] = NotedStep(j, g, n + 1)
  BY <1>1, <1>3 DEF IsNoted
<1>9. (n + 1) - 1 = n
  BY <1>1
<1> QED
  BY <1>1, <1>2, <1>3, <1>7, <1>8, <1>9 DEF NotedStep, g

\* Lines count for nothing.
LEMMA NotedConcat ==
  ASSUME NEW E, NEW f \in Seq(E), NEW S, S \subseteq E, NEW g \in Seq(S),
         \A e \in S : e[1] # "dropped"
  PROVE  Noted(f \o g) = Noted(f)
<1> DEFINE T == {s \in Seq(S) : Noted(f \o s) = Noted(f)}
<1>1. <<>> \in T
  <2>1. f \o <<>> = f
    BY ConcatEmptySeq
  <2> QED
    BY <2>1, EmptySeq
<1>2. ASSUME NEW s \in Seq(S), NEW e \in S, s \in T PROVE Append(s, e) \in T
  <2>1. s \in Seq(E) /\ e \in E /\ f \o s \in Seq(E)
    BY ConcatProperties, SeqMonotonic
  <2>2. f \o Append(s, e) = Append(f \o s, e)
    BY <2>1, AppendConcat
  <2>3. Noted(Append(f \o s, e)) = Noted(f \o s)
    BY <2>1, NotedAppend
  <2> QED
    BY <1>2, <2>2, <2>3, AppendProperties
<1>3. Seq(S) \subseteq T
  <2> HIDE DEF T
  <2> QED
    BY <1>1, <1>2, SeqInduct
<1> QED
  BY <1>3

LEMMA NotedType ==
  ASSUME NEW E, NEW f \in Seq(E), \A e \in E : e[1] = "dropped" => e[2] \in Nat
  PROVE  Noted(f) \in Nat
<1> DEFINE T == {s \in Seq(E) : Noted(s) \in Nat}
<1>1. <<>> \in T
  BY NotedEmpty, EmptySeq
<1>2. ASSUME NEW s \in Seq(E), NEW e \in E, s \in T PROVE Append(s, e) \in T
  <2>1. Append(s, e) \in Seq(E)
    BY AppendProperties
  <2> QED
    BY <1>2, <2>1, NotedAppend
<1>3. Seq(E) \subseteq T
  <2> HIDE DEF T
  <2> QED
    BY <1>1, <1>2, SeqInduct
<1> QED
  BY <1>3

-----------------------------------------------------------------------------
(* What a thread still has to do *)

LEMMA PlanTail ==
  ASSUME NEW q, NEW a, NEW w, NEW b, NEW v, PlanOK(q, a, w), q # <<>>,
         q[1] \notin {"end", "_Exit"},
         a = FALSE => b = FALSE, w = "gone" => v = "gone",
         q[1] = "drain" => b = FALSE, q[1] = "join" => v = "gone"
  PROVE  PlanOK(Tail(q), b, v)
<1> DEFINE r == Tail(q)
<1>1. q \in Seq(StepName) /\ Len(q) \in Nat /\ Len(q) # 0
  BY EmptySeq DEF PlanOK
<1>2. r \in Seq(StepName) /\ Len(r) = Len(q) - 1 /\ \A i \in 1..Len(r) : r[i] = q[i + 1]
  BY <1>1, HeadTailProperties
<1> HIDE DEF r
<1>3. Len(q) # 1
  BY <1>1 DEF PlanOK
<1>4. r[Len(r)] = q[Len(q)]
  BY <1>1, <1>2, <1>3
<1>5. ASSUME NEW i \in 1..Len(r)
      PROVE  /\ r[i] \in {"end", "_Exit"} => i = Len(r)
             /\ r[i] = "stop" => b = FALSE \/ \E j \in 1..i - 1 : r[j] = "drain"
             /\ r[i] \in {"sweep", "end"} => v = "gone" \/ \E j \in 1..i - 1 : r[j] = "join"
  <2>1. i + 1 \in 1..Len(q) /\ r[i] = q[i + 1]
    BY <1>1, <1>2
  <2>2. r[i] \in {"end", "_Exit"} => i = Len(r)
    BY <1>1, <1>2, <2>1 DEF PlanOK
  <2>3. ASSUME NEW s, NEW j \in 1..(i + 1) - 1, q[j] = s, q[1] # s
        PROVE  \E h \in 1..i - 1 : r[h] = s
    <3>1. j - 1 \in 1..i - 1 /\ j - 1 \in 1..Len(r) /\ (j - 1) + 1 = j
      BY <1>1, <1>2, <2>3
    <3> QED
      BY <1>2, <2>3, <3>1
  <2>4. r[i] = "stop" => b = FALSE \/ \E j \in 1..i - 1 : r[j] = "drain"
    <3> SUFFICES ASSUME q[i + 1] = "stop", b # FALSE PROVE \E j \in 1..i - 1 : r[j] = "drain"
      BY <2>1
    <3>1. a # FALSE /\ q[1] # "drain"
      OBVIOUS
    <3>2. PICK j \in 1..(i + 1) - 1 : q[j] = "drain"
      BY <2>1, <3>1 DEF PlanOK
    <3> QED
      BY <2>3, <3>1, <3>2
  <2>5. r[i] \in {"sweep", "end"} => v = "gone" \/ \E j \in 1..i - 1 : r[j] = "join"
    BY <2>1, <2>3 DEF PlanOK
  <2> QED
    BY <2>2, <2>4, <2>5
<1> QED
  BY <1>1, <1>2, <1>4, <1>5 DEF PlanOK, r

LEMMA PlanKept ==
  ASSUME NEW q, NEW a, NEW w, NEW b, NEW v, PlanOK(q, a, w),
         a = FALSE => b = FALSE, w = "gone" => v = "gone"
  PROVE  PlanOK(q, b, v)
  BY DEF PlanOK

LEMMA DueTail ==
  ASSUME NEW q \in Seq(StepName), NEW n \in Nat, NEW s, q # <<>>, DueOK(q, n, s), Tail(q) # <<>>
  PROVE  /\ DueOK(Tail(q), n, s)
         /\ q[1] = "line" => DueOK(Tail(q), n + 1, s)
<1> DEFINE r == Tail(q)
<1>1. Len(q) \in Nat /\ Len(q) # 0
  BY EmptySeq
<1>2. r \in Seq(StepName) /\ Len(r) = Len(q) - 1 /\ \A i \in 1..Len(r) : r[i] = q[i + 1]
  BY <1>1, HeadTailProperties
<1> HIDE DEF r
<1>3. \A i \in 1..Len(r) : i + 1 \in 1..Len(q)
  BY <1>1, <1>2
<1>4. \A i, j \in 1..Len(r) : r[i] = "line" =>
        /\ r[j] = "line" => i = j
        /\ r[j] = "summary" => i < j
  <2> SUFFICES ASSUME NEW i \in 1..Len(r), NEW j \in 1..Len(r), r[i] = "line"
               PROVE  /\ r[j] = "line" => i = j
                      /\ r[j] = "summary" => i < j
    OBVIOUS
  <2>1. i + 1 \in 1..Len(q) /\ j + 1 \in 1..Len(q) /\ r[i] = q[i + 1] /\ r[j] = q[j + 1]
    BY <1>1, <1>2
  <2>2. /\ q[j + 1] = "line" => i + 1 = j + 1
        /\ q[j + 1] = "summary" => i + 1 < j + 1
    BY <2>1 DEF DueOK
  <2> QED
    BY <1>1, <1>2, <2>1, <2>2
<1>5. HasLine(r) => HasLine(q)
  BY <1>2, <1>3 DEF HasLine
<1>6. HasSummary(r) => HasSummary(q)
  BY <1>2, <1>3 DEF HasSummary
<1>7. q[1] = "line" => HasLine(q) /\ ~ HasLine(r)
  <2> SUFFICES ASSUME q[1] = "line" PROVE HasLine(q) /\ ~ HasLine(r)
    OBVIOUS
  <2>1. 1 \in 1..Len(q)
    BY <1>1
  <2>2. ASSUME NEW i \in 1..Len(r), r[i] = "line" PROVE FALSE
    BY <1>1, <1>2, <1>3, <2>1, <2>2 DEF DueOK
  <2> QED
    BY <2>1, <2>2 DEF HasLine
<1>8. n + LinesDue(q, s) <= MaxLines + 2
  BY DEF DueOK
<1>9. n + LinesDue(r, s) <= MaxLines + 2 /\ (q[1] = "line" => (n + 1) + LinesDue(r, s) <= MaxLines + 2)
  BY <1>5, <1>6, <1>7, <1>8, MaxLinesAssumption DEF LinesDue
<1> QED
  BY <1>4, <1>9 DEF DueOK, r

LEMMA DueKept ==
  ASSUME NEW q, NEW n \in Nat, NEW s, DueOK(q, n, s)
  PROVE  DueOK(q, n, TRUE)
  BY MaxLinesAssumption DEF DueOK, LinesDue

\* The summary is written once: whoever comes first stops the watchdog, and logs
\* the summary's line.
DogSteps == <<"dogStop", "dogJoin", "drain", "line">>

LEMMA InsertedSteps ==
  ASSUME NEW q \in Seq(StepName), q # <<>>
  PROVE  LET r == DogSteps \o Tail(q)
         IN  /\ r \in Seq(StepName) /\ Len(r) = Len(q) + 3 /\ Len(q) \in Nat \ {0}
             /\ r[1] = "dogStop" /\ r[2] = "dogJoin" /\ r[3] = "drain" /\ r[4] = "line"
             /\ \A i \in 5..Len(r) : r[i] = q[i - 3] /\ i - 3 \in 2..Len(q)
<1> DEFINE p == Tail(q)
           r == DogSteps \o p
<1>1. p \in Seq(StepName) /\ Len(p) = Len(q) - 1 /\ \A i \in 1..Len(p) : p[i] = q[i + 1]
  BY HeadTailProperties
<1>2. Len(q) \in Nat \ {0}
  BY EmptySeq
<1>3. DogSteps \in Seq(StepName) /\ Len(DogSteps) = 4
  BY DEF DogSteps, StepName
<1> HIDE DEF p
<1>4. /\ r \in Seq(StepName) /\ Len(r) = 4 + Len(p)
      /\ \A i \in 1..4 + Len(p) : r[i] = IF i <= 4 THEN DogSteps[i] ELSE p[i - 4]
  <2>1. /\ r \in Seq(StepName) /\ Len(r) = Len(DogSteps) + Len(p)
        /\ \A i \in 1..Len(DogSteps) + Len(p) :
             r[i] = IF i <= Len(DogSteps) THEN DogSteps[i] ELSE p[i - Len(DogSteps)]
    BY <1>1, <1>3, ConcatProperties
  <2> HIDE DEF r
  <2> QED
    BY <1>3, <2>1
<1> HIDE DEF r
<1>5. r[1] = "dogStop" /\ r[2] = "dogJoin" /\ r[3] = "drain" /\ r[4] = "line"
  <2>1. 1 \in 1..4 + Len(p) /\ 2 \in 1..4 + Len(p) /\ 3 \in 1..4 + Len(p) /\ 4 \in 1..4 + Len(p)
    BY <1>1, <1>2
  <2>2. r[1] = DogSteps[1] /\ r[2] = DogSteps[2] /\ r[3] = DogSteps[3] /\ r[4] = DogSteps[4]
    BY <1>4, <2>1
  <2> QED
    BY <2>2 DEF DogSteps
<1>6. ASSUME NEW i \in 5..Len(r) PROVE r[i] = q[i - 3] /\ i - 3 \in 2..Len(q)
  <2>1. i \in 1..4 + Len(p) /\ ~ (i <= 4) /\ i - 4 \in 1..Len(p) /\ (i - 4) + 1 = i - 3
    BY <1>1, <1>2, <1>4
  <2>2. r[i] = p[i - 4]
    BY <1>4, <2>1
  <2>3. p[i - 4] = q[i - 3]
    BY <1>1, <2>1
  <2>4. i - 3 \in 2..Len(q)
    BY <1>1, <1>2, <2>1
  <2> QED
    BY <2>2, <2>3, <2>4
<1>7. Len(r) = Len(q) + 3
  BY <1>1, <1>2, <1>4
<1> QED
  BY <1>2, <1>4, <1>5, <1>6, <1>7 DEF r, p

LEMMA PlanInsert ==
  ASSUME NEW q, NEW a, NEW w, PlanOK(q, a, w), q # <<>>, q[1] = "summary"
  PROVE  PlanOK(DogSteps \o Tail(q), a, w)
<1> DEFINE r == DogSteps \o Tail(q)
<1>1. /\ q \in Seq(StepName) /\ Len(q) \in Nat \ {0}
      /\ r \in Seq(StepName) /\ Len(r) = Len(q) + 3
      /\ r[1] = "dogStop" /\ r[2] = "dogJoin" /\ r[3] = "drain" /\ r[4] = "line"
      /\ \A i \in 5..Len(r) : r[i] = q[i - 3] /\ i - 3 \in 2..Len(q)
  BY InsertedSteps DEF PlanOK
<1> HIDE DEF r
<1>2. Len(q) # 1
  BY <1>1 DEF PlanOK
<1>3. r[Len(r)] = q[Len(q)]
  <2>0. Len(q) \in Nat /\ Len(q) >= 2
    <3>1. PICK k \in Nat \ {0} : k = Len(q)
      BY <1>1
    <3>2. k # 1
      BY <1>2, <3>1
    <3>3. k >= 2
      BY <3>1, <3>2
    <3> QED
      BY <3>1, <3>3
  <2>1. Len(r) \in 5..Len(r) /\ Len(r) - 3 = Len(q)
    BY <1>1, <2>0
  <2> QED
    BY <1>1, <2>1
<1>4. ASSUME NEW i \in 1..Len(r)
      PROVE  /\ r[i] \in {"end", "_Exit"} => i = Len(r)
             /\ r[i] = "stop" => a = FALSE \/ \E j \in 1..i - 1 : r[j] = "drain"
             /\ r[i] \in {"sweep", "end"} => w = "gone" \/ \E j \in 1..i - 1 : r[j] = "join"
  <2>1. CASE i \in 1..4
    <3>1. i = 1 \/ i = 2 \/ i = 3 \/ i = 4
      BY <2>1
    <3> QED
      BY <1>1, <3>1
  <2>2. CASE i \in 5..Len(r)
    <3>1. r[i] = q[i - 3] /\ i - 3 \in 1..Len(q)
      BY <1>1, <2>2
    <3>2. r[i] \in {"end", "_Exit"} => i = Len(r)
      BY <1>1, <3>1 DEF PlanOK
    <3>3. 3 \in 1..i - 1
      BY <2>2
    <3>4. ASSUME NEW j \in 1..(i - 3) - 1, q[j] = "join"
          PROVE  \E h \in 1..i - 1 : r[h] = "join"
      <4>1. j # 1
        BY <3>4
      <4>2. j + 3 \in 5..Len(r) /\ j + 3 \in 1..i - 1 /\ (j + 3) - 3 = j
        BY <1>1, <2>2, <4>1
      <4> QED
        BY <1>1, <3>4, <4>2
    <3>5. r[i] \in {"sweep", "end"} => w = "gone" \/ \E j \in 1..i - 1 : r[j] = "join"
      BY <3>1, <3>4 DEF PlanOK
    <3> QED
      BY <1>1, <3>2, <3>3, <3>5
  <2>3. i \in 1..4 \/ i \in 5..Len(r)
    BY <1>1
  <2> QED
    BY <2>1, <2>2, <2>3
<1> QED
  BY <1>1, <1>3, <1>4 DEF PlanOK, r

LEMMA DueInsert ==
  ASSUME NEW q \in Seq(StepName), NEW n \in Nat, DueOK(q, n, FALSE), q # <<>>, q[1] = "summary"
  PROVE  DueOK(DogSteps \o Tail(q), n, TRUE)
<1> DEFINE r == DogSteps \o Tail(q)
<1>1. /\ Len(q) \in Nat \ {0}
      /\ r \in Seq(StepName) /\ Len(r) = Len(q) + 3
      /\ r[1] = "dogStop" /\ r[2] = "dogJoin" /\ r[3] = "drain" /\ r[4] = "line"
      /\ \A i \in 5..Len(r) : r[i] = q[i - 3] /\ i - 3 \in 2..Len(q)
  BY InsertedSteps
<1> HIDE DEF r
<1>2. 1 \in 1..Len(q)
  BY <1>1
<1>3. ASSUME NEW i \in 1..Len(q), q[i] = "line" PROVE FALSE
  <2>1. i < 1
    BY <1>2, <1>3 DEF DueOK
  <2> QED
    BY <2>1
<1>4. ASSUME NEW i \in 1..Len(r) PROVE r[i] = "line" => i = 4
  <2>1. CASE i \in 1..4
    <3>1. i = 1 \/ i = 2 \/ i = 3 \/ i = 4
      BY <2>1
    <3> QED
      BY <1>1, <3>1
  <2>2. CASE i \in 5..Len(r)
    <3>1. r[i] = q[i - 3] /\ i - 3 \in 1..Len(q)
      BY <1>1, <2>2
    <3> QED
      BY <1>3, <3>1
  <2> QED
    BY <1>1, <2>1, <2>2
<1>5. ASSUME NEW i \in 1..Len(r), r[i] = "summary" PROVE 4 < i
  <2>1. i \notin 1..4
    <3> SUFFICES ASSUME i \in 1..4 PROVE FALSE
      OBVIOUS
    <3>1. i = 1 \/ i = 2 \/ i = 3 \/ i = 4
      OBVIOUS
    <3> QED
      BY <1>1, <1>5, <3>1
  <2> QED
    BY <2>1
<1>6. \A i, j \in 1..Len(r) : r[i] = "line" =>
        /\ r[j] = "line" => i = j
        /\ r[j] = "summary" => i < j
  BY <1>4, <1>5
<1>7. HasSummary(q)
  BY <1>2 DEF HasSummary
<1>8. n + 1 <= MaxLines + 2
  BY <1>7, MaxLinesAssumption DEF DueOK, LinesDue
<1>9. n + LinesDue(r, TRUE) <= MaxLines + 2
  BY <1>8, MaxLinesAssumption DEF LinesDue
<1>10. r # <<>>
  BY <1>1
<1> QED
  BY <1>6, <1>9, <1>10 DEF DueOK, r

-----------------------------------------------------------------------------
(* Every way to leave is such a plan *)

LEMMA FatalSteps ==
  <<"sync", "drain", "summary", "drain">> \o ExitSteps =
    <<"sync", "drain", "summary", "drain", "drain", "stop", "join", "sweep", "summary", "end">>
<1> DEFINE p == <<"sync", "drain", "summary", "drain">>
           q == <<"drain", "stop", "join", "sweep", "summary", "end">>
           r == <<"sync", "drain", "summary", "drain", "drain", "stop", "join", "sweep",
                  "summary", "end">>
<1>1. p \in Seq(StepName) /\ q \in Seq(StepName) /\ r \in Seq(StepName)
  BY DEF StepName
<1>2. Len(p) = 4 /\ Len(q) = 6 /\ Len(r) = 10
  OBVIOUS
<1>3. /\ p[1] = r[1] /\ p[2] = r[2] /\ p[3] = r[3] /\ p[4] = r[4] /\ q[1] = r[5]
      /\ q[2] = r[6] /\ q[3] = r[7] /\ q[4] = r[8] /\ q[5] = r[9] /\ q[6] = r[10]
  OBVIOUS
<1>4. ExitSteps = q
  BY DEF ExitSteps
<1> HIDE DEF p, q, r
<1> DEFINE c == p \o q
<1>5. /\ c \in Seq(StepName) /\ Len(c) = Len(p) + Len(q)
      /\ \A i \in 1..Len(p) + Len(q) : c[i] = IF i <= Len(p) THEN p[i] ELSE q[i - Len(p)]
  BY <1>1, ConcatProperties
<1> HIDE DEF c
<1>6. ASSUME NEW i \in 1..10 PROVE c[i] = r[i]
  <2>1. c[i] = IF i <= 4 THEN p[i] ELSE q[i - 4]
    BY <1>2, <1>5
  <2>2. \/ i = 1 \/ i = 2 \/ i = 3 \/ i = 4 \/ i = 5
        \/ i = 6 \/ i = 7 \/ i = 8 \/ i = 9 \/ i = 10
    OBVIOUS
  <2> QED
    BY <1>3, <2>1, <2>2
<1>7. c = r
  <2>1. Len(c) = 10 /\ Len(c) = Len(r) /\ \A i \in 1..Len(c) : c[i] = r[i]
    BY <1>2, <1>5, <1>6
  <2> QED
    BY <1>1, <1>5, <2>1, SeqEqual
<1> QED
  BY <1>4, <1>7 DEF c, p, r

LEMMA StepsAre ==
  /\ Steps("exit") = <<"drain", "stop", "join", "sweep", "summary", "end">>
  /\ Steps("fatal") = <<"sync", "drain", "summary", "drain", "drain", "stop", "join", "sweep",
                        "summary", "end">>
  /\ Steps("fault") = <<"sync", "drain", "line", "summary", "drain", "_Exit">>
  /\ Steps("interrupt") = <<"line", "summary", "drain", "_Exit">>
  BY FatalSteps DEF Steps, ExitSteps

LEMMA StepsPlan ==
  ASSUME NEW how \in Endings, NEW a, NEW w, NEW n \in 0..MaxLines, NEW s
  PROVE  /\ PlanOK(Steps(how), a, w) /\ DueOK(Steps(how), n, s)
         /\ Steps(how) # <<>>
<1> USE MaxLinesAssumption
<1>1. CASE how = "exit"
  <2> DEFINE q == <<"drain", "stop", "join", "sweep", "summary", "end">>
  <2>1. PlanOK(q, a, w)
    <3>1. q \in Seq(StepName) /\ q[Len(q)] \in {"end", "_Exit"}
      BY DEF StepName
    <3>2. \A i \in 1..Len(q) : q[i] \in {"end", "_Exit"} => i = Len(q)
      OBVIOUS
    <3>3. \A i \in 1..Len(q) : q[i] = "stop" => \E j \in 1..i - 1 : q[j] = "drain"
      OBVIOUS
    <3>4. \A i \in 1..Len(q) : q[i] \in {"sweep", "end"} => \E j \in 1..i - 1 : q[j] = "join"
      OBVIOUS
    <3> HIDE DEF q
    <3> QED
      BY <3>1, <3>2, <3>3, <3>4 DEF PlanOK
  <2>2. DueOK(q, n, s)
    BY DEF DueOK, LinesDue, HasLine, HasSummary
  <2> QED
    BY <1>1, <2>1, <2>2, StepsAre
<1>2. CASE how = "fatal"
  <2> DEFINE q == <<"sync", "drain", "summary", "drain", "drain", "stop", "join", "sweep",
                    "summary", "end">>
  <2>1. PlanOK(q, a, w)
    <3>1. q \in Seq(StepName) /\ q[Len(q)] \in {"end", "_Exit"}
      BY DEF StepName
    <3>2. \A i \in 1..Len(q) : q[i] \in {"end", "_Exit"} => i = Len(q)
      OBVIOUS
    <3>3. \A i \in 1..Len(q) : q[i] = "stop" => \E j \in 1..i - 1 : q[j] = "drain"
      OBVIOUS
    <3>4. \A i \in 1..Len(q) : q[i] \in {"sweep", "end"} => \E j \in 1..i - 1 : q[j] = "join"
      OBVIOUS
    <3> HIDE DEF q
    <3> QED
      BY <3>1, <3>2, <3>3, <3>4 DEF PlanOK
  <2>2. DueOK(q, n, s)
    BY DEF DueOK, LinesDue, HasLine, HasSummary
  <2> QED
    BY <1>2, <2>1, <2>2, StepsAre
<1>3. CASE how = "fault"
  <2> DEFINE q == <<"sync", "drain", "line", "summary", "drain", "_Exit">>
  <2>1. PlanOK(q, a, w)
    <3>1. q \in Seq(StepName) /\ q[Len(q)] \in {"end", "_Exit"}
      BY DEF StepName
    <3>2. \A i \in 1..Len(q) : q[i] \in {"end", "_Exit"} => i = Len(q)
      OBVIOUS
    <3>3. \A i \in 1..Len(q) : q[i] = "stop" => \E j \in 1..i - 1 : q[j] = "drain"
      OBVIOUS
    <3>4. \A i \in 1..Len(q) : q[i] \in {"sweep", "end"} => \E j \in 1..i - 1 : q[j] = "join"
      OBVIOUS
    <3> HIDE DEF q
    <3> QED
      BY <3>1, <3>2, <3>3, <3>4 DEF PlanOK
  <2>2. DueOK(q, n, s)
    BY DEF DueOK, LinesDue, HasLine, HasSummary
  <2> QED
    BY <1>3, <2>1, <2>2, StepsAre
<1>4. CASE how = "interrupt"
  <2> DEFINE q == <<"line", "summary", "drain", "_Exit">>
  <2>1. PlanOK(q, a, w)
    <3>1. q \in Seq(StepName) /\ q[Len(q)] \in {"end", "_Exit"}
      BY DEF StepName
    <3>2. \A i \in 1..Len(q) : q[i] \in {"end", "_Exit"} => i = Len(q)
      OBVIOUS
    <3>3. \A i \in 1..Len(q) : q[i] = "stop" => \E j \in 1..i - 1 : q[j] = "drain"
      OBVIOUS
    <3>4. \A i \in 1..Len(q) : q[i] \in {"sweep", "end"} => \E j \in 1..i - 1 : q[j] = "join"
      OBVIOUS
    <3> HIDE DEF q
    <3> QED
      BY <3>1, <3>2, <3>3, <3>4 DEF PlanOK
  <2>2. DueOK(q, n, s)
    BY DEF DueOK, LinesDue, HasLine, HasSummary
  <2> QED
    BY <1>4, <2>1, <2>2, StepsAre
<1> QED
  BY <1>1, <1>2, <1>3, <1>4, EndingsAssumption

-----------------------------------------------------------------------------
(* The steps, and what a thread still has to do *)

LEMMA HeadOf ==
  ASSUME TodoInv, NEW t \in Thread, Leaving(t), Head(todo[t]) \notin {"end", "_Exit"}
  PROVE  /\ todo[t] \in Seq(StepName) /\ todo[t] # <<>> /\ todo[t][1] = Head(todo[t])
         /\ Tail(todo[t]) \in Seq(StepName) /\ Tail(todo[t]) # <<>>
<1> DEFINE q == todo[t]
<1>1. q \in Seq(StepName) /\ q # <<>> /\ PlanOK(q, async, wpc)
  BY DEF TodoInv, Leaving
<1> HIDE DEF q
<1>2. Len(q) \in Nat /\ Len(q) # 0 /\ q[1] = Head(q)
  BY <1>1, EmptySeq
<1>3. Tail(q) \in Seq(StepName) /\ Len(Tail(q)) = Len(q) - 1
  BY <1>1, HeadTailProperties
<1>4. Len(q) # 1
  BY <1>1, <1>2 DEF PlanOK, q
<1>5. Tail(q) # <<>>
  <2>1. PICK k \in Nat : k = Len(q)
    BY <1>2
  <2>2. k # 1
    BY <1>4, <2>1
  <2>3. Len(Tail(q)) # 0
    BY <1>3, <2>1, <2>2
  <2> QED
    BY <2>3, EmptySeq
<1> QED
  BY <1>1, <1>2, <1>3, <1>5 DEF q

\* A step is done.
LEMMA TodoDone ==
  ASSUME TodoInv, NEW t \in Thread, Leaving(t), StepDone(t),
         Head(todo[t]) \notin {"end", "_Exit"},
         async = FALSE => async' = FALSE, wpc = "gone" => wpc' = "gone", summary' = summary,
         Head(todo[t]) = "drain" => async' = FALSE,
         Head(todo[t]) = "join" => wpc' = "gone",
         \/ UNCHANGED count
         \/ Head(todo[t]) = "line" /\ count' = [count EXCEPT ![t] = @ + 1]
  PROVE  TodoInv' /\ todo'[t] # <<>> /\ \A u \in Thread : u # t => todo'[u] = todo[u]
<1>1. /\ todo[t] \in Seq(StepName) /\ todo[t] # <<>> /\ todo[t][1] = Head(todo[t])
      /\ Tail(todo[t]) \in Seq(StepName) /\ Tail(todo[t]) # <<>>
  BY HeadOf
<1>2. /\ todo' \in [Thread -> Seq(StepName)] /\ todo'[t] = Tail(todo[t])
      /\ \A u \in Thread : u # t => todo'[u] = todo[u]
  BY <1>1 DEF StepDone, TodoInv
<1>3. /\ count' \in [Thread -> Nat]
      /\ count'[t] = count[t] \/ (Head(todo[t]) = "line" /\ count'[t] = count[t] + 1)
      /\ \A u \in Thread : u # t => count'[u] = count[u]
  BY DEF TodoInv
<1>4. ASSUME NEW u \in Thread
      PROVE  PlanOK(todo'[u], async', wpc') /\ DueOK(todo'[u], count'[u], summary')
  <2>1. PlanOK(todo[u], async, wpc) /\ DueOK(todo[u], count[u], summary)
    BY DEF TodoInv
  <2>2. CASE u # t
    <3>1. todo'[u] = todo[u] /\ count'[u] = count[u]
      BY <1>2, <1>3, <2>2
    <3>2. PlanOK(todo[u], async', wpc')
      BY <2>1, PlanKept
    <3> QED
      BY <2>1, <3>1, <3>2
  <2>3. CASE u = t
    <3> DEFINE q == todo[t]
    <3>1. PlanOK(q, async, wpc) /\ DueOK(q, count[t], summary)
      BY <2>1, <2>3
    <3>2. count[t] \in Nat
      BY DEF TodoInv
    <3> HIDE DEF q
    <3>3. q \in Seq(StepName) /\ q # <<>> /\ q[1] \notin {"end", "_Exit"} /\ Tail(q) # <<>>
      BY <1>1 DEF q
    <3>4. (q[1] = "drain" => async' = FALSE) /\ (q[1] = "join" => wpc' = "gone")
      BY <1>1 DEF q
    <3>5. PlanOK(Tail(q), async', wpc')
      BY <3>1, <3>3, <3>4, PlanTail
    <3>6. DueOK(Tail(q), count[t], summary) /\ (q[1] = "line" => DueOK(Tail(q), count[t] + 1, summary))
      BY <3>1, <3>2, <3>3, DueTail
    <3> QED
      BY <1>1, <1>2, <1>3, <2>3, <3>5, <3>6 DEF q
  <2> QED
    BY <2>2, <2>3
<1> QED
  BY <1>1, <1>2, <1>3, <1>4 DEF TodoInv

\* Nothing was done, or an idle thread logged a line.
LEMMA TodoKept ==
  ASSUME TodoInv, UNCHANGED <<todo, summary>>,
         async = FALSE => async' = FALSE, wpc = "gone" => wpc' = "gone",
         \/ UNCHANGED count
         \/ \E t \in Thread : /\ ~Leaving(t) /\ count[t] < MaxLines
                              /\ count' = [count EXCEPT ![t] = @ + 1]
  PROVE  TodoInv'
<1>1. count' \in [Thread -> Nat]
  <2>1. CASE UNCHANGED count
    BY <2>1 DEF TodoInv
  <2>2. CASE \E t \in Thread : count' = [count EXCEPT ![t] = @ + 1]
    BY <2>2 DEF TodoInv
  <2> QED
    BY <2>1, <2>2
<1>2. ASSUME NEW u \in Thread
      PROVE  PlanOK(todo[u], async', wpc') /\ DueOK(todo[u], count'[u], summary)
  <2>1. PlanOK(todo[u], async, wpc) /\ DueOK(todo[u], count[u], summary)
    BY DEF TodoInv
  <2>2. PlanOK(todo[u], async', wpc')
    BY <2>1, PlanKept
  <2>3. CASE count'[u] = count[u]
    BY <2>1, <2>2, <2>3
  <2>4. CASE count'[u] # count[u]
    <3>1. todo[u] = <<>> /\ count[u] < MaxLines /\ count'[u] = count[u] + 1 /\ count[u] \in Nat
      BY <2>4 DEF TodoInv, Leaving
    <3>2. DueOK(<<>>, count'[u], summary)
      BY <3>1, MaxLinesAssumption DEF DueOK, LinesDue, HasLine, HasSummary
    <3> QED
      BY <2>2, <3>1, <3>2
  <2> QED
    BY <2>3, <2>4
<1> QED
  BY <1>1, <1>2 DEF TodoInv

LEMMA TodoLeave ==
  ASSUME TodoInv, NEW t \in Thread, NEW how \in Endings, Leave(t, how)
  PROVE  TodoInv' /\ todo'[t] # <<>>
<1>1. UNCHANGED <<async, wpc, summary, count>> /\ todo' = [todo EXCEPT ![t] = Steps(how)]
  BY DEF Leave, lockVars, writerVars, endVars
<1>2. todo[t] = <<>> /\ DueOK(todo[t], count[t], summary) /\ count[t] \in Nat
  BY DEF Leave, Leaving, TodoInv
<1>3. count[t] \in 0..MaxLines
  BY <1>2, MaxLinesAssumption DEF DueOK
<1>4. PlanOK(Steps(how), async, wpc) /\ DueOK(Steps(how), count[t], summary) /\ Steps(how) # <<>>
  BY <1>3, StepsPlan
<1>5. Steps(how) \in Seq(StepName)
  BY <1>4 DEF PlanOK
<1> QED
  BY <1>1, <1>4, <1>5 DEF TodoInv

LEMMA TodoSummarize ==
  ASSUME TodoInv, summary \in BOOLEAN, NEW t \in Thread, Summarize(t)
  PROVE  TodoInv' /\ todo'[t] # <<>>
<1> DEFINE q == todo[t]
<1>1. q \in Seq(StepName) /\ q # <<>> /\ q[1] = "summary" /\ Tail(q) \in Seq(StepName) /\ Tail(q) # <<>>
  BY HeadOf DEF Summarize, At
<1>2. /\ UNCHANGED <<async, wpc, count>> /\ summary' = TRUE
      /\ todo' = [todo EXCEPT ![t] = (IF summary THEN <<>> ELSE DogSteps) \o Tail(@)]
  BY DEF Summarize, DogSteps, lockVars, writerVars
<1>3. PlanOK(q, async, wpc) /\ DueOK(q, count[t], summary) /\ count[t] \in Nat
  BY DEF TodoInv
<1> DEFINE r == (IF summary THEN <<>> ELSE DogSteps) \o Tail(q)
<1> HIDE DEF q
<1>4. PlanOK(r, async, wpc) /\ DueOK(r, count[t], TRUE) /\ r # <<>>
  <2>1. CASE summary = TRUE
    <3>1. r = Tail(q)
      BY <1>1, <2>1, ConcatEmptySeq
    <3>2. PlanOK(Tail(q), async, wpc)
      BY <1>1, <1>3, PlanTail
    <3>3. DueOK(Tail(q), count[t], TRUE)
      BY <1>1, <1>3, <2>1, DueTail
    <3> QED
      BY <1>1, <3>1, <3>2, <3>3
  <2>2. CASE summary = FALSE
    <3>1. r = DogSteps \o Tail(q)
      BY <2>2
    <3> HIDE DEF r
    <3>2. PlanOK(r, async, wpc)
      BY <1>1, <1>3, <3>1, PlanInsert
    <3>3. DueOK(r, count[t], TRUE)
      BY <1>1, <1>3, <2>2, <3>1, DueInsert
    <3>4. r # <<>>
      <4>1. PICK k \in Nat : k = Len(q)
        BY <1>1, EmptySeq
      <4>2. Len(r) = k + 3
        BY <1>1, <3>1, <4>1, InsertedSteps
      <4> QED
        BY <4>1, <4>2, EmptySeq
    <3> QED
      BY <3>2, <3>3, <3>4
  <2> QED
    BY <2>1, <2>2
<1>5. r \in Seq(StepName)
  BY <1>4 DEF PlanOK
<1>6. todo' = [todo EXCEPT ![t] = r]
  BY <1>2 DEF q
<1> HIDE DEF r
<1>7. ASSUME NEW u \in Thread
      PROVE  PlanOK(todo'[u], async', wpc') /\ DueOK(todo'[u], count'[u], summary')
  <2>1. CASE u = t
    BY <1>2, <1>4, <1>6, <2>1 DEF TodoInv
  <2>2. CASE u # t
    <3>1. PlanOK(todo[u], async, wpc) /\ DueOK(todo[u], count[u], summary) /\ count[u] \in Nat
      BY DEF TodoInv
    <3>2. DueOK(todo[u], count[u], TRUE)
      BY <3>1, DueKept
    <3> QED
      BY <1>2, <1>6, <2>2, <3>1, <3>2 DEF TodoInv
  <2> QED
    BY <2>1, <2>2
<1> QED
  BY <1>2, <1>4, <1>5, <1>6, <1>7 DEF TodoInv

\* Who leaves goes on leaving.
LEMMA TodoStep ==
  ASSUME TypeOK, TodoInv, WaitInv, Next
  PROVE  TodoInv' /\ \A t \in Thread : Leaving(t) => todo'[t] # <<>>
<1> DEFINE Goal == TodoInv' /\ \A t \in Thread : Leaving(t) => todo'[t] # <<>>
<1> USE DEF ringVars, lockVars, writerVars, threadVars, endVars, fileVars
<1>1. {async, summary} \subseteq BOOLEAN
  BY DEF TypeOK
<1>2. CASE WriterStep
  <2>1. UNCHANGED <<todo, summary, async, count>> /\ (wpc = "gone" => wpc' = "gone")
    BY <1>2 DEF WriterStep, Sleep, Take, WriteBatch, BatchDone
  <2>2. TodoInv'
    BY <2>1, TodoKept
  <2> QED
    BY <2>1, <2>2 DEF Leaving
<1>3. CASE DogQuits
  <2>1. UNCHANGED <<todo, summary, async, count, wpc>>
    BY <1>3 DEF DogQuits
  <2>2. TodoInv'
    BY <2>1, TodoKept
  <2> QED
    BY <2>1, <2>2 DEF Leaving
<1>4. ASSUME NEW t \in Thread, NEW how \in Endings, Leave(t, how) PROVE Goal
  <2>1. TodoInv'
    BY <1>4, TodoLeave
  <2>2. todo' = [todo EXCEPT ![t] = Steps(how)] /\ todo'[t] # <<>>
    BY <1>4, TodoLeave DEF Leave
  <2> QED
    BY <2>1, <2>2 DEF Leaving, TodoInv
<1>5. ASSUME NEW t \in Thread, Log(t) PROVE Goal
  <2>1. /\ UNCHANGED <<todo, summary, async, wpc>> /\ ~Leaving(t) /\ count[t] < MaxLines
        /\ count' = [count EXCEPT ![t] = @ + 1]
    BY <1>5 DEF Log, EmitLine
  <2>2. TodoInv'
    BY <2>1, TodoKept
  <2> QED
    BY <2>1, <2>2 DEF Leaving
<1>6. ASSUME NEW t \in Thread, ThreadStep(t) PROVE Goal
  <2>1. ASSUME UNCHANGED <<todo, summary, count>>, async = FALSE => async' = FALSE,
               wpc = "gone" => wpc' = "gone"
        PROVE  Goal
    BY <2>1, TodoKept DEF Leaving
  <2>2. ASSUME Leaving(t), StepDone(t), Head(todo[t]) \notin {"end", "_Exit"},
               async = FALSE => async' = FALSE, wpc = "gone" => wpc' = "gone", summary' = summary,
               Head(todo[t]) = "drain" => async' = FALSE,
               Head(todo[t]) = "join" => wpc' = "gone",
               \/ UNCHANGED count
               \/ Head(todo[t]) = "line" /\ count' = [count EXCEPT ![t] = @ + 1]
        PROVE  Goal
    BY <2>2, TodoDone DEF Leaving
  <2>3. CASE LockRing(t) \/ LockSink(t) \/ WriteNow(t) \/ End(t)
    BY <2>1, <2>3 DEF LockRing, LockSink, WriteNow, End
  <2>4. CASE Enqueue(t)
    BY <2>1, <2>4 DEF Enqueue, Put, Drop, NotifyWriter
  <2>5. CASE LogLine(t)
    <3>1. Leaving(t) /\ StepDone(t) /\ Head(todo[t]) = "line"
      BY <2>5 DEF LogLine, At
    <3>2. UNCHANGED <<async, wpc, summary>> /\ count' = [count EXCEPT ![t] = @ + 1]
      BY <2>5 DEF LogLine, EmitLine
    <3> QED
      BY <2>2, <3>1, <3>2
  <2>6. CASE WriteSync(t)
    <3>1. Leaving(t) /\ StepDone(t) /\ Head(todo[t]) = "sync"
      BY <2>6 DEF WriteSync, At
    <3>2. UNCHANGED <<async, wpc, summary, count>>
      BY <2>6 DEF WriteSync
    <3> QED
      BY <2>2, <3>1, <3>2
  <2>7. CASE Drain(t)
    <3>1. Leaving(t) /\ Head(todo[t]) = "drain" /\ async' = FALSE /\ UNCHANGED <<wpc, summary, count>>
      BY <2>7 DEF Drain, At
    <3>2. StepDone(t) \/ UNCHANGED todo
      BY <2>7 DEF Drain
    <3> QED
      BY <2>1, <2>2, <3>1, <3>2
  <2>8. CASE AwaitIdle(t)
    <3>1. Leaving(t) /\ Head(todo[t]) = "drain" /\ async = FALSE
      BY <1>1, <2>8 DEF AwaitIdle, WaitInv
    <3>2. UNCHANGED <<async, summary, count>> /\ (wpc = "gone" => wpc' = "gone")
      BY <2>8 DEF AwaitIdle, NotifyWriter
    <3>3. StepDone(t) \/ UNCHANGED todo
      BY <2>8 DEF AwaitIdle
    <3> QED
      BY <2>1, <2>2, <3>1, <3>2, <3>3
  <2>9. CASE Timeout(t)
    <3>1. Leaving(t) /\ Head(todo[t]) = "drain" /\ async = FALSE
      BY <1>1, <2>9 DEF Timeout, WaitInv
    <3>2. StepDone(t) /\ UNCHANGED <<async, wpc, summary, count>>
      BY <2>9 DEF Timeout
    <3> QED
      BY <2>2, <3>1, <3>2
  <2>10. CASE StopWriter(t)
    <3>1. Leaving(t) /\ StepDone(t) /\ Head(todo[t]) = "stop"
      BY <2>10 DEF StopWriter, At
    <3>2. UNCHANGED <<async, summary, count>> /\ (wpc = "gone" => wpc' = "gone")
      BY <2>10 DEF StopWriter, NotifyWriter
    <3> QED
      BY <2>2, <3>1, <3>2
  <2>11. CASE JoinWriter(t)
    <3>1. Leaving(t) /\ StepDone(t) /\ Head(todo[t]) = "join" /\ wpc = "gone"
      BY <2>11 DEF JoinWriter, At
    <3>2. UNCHANGED <<async, wpc, summary, count>>
      BY <2>11 DEF JoinWriter
    <3> QED
      BY <2>2, <3>1, <3>2
  <2>12. CASE Sweep(t)
    <3>1. Leaving(t) /\ StepDone(t) /\ Head(todo[t]) = "sweep"
      BY <2>12 DEF Sweep, At
    <3>2. UNCHANGED <<async, wpc, summary, count>>
      BY <2>12 DEF Sweep
    <3> QED
      BY <2>2, <3>1, <3>2
  <2>13. CASE Summarize(t)
    <3>1. TodoInv' /\ todo'[t] # <<>>
      BY <1>1, <2>13, TodoSummarize
    <3>2. \A u \in Thread : u # t => todo'[u] = todo[u]
      BY <2>13 DEF Summarize, TodoInv
    <3> QED
      BY <3>1, <3>2 DEF Leaving
  <2>14. CASE StopDog(t)
    <3>1. Leaving(t) /\ StepDone(t) /\ Head(todo[t]) = "dogStop"
      BY <2>14 DEF StopDog, At
    <3>2. UNCHANGED <<async, wpc, summary, count>>
      BY <2>14 DEF StopDog
    <3> QED
      BY <2>2, <3>1, <3>2
  <2>15. CASE JoinDog(t)
    <3>1. Leaving(t) /\ StepDone(t) /\ Head(todo[t]) = "dogJoin"
      BY <2>15 DEF JoinDog, At
    <3>2. UNCHANGED <<async, wpc, summary, count>>
      BY <2>15 DEF JoinDog
    <3> QED
      BY <2>2, <3>1, <3>2
  <2> QED
    BY <1>6, <2>3, <2>4, <2>5, <2>6, <2>7, <2>8, <2>9, <2>10, <2>11, <2>12, <2>13, <2>14, <2>15
       DEF ThreadStep
<1> QED
  BY <1>2, <1>3, <1>4, <1>5, <1>6, ThreadAssumption DEF Next

-----------------------------------------------------------------------------
(* The locks and the drains *)

LEMMA LockStep ==
  ASSUME TypeOK, TodoInv, WaitInv, LockInv, Next
  PROVE  LockInv' /\ WaitInv'
<1> DEFINE Goal == LockInv' /\ WaitInv'
<1> USE DEF ringVars, lockVars, writerVars, threadVars, endVars, fileVars
<1>1. /\ pc \in [Thread -> Pcs] /\ {async} \subseteq BOOLEAN /\ todo \in [Thread -> Seq(StepName)]
      /\ Nobody \notin Thread
  BY ThreadAssumption DEF TypeOK, TodoInv, Nobody
<1>2. \A t \in Thread : Leaving(t) => Leaving(t)'
  BY TodoStep DEF Leaving
<1>3. ASSUME UNCHANGED <<pc, mu, io, todo>>, async = FALSE => async' = FALSE PROVE Goal
  BY <1>1, <1>3 DEF LockInv, WaitInv, Leaving
\* A thread's own step, outside the locks before and after.
<1>4. ASSUME NEW t \in Thread, pc[t] \notin {"inside", "writing"}, UNCHANGED <<mu, io>>,
             NEW where, pc' = [pc EXCEPT ![t] = where], where \notin {"inside", "writing"},
             where \in {"drain", "idle", "recheck"} =>
               async' = FALSE /\ Leaving(t) /\ Head(todo[t]) = "drain" /\ UNCHANGED todo,
             \A u \in Thread : u # t => todo'[u] = todo[u], async = FALSE => async' = FALSE
      PROVE  Goal
  <2>1. pc'[t] = where /\ \A u \in Thread : u # t => pc'[u] = pc[u]
    BY <1>1, <1>4
  <2>2. LockInv'
    BY <1>2, <1>4, <2>1 DEF LockInv, Leaving
  <2>3. WaitInv'
    BY <1>1, <1>4, <2>1 DEF WaitInv, Leaving
  <2> QED
    BY <2>2, <2>3
<1>5. CASE WriterStep
  <2>1. CASE Sleep \/ Take \/ WriteBatch
    BY <1>3, <2>1 DEF Sleep, Take, WriteBatch
  <2>2. CASE BatchDone
    <3>1. /\ UNCHANGED <<mu, io, todo, async>>
          /\ pc' = [t \in Thread |-> IF pc[t] = "idle" THEN "recheck" ELSE pc[t]]
      BY <2>2 DEF BatchDone, NotifyIdle
    <3> QED
      BY <3>1 DEF LockInv, WaitInv, Leaving
  <2> QED
    BY <1>5, <2>1, <2>2 DEF WriterStep
<1>6. CASE DogQuits
  <2>1. pc[Dog] = "run" /\ pc' = [pc EXCEPT ![Dog] = "gone"] /\ UNCHANGED <<mu, io, todo, async>>
    BY <1>6 DEF DogQuits, Goto
  <2>2. Dog \in Thread
    BY ThreadAssumption
  <2>3. /\ \A u \in Thread : u # Dog => pc'[u] = pc[u]
        /\ pc'[Dog] = "gone" /\ UNCHANGED <<mu, io, todo, async>>
    BY <1>1, <2>1, <2>2
  <2> QED
    BY <2>1, <2>3 DEF LockInv, WaitInv, Leaving
<1>7. ASSUME NEW t \in Thread, NEW how \in Endings, Leave(t, how) PROVE Goal
  <2>1. /\ pc' = [pc EXCEPT ![t] = "run"] /\ UNCHANGED <<mu, io, async>>
        /\ todo'[t] # <<>> /\ \A u \in Thread : u # t => todo'[u] = todo[u]
    BY <1>7, TodoLeave DEF Leave, Goto, TodoInv
  <2>2. pc'[t] = "run" /\ \A u \in Thread : u # t => pc'[u] = pc[u]
    BY <1>1, <2>1
  <2> QED
    BY <2>1, <2>2 DEF LockInv, WaitInv, Leaving
<1>8. ASSUME NEW t \in Thread, EmitLine(t), pc[t] = "run",
             \A u \in Thread : u # t => todo'[u] = todo[u]
      PROVE  Goal
  <2>1. CASE async
    BY <1>4, <1>8, <2>1 DEF EmitLine, Goto
  <2>2. CASE ~async
    BY <1>4, <1>8, <2>2 DEF EmitLine, Goto
  <2> QED
    BY <2>1, <2>2
<1>9. ASSUME NEW t \in Thread, Log(t) PROVE Goal
  BY <1>8, <1>9 DEF Log
<1>10. ASSUME NEW t \in Thread, ThreadStep(t) PROVE Goal
  <2>0. ASSUME StepDone(t) PROVE \A u \in Thread : u # t => todo'[u] = todo[u]
    BY <1>1, <2>0 DEF StepDone
  <2>1. CASE LockRing(t)
    <3>1. /\ mu = Nobody /\ mu' = t /\ pc'[t] = "inside" /\ UNCHANGED <<io, todo, async>>
          /\ \A u \in Thread : u # t => pc'[u] = pc[u]
          /\ pc[t] = "queue"
      BY <1>1, <2>1 DEF LockRing, Goto
    <3> QED
      BY <1>1, <3>1 DEF LockInv, WaitInv, Leaving
  <2>2. CASE Enqueue(t)
    <3>1. /\ mu' = Nobody /\ pc[t] = "inside" /\ pc'[t] = "run" /\ UNCHANGED <<io, todo, async>>
          /\ \A u \in Thread : u # t => pc'[u] = pc[u]
      BY <1>1, <2>2 DEF Enqueue, Goto
    <3> QED
      BY <1>1, <3>1 DEF LockInv, WaitInv, Leaving
  <2>3. CASE LockSink(t)
    <3>1. /\ io = Nobody /\ io' = t /\ pc'[t] = "writing" /\ UNCHANGED <<mu, todo, async>>
          /\ \A u \in Thread : u # t => pc'[u] = pc[u]
          /\ pc[t] = "direct"
      BY <1>1, <2>3 DEF LockSink, Goto
    <3> QED
      BY <1>1, <3>1 DEF LockInv, WaitInv, Leaving
  <2>4. CASE WriteNow(t)
    <3>1. /\ io' = Nobody /\ pc[t] = "writing" /\ pc'[t] = "run" /\ UNCHANGED <<mu, todo, async>>
          /\ \A u \in Thread : u # t => pc'[u] = pc[u]
      BY <1>1, <2>4 DEF WriteNow, Goto
    <3> QED
      BY <1>1, <3>1 DEF LockInv, WaitInv, Leaving
  <2>5. CASE LogLine(t)
    BY <1>8, <2>0, <2>5 DEF LogLine, At
  <2>6. ASSUME At(t, "sync") \/ At(t, "stop") \/ At(t, "join") \/ At(t, "sweep") \/ At(t, "summary")
               \/ At(t, "dogStop") \/ At(t, "dogJoin"),
               \A u \in Thread : u # t => todo'[u] = todo[u], UNCHANGED <<pc, mu, io, async>>
        PROVE  Goal
    BY <1>2, <2>6 DEF LockInv, WaitInv, Leaving, At
  <2>7. CASE WriteSync(t) \/ StopWriter(t) \/ JoinWriter(t) \/ Sweep(t) \/ StopDog(t) \/ JoinDog(t)
    BY <2>0, <2>6, <2>7 DEF WriteSync, StopWriter, JoinWriter, Sweep, StopDog, JoinDog
  <2>8. CASE Summarize(t)
    BY <1>1, <2>6, <2>8 DEF Summarize
  <2>9. CASE Drain(t)
    <3>1. At(t, "drain") /\ async' = FALSE /\ UNCHANGED <<mu, io>>
      BY <2>9 DEF Drain
    <3>2. CASE StepDone(t) /\ UNCHANGED pc
      BY <1>2, <2>0, <3>1, <3>2 DEF LockInv, WaitInv, Leaving, At
    <3>3. CASE Goto(t, "drain") /\ UNCHANGED todo
      BY <1>4, <3>1, <3>3 DEF At, Goto
    <3> QED
      BY <2>9, <3>2, <3>3 DEF Drain
  <2>10. CASE AwaitIdle(t)
    <3>1. /\ pc[t] \in {"drain", "recheck"} /\ UNCHANGED <<mu, io, async>>
          /\ async = FALSE /\ Leaving(t) /\ Head(todo[t]) = "drain"
      BY <1>1, <2>10 DEF AwaitIdle, WaitInv
    <3>2. CASE StepDone(t) /\ Goto(t, "run")
      BY <1>4, <2>0, <3>1, <3>2 DEF Goto
    <3>3. CASE Goto(t, "idle") /\ UNCHANGED todo
      BY <1>4, <3>1, <3>3 DEF Goto
    <3> QED
      BY <2>10, <3>2, <3>3 DEF AwaitIdle
  <2>11. CASE Timeout(t)
    <3>1. pc[t] = "idle" /\ UNCHANGED <<mu, io, async>> /\ StepDone(t) /\ Goto(t, "run")
      BY <2>11 DEF Timeout
    <3> QED
      BY <1>4, <2>0, <3>1 DEF Goto
  <2>12. CASE End(t)
    BY <1>3, <2>12 DEF End
  <2> QED
    BY <1>10, <2>1, <2>2, <2>3, <2>4, <2>5, <2>7, <2>8, <2>9, <2>10, <2>11, <2>12 DEF ThreadStep
<1> QED
  BY <1>5, <1>6, <1>7, <1>9, <1>10, ThreadAssumption DEF Next
-----------------------------------------------------------------------------
(* Types *)

LEMMA TypeStep ==
  ASSUME LogInv, Next
  PROVE  TypeOK'
<1> USE DEF ringVars, lockVars, writerVars, threadVars, endVars, fileVars
<1>1. /\ ring \in Seq(Lines) /\ Len(ring) < Slots /\ dropped \in Nat /\ batch \in Seq(Lines)
      /\ note \in Nat /\ pc \in [Thread -> Pcs] /\ count \in [Thread -> Nat]
      /\ {stop, busy, async, last, watched, summary} \subseteq BOOLEAN
      /\ mu \in {Nobody} \cup Thread /\ io \in {Nobody} \cup Thread
      /\ wpc \in {"test", "asleep", "write", "done", "gone"}
      /\ enqueuing \subseteq Thread /\ ended \in {"no", "clean", "_Exit"}
  BY DEF LogInv, TypeOK, TodoInv
<1>2. TodoInv' /\ LockInv'
  BY TodoStep, LockStep DEF LogInv
<1>3. \A t \in Thread : (mu = t /\ ~Leaving(t) => pc[t] = "inside")'
                        /\ (io = t /\ ~Leaving(t) => pc[t] = "writing")'
  BY <1>2 DEF LockInv, Leaving
<1>4. count' \in [Thread -> 0..MaxLines + 2]
  <2>1. \A t \in Thread : count'[t] + LinesDue(todo'[t], summary') <= MaxLines + 2
    BY <1>2 DEF TodoInv, DueOK
  <2>2. \A q, s : LinesDue(q, s) \in 0..2
    BY DEF LinesDue
  <2>3. \A t \in Thread : count'[t] \in 0..MaxLines + 2
    <3> SUFFICES ASSUME NEW t \in Thread PROVE count'[t] \in 0..MaxLines + 2
      OBVIOUS
    <3>1. count'[t] \in Nat
      BY <1>2 DEF TodoInv
    <3> QED
      BY <2>1, <2>2, <3>1, MaxLinesAssumption
  <2>4. count' = [t \in Thread |-> count'[t]]
    BY <1>2 DEF TodoInv
  <2> QED
    BY <2>3, <2>4
<1>5. \A t \in Thread : Holding(t) => Line(t) \in Lines
  <2> SUFFICES ASSUME NEW t \in Thread, Holding(t) PROVE Line(t) \in Lines
    OBVIOUS
  <2>1. count[t] >= 1 /\ count[t] \in 0..MaxLines + 2
    BY DEF LogInv, TypeOK, FileInv
  <2> QED
    BY <2>1, MaxLinesAssumption DEF Line, Lines
<1> DEFINE Goal == /\ ring' \in Seq(Lines) /\ Len(ring') < Slots /\ dropped' \in Nat
                   /\ batch' \in Seq(Lines) /\ note' \in Nat /\ pc' \in [Thread -> Pcs]
                   /\ {stop', busy', async', last', watched', summary'} \subseteq BOOLEAN
                   /\ mu' \in {Nobody} \cup Thread /\ io' \in {Nobody} \cup Thread
                   /\ wpc' \in {"test", "asleep", "write", "done", "gone"}
                   /\ enqueuing' \subseteq Thread /\ ended' \in {"no", "clean", "_Exit"}
<1>6. <<>> \in Seq(Lines) /\ Len(<<>>) < Slots
  BY SlotsAssumption, ThreadAssumption, FS_CardinalityType, EmptySeq
<1>7. ASSUME WriterStep PROVE Goal
  <2>1. CASE Sleep
    BY <1>1, <2>1 DEF Sleep
  <2>2. CASE Take
    BY <1>1, <1>6, <2>2 DEF Take, TakeBatch
  <2>3. CASE WriteBatch
    BY <1>1, <1>6, <2>3 DEF WriteBatch
  <2>4. CASE BatchDone
    BY <1>1, <2>4 DEF BatchDone, NotifyIdle, Pcs
  <2> QED
    BY <1>7, <2>1, <2>2, <2>3, <2>4 DEF WriterStep
<1>8. ASSUME DogQuits PROVE Goal
  <2>1. pc' \in [Thread -> Pcs]
    BY <1>1, <1>8 DEF DogQuits, Goto, Pcs
  <2> QED
    BY <1>1, <1>8, <2>1 DEF DogQuits
<1>9. ASSUME NEW t \in Thread, NEW how \in Endings, Leave(t, how) PROVE Goal
  BY <1>1, <1>9 DEF Leave, Goto, Pcs
<1>10. ASSUME NEW t \in Thread, EmitLine(t) PROVE Goal
  BY <1>1, <1>10 DEF EmitLine, Goto, Pcs
<1>11. ASSUME NEW t \in Thread, ThreadStep(t) PROVE Goal
  <2>1. CASE Enqueue(t)
    <3>1. Line(t) \in Lines
      BY <1>5, <2>1 DEF Enqueue, Holding
    <3>2. Append(ring, Line(t)) \in Seq(Lines) /\ Len(Append(ring, Line(t))) = Len(ring) + 1 /\ Len(ring) \in Nat
      BY <1>1, <3>1, AppendProperties
    <3>3. ring' \in Seq(Lines) /\ Len(ring') < Slots /\ dropped' \in Nat
      <4>1. CASE Put(t)
        BY <1>1, <3>2, <4>1, SlotsAssumption DEF Put
      <4>2. CASE Drop(t)
        BY <1>1, <4>2 DEF Drop
      <4> QED
        BY <2>1, <4>1, <4>2 DEF Enqueue
    <3>4. wpc' \in {"test", "asleep", "write", "done", "gone"}
      BY <1>1, <2>1 DEF Enqueue, Put, Drop, NotifyWriter
    <3> QED
      BY <1>1, <2>1, <3>3, <3>4 DEF Enqueue, Goto, Pcs
  <2>2. CASE LockRing(t) \/ LockSink(t) \/ WriteNow(t)
    BY <1>1, <2>2 DEF LockRing, LockSink, WriteNow, Goto, Pcs
  <2>3. CASE LogLine(t)
    BY <1>10, <2>3 DEF LogLine
  <2>4. CASE WriteSync(t) \/ JoinWriter(t) \/ Summarize(t) \/ StopDog(t) \/ JoinDog(t) \/ End(t)
    BY <1>1, <2>4 DEF WriteSync, JoinWriter, Summarize, StopDog, JoinDog, End
  <2>5. CASE Drain(t)
    BY <1>1, <2>5 DEF Drain, Goto, Pcs
  <2>6. CASE AwaitIdle(t) \/ Timeout(t)
    BY <1>1, <2>6 DEF AwaitIdle, Timeout, NotifyWriter, Goto, Pcs
  <2>7. CASE StopWriter(t)
    BY <1>1, <2>7 DEF StopWriter, NotifyWriter
  <2>8. CASE Sweep(t)
    BY <1>1, <1>6, <2>8 DEF Sweep
  <2> QED
    BY <1>11, <2>1, <2>2, <2>3, <2>4, <2>5, <2>6, <2>7, <2>8 DEF ThreadStep
<1>12. Goal
  <2> HIDE DEF Goal
  <2> QED
    BY <1>7, <1>8, <1>9, <1>10, <1>11, ThreadAssumption DEF Next, Log
<1> QED
  BY <1>3, <1>4, <1>12 DEF TypeOK

-----------------------------------------------------------------------------
(* The file *)

\* Lines a thread has let go of stay so.
LEMMA LimitStep ==
  ASSUME TypeOK, FileInv, Next
  PROVE  \A t \in Thread : Limit(t) <= Limit(t)' /\ (Holding(t)' => count'[t] >= 1)
<1> DEFINE Goal == \A t \in Thread : Limit(t) <= Limit(t)' /\ (Holding(t)' => count'[t] >= 1)
<1> USE DEF ringVars, lockVars, writerVars, threadVars, endVars, fileVars
<1>1. /\ pc \in [Thread -> Pcs] /\ count \in [Thread -> Nat]
      /\ \A t \in Thread : Holding(t) => count[t] >= 1
  BY DEF TypeOK, FileInv
<1>2. ASSUME UNCHANGED count, \A t \in Thread : Holding(t)' => Holding(t) PROVE Goal
  BY <1>1, <1>2 DEF Limit
<1>3. ASSUME NEW t \in Thread, NEW where, UNCHANGED count, pc' = [pc EXCEPT ![t] = where],
             where \in {"inside", "writing"} => Holding(t),
             where \notin {"queue", "direct"}
      PROVE  Goal
  BY <1>1, <1>2, <1>3 DEF Holding
<1>4. ASSUME NEW t \in Thread, EmitLine(t), pc[t] = "run" PROVE Goal
  <2>1. /\ count' = [count EXCEPT ![t] = @ + 1]
        /\ \E where \in {"queue", "direct"} : pc' = [pc EXCEPT ![t] = where]
    BY <1>4 DEF EmitLine, Goto
  <2> QED
    BY <1>1, <1>4, <2>1 DEF Limit, Holding
<1>5. CASE WriterStep
  <2>1. UNCHANGED count /\ \A t \in Thread : Holding(t)' => Holding(t)
    BY <1>5 DEF WriterStep, Sleep, Take, WriteBatch, BatchDone, NotifyIdle, Holding
  <2> QED
    BY <1>2, <2>1
<1>6. CASE DogQuits
  <2>1. UNCHANGED count /\ pc' = [pc EXCEPT ![Dog] = "gone"]
    BY <1>6 DEF DogQuits, Goto
  <2> QED
    BY <1>3, <2>1, ThreadAssumption, ZenonT(30)
<1>7. ASSUME NEW t \in Thread, NEW how \in Endings, Leave(t, how) PROVE Goal
  BY <1>3, <1>7, ZenonT(30) DEF Leave, Goto
<1>8. ASSUME NEW t \in Thread, ThreadStep(t) PROVE Goal
  <2>1. CASE LockRing(t) \/ LockSink(t)
    BY <1>3, <2>1 DEF LockRing, LockSink, Goto, Holding
  <2>2. CASE Enqueue(t) \/ WriteNow(t) \/ Timeout(t)
    BY <1>3, <2>2, SMTT(30) DEF Enqueue, WriteNow, Timeout, Goto
  <2>3. CASE LogLine(t)
    BY <1>4, <2>3 DEF LogLine, At
  <2>4. CASE WriteSync(t) \/ StopWriter(t) \/ JoinWriter(t) \/ Sweep(t) \/ Summarize(t) \/ StopDog(t)
             \/ JoinDog(t) \/ End(t)
    <3>1. UNCHANGED <<pc, count>>
      BY <2>4 DEF WriteSync, StopWriter, JoinWriter, Sweep, Summarize, StopDog, JoinDog, End
    <3> QED
      BY <1>2, <3>1 DEF Holding
  <2>5. CASE Drain(t) \/ AwaitIdle(t)
    <3>1. UNCHANGED count
      BY <2>5 DEF Drain, AwaitIdle
    <3>2. CASE UNCHANGED pc
      BY <1>2, <3>1, <3>2 DEF Holding
    <3>3. CASE \E where \in {"drain", "run", "idle"} : pc' = [pc EXCEPT ![t] = where]
      BY <1>3, <3>1, <3>3
    <3> QED
      BY <2>5, <3>2, <3>3 DEF Drain, AwaitIdle, Goto
  <2> QED
    BY <1>8, <2>1, <2>2, <2>3, <2>4, <2>5 DEF ThreadStep
<1> QED
  BY <1>4, <1>5, <1>6, <1>7, <1>8, ThreadAssumption DEF Next, Log
\* Every line is written at most once.
Distinct(f) == \A i, j \in 1..Len(f) : f[i] = f[j] /\ f[i] \in Lines => i = j

LEMMA LinesAre ==
  /\ Lines \subseteq Entries
  /\ \A e \in Lines : e[1] \in Thread /\ e[1] # "dropped"
  /\ \A t \in Thread : <<t, 0>> \notin Lines /\ <<t, 0>> \in Entries /\ t # "dropped"
  /\ \A n \in Nat : <<"dropped", n>> \notin Lines /\ <<"dropped", n>> \in Entries
<1>1. "dropped" \notin Thread
  BY ThreadAssumption
<1>2. Lines \subseteq Entries
  BY DEF Entries
<1>3. \A e \in Lines : e[1] \in Thread /\ e[1] # "dropped"
  BY <1>1 DEF Lines
<1>4. \A t \in Thread : <<t, 0>> \notin Lines /\ <<t, 0>> \in Entries /\ t # "dropped"
  <2>1. \A t \in Thread : <<t, 0>> \notin Lines
    BY MaxLinesAssumption DEF Lines
  <2> QED
    BY <1>1, <2>1 DEF Entries
<1>5. \A n \in Nat : <<"dropped", n>> \notin Lines /\ <<"dropped", n>> \in Entries
  BY <1>1, <1>3 DEF Entries
<1> QED
  BY <1>2, <1>3, <1>4, <1>5

LEMMA NotesCounted == \A f \in Seq(Entries) : Noted(f) \in Nat
<1>1. \A e \in Entries : e[1] = "dropped" => e[2] \in Nat
  BY ThreadAssumption DEF Entries, Lines
<1> QED
  BY <1>1, NotedType

LEMMA InToSet ==
  ASSUME NEW E, NEW s \in Seq(E)
  PROVE  /\ ToSet(s) \subseteq E
         /\ \A x : x \in ToSet(s) <=> \E i \in 1..Len(s) : s[i] = x
<1>1. DOMAIN s = 1..Len(s) /\ \A i \in 1..Len(s) : s[i] \in E
  BY ElementOfSeq, LenProperties
<1> QED
  BY <1>1 DEF ToSet

\* An entry the ring had no part in.
LEMMA AddEntry ==
  ASSUME NEW f \in Seq(Entries), NEW e \in Entries, NEW S, S \subseteq Lines, e \notin S, Distinct(f),
         e \in Lines => \A i \in 1..Len(f) : f[i] # e
  PROVE  /\ Append(f, e) \in Seq(Entries) /\ Kept(Append(f, e), S) = Kept(f, S)
         /\ Distinct(Append(f, e))
         /\ \A i \in 1..Len(Append(f, e)) :
              Append(f, e)[i] = e \/ \E j \in 1..Len(f) : Append(f, e)[i] = f[j]
<1>1. Kept(Append(f, e), S) = Kept(f, S)
  BY KeptAppend
<1> DEFINE g == Append(f, e)
           n == Len(f)
<1>2. g \in Seq(Entries) /\ n \in Nat /\ Len(g) = n + 1 /\ g[n + 1] = e /\ \A i \in 1..n : g[i] = f[i]
  BY AppendProperties
<1> HIDE DEF g, n
<1>3. \A i, j \in 1..n : f[i] = f[j] /\ f[i] \in Lines => i = j
  BY DEF Distinct, n
<1>4. e \in Lines => \A i \in 1..n : f[i] # e
  BY DEF n
<1>5. Distinct(g)
  <2> SUFFICES ASSUME NEW i \in 1..n + 1, NEW j \in 1..n + 1, g[i] = g[j], g[i] \in Lines PROVE i = j
    BY <1>2 DEF Distinct
  <2>1. CASE i \in 1..n /\ j \in 1..n
    BY <1>2, <1>3, <2>1
  <2>2. CASE i = n + 1
    BY <1>2, <1>4, <2>2
  <2>3. CASE j = n + 1
    BY <1>2, <1>4, <2>3
  <2> QED
    BY <1>2, <2>1, <2>2, <2>3
<1>6. \A i \in 1..Len(g) : g[i] = e \/ \E j \in 1..n : g[i] = f[j]
  <2> SUFFICES ASSUME NEW i \in 1..n + 1 PROVE g[i] = e \/ \E j \in 1..n : g[i] = f[j]
    BY <1>2
  <2> QED
    BY <1>2
<1> QED
  BY <1>1, <1>2, <1>5, <1>6 DEF g, n

LEMMA KeptBatch ==
  ASSUME NEW f \in Seq(Entries), NEW S, NEW g \in Seq(S), S \subseteq Entries
  PROVE  Kept(f \o g, S) = Kept(f, S) \o g
  BY KeptConcat

\* What leaves the ring goes behind what left it before.
LEMMA Grow ==
  ASSUME NEW f \in Seq(Entries), NEW o \in Seq(Lines), NEW b \in Seq(Lines), NEW r \in Seq(Lines),
         \A i, j \in 1..Len(o) : o[i] = o[j] => i = j, Distinct(f),
         Kept(f, ToSet(o)) \o b \o r = o
  PROVE  /\ f \o b \in Seq(Entries) /\ Kept(f \o b, ToSet(o)) \o <<>> \o r = o
         /\ Noted(f \o b) = Noted(f) /\ Distinct(f \o b)
         /\ \A i \in 1..Len(f \o b) : \/ \E j \in 1..Len(f) : (f \o b)[i] = f[j]
                                      \/ \E j \in 1..Len(o) : (f \o b)[i] = o[j]
<1> DEFINE S == ToSet(o)
           k == Kept(f, S)
           c == k \o b
           g == f \o b
<1>1. S \subseteq Lines /\ S \subseteq Entries /\ \A x : x \in S <=> \E i \in 1..Len(o) : o[i] = x
  BY InToSet, LinesAre
<1> HIDE DEF S
<1>2. k \in Seq(S) /\ k \in Seq(Lines)
  BY <1>1, KeptType, SeqMonotonic
<1>3. PICK n \in Nat, m \in Nat, l \in Nat, h \in Nat : n = Len(f) /\ m = Len(k) /\ l = Len(b) /\ h = Len(r)
  BY <1>2, LenProperties
<1>4. b \in Seq(Entries)
  BY LinesAre, SeqMonotonic
<1>5. g \in Seq(Entries) /\ Len(g) = n + l /\ \A i \in 1..n : g[i] = f[i]
  BY <1>3, <1>4, ConcatProperties
<1>6. \A i \in 1..l : g[n + i] = b[i] /\ n + i \in 1..n + l
  <2>1. \A i \in 1..Len(f) + Len(b) : (f \o b)[i] = IF i <= Len(f) THEN f[i] ELSE b[i - Len(f)]
    BY <1>4, ConcatProperties
  <2>2. \A i \in 1..n + l : g[i] = IF i <= n THEN f[i] ELSE b[i - n]
    BY <1>3, <2>1
  <2> HIDE DEF g
  <2> SUFFICES ASSUME NEW i \in 1..l PROVE g[n + i] = b[i] /\ n + i \in 1..n + l
    OBVIOUS
  <2>3. n + i \in 1..n + l /\ ~(n + i <= n) /\ (n + i) - n = i
    BY <1>3
  <2> QED
    BY <2>2, <2>3
<1> HIDE DEF k
<1>7. c \in Seq(Lines) /\ Len(c) = m + l /\ \A i \in 1..m : c[i] = k[i]
  BY <1>2, <1>3, ConcatProperties
<1>8. \A i \in 1..l : c[m + i] = b[i] /\ m + i \in 1..m + l
  <2>1. \A i \in 1..Len(k) + Len(b) : (k \o b)[i] = IF i <= Len(k) THEN k[i] ELSE b[i - Len(k)]
    BY <1>2, ConcatProperties
  <2>2. \A i \in 1..m + l : c[i] = IF i <= m THEN k[i] ELSE b[i - m]
    BY <1>3, <2>1
  <2> HIDE DEF c
  <2> SUFFICES ASSUME NEW i \in 1..l PROVE c[m + i] = b[i] /\ m + i \in 1..m + l
    OBVIOUS
  <2>3. m + i \in 1..m + l /\ ~(m + i <= m) /\ (m + i) - m = i
    BY <1>3
  <2> QED
    BY <2>2, <2>3
<1>9. c \o r = o
  BY DEF S, k
<1> HIDE DEF c
<1>10. Len(o) = m + l + h /\ \A i \in 1..m + l : o[i] = c[i] /\ i \in 1..Len(o)
  <2>1. Len(c \o r) = Len(c) + Len(r) /\ \A i \in 1..Len(c) + Len(r) : i <= Len(c) => (c \o r)[i] = c[i]
    BY <1>7, ConcatProperties
  <2> QED
    BY <1>3, <1>7, <1>9, <2>1
<1>11. \A i \in 1..l : b[i] \in S /\ b[i] = o[m + i] /\ m + i \in 1..Len(o)
  <2> SUFFICES ASSUME NEW i \in 1..l PROVE b[i] \in S /\ b[i] = o[m + i] /\ m + i \in 1..Len(o)
    OBVIOUS
  <2>1. m + i \in 1..m + l /\ c[m + i] = b[i]
    BY <1>8
  <2>2. o[m + i] = b[i] /\ m + i \in 1..Len(o)
    BY <1>10, <2>1
  <2> QED
    BY <1>1, <2>2
<1>12. b \in Seq(S)
  <2>1. b = [i \in 1..Len(b) |-> b[i]]
    BY SeqDef
  <2>2. \A i \in 1..Len(b) : b[i] \in S
    BY <1>3, <1>11
  <2> QED
    BY <1>3, <2>1, <2>2, IsASeq
<1>13. Kept(g, S) = k \o b
  <2>1. Kept(f \o b, S) = Kept(f, S) \o b
    <3> QED
      BY <1>1, <1>12, KeptBatch
  <2> QED
    BY <2>1 DEF k
<1>14. Kept(g, S) \o <<>> \o r = o
  BY <1>7, <1>9, <1>13, ConcatEmptySeq DEF c
<1>15. Noted(g) = Noted(f)
  BY LinesAre, NotedConcat
<1>16. \A i \in 1..n : f[i] \in S => \E j \in 1..m : k[j] = f[i]
  <2>1. \A i \in 1..Len(f) : f[i] \in S => \E j \in 1..Len(Kept(f, S)) : Kept(f, S)[j] = f[i]
    BY KeptMembers, SMTT(30)
  <2> QED
    BY <1>3, <2>1 DEF k
<1>17. ASSUME NEW i \in 1..n, NEW j \in 1..l, f[i] = b[j] PROVE FALSE
  <2>1. PICK p \in 1..m : k[p] = f[i]
    BY <1>11, <1>16, <1>17
  <2>2. p \in 1..m + l /\ c[p] = k[p]
    BY <1>7, <2>1
  <2>3. p \in 1..Len(o) /\ o[p] = o[m + j] /\ m + j \in 1..Len(o)
    BY <1>10, <1>11, <1>17, <2>1, <2>2
  <2>4. p = m + j
    BY <2>3
  <2> QED
    BY <2>4
<1> HIDE DEF g
<1>18. \A i \in 1..n + l : i \in 1..n \/ \E j \in 1..l : i = n + j
  <2> SUFFICES ASSUME NEW i \in 1..n + l, i \notin 1..n PROVE \E j \in 1..l : i = n + j
    OBVIOUS
  <2>1. i - n \in 1..l /\ i = n + (i - n)
    OBVIOUS
  <2> QED
    BY <2>1
<1>19. ASSUME NEW i \in 1..n + l, NEW j \in 1..n + l, g[i] = g[j], g[i] \in Lines PROVE i = j
  <2>1. CASE i \in 1..n /\ j \in 1..n
    <3>1. f[i] = f[j] /\ f[i] \in Lines
      BY <1>5, <1>19, <2>1
    <3> QED
      BY <1>3, <2>1, <3>1 DEF Distinct
  <2>2. CASE i \in 1..n /\ j \notin 1..n
    <3>1. PICK v \in 1..l : j = n + v
      BY <1>18, <2>2
    <3>2. f[i] = b[v]
      BY <1>5, <1>6, <1>19, <2>2, <3>1
    <3> QED
      BY <1>17, <2>2, <3>2
  <2>3. CASE i \notin 1..n /\ j \in 1..n
    <3>1. PICK v \in 1..l : i = n + v
      BY <1>18, <2>3
    <3>2. f[j] = b[v]
      BY <1>5, <1>6, <1>19, <2>3, <3>1
    <3> QED
      BY <1>17, <2>3, <3>2
  <2>4. CASE i \notin 1..n /\ j \notin 1..n
    <3>1. PICK u \in 1..l, v \in 1..l : i = n + u /\ j = n + v
      BY <1>18, <2>4
    <3>2. b[u] = b[v]
      BY <1>6, <1>19, <3>1
    <3>3. o[m + u] = o[m + v] /\ m + u \in 1..Len(o) /\ m + v \in 1..Len(o)
      BY <1>11, <3>2
    <3>4. m + u = m + v
      BY <3>3
    <3> QED
      BY <3>1, <3>4
  <2> QED
    BY <2>1, <2>2, <2>3, <2>4
<1>20. Distinct(g)
  BY <1>5, <1>19 DEF Distinct
<1>21. ASSUME NEW i \in 1..n + l
       PROVE  (\E j \in 1..n : g[i] = f[j]) \/ (\E j \in 1..Len(o) : g[i] = o[j])
  <2>1. CASE i \in 1..n
    BY <1>5, <2>1
  <2>2. CASE i \notin 1..n
    <3>1. PICK v \in 1..l : i = n + v
      BY <1>18, <2>2
    <3>2. g[i] = o[m + v] /\ m + v \in 1..Len(o)
      BY <1>6, <1>11, <3>1
    <3> QED
      BY <3>2
  <2> QED
    BY <2>1, <2>2
<1> QED
  BY <1>3, <1>5, <1>14, <1>15, <1>20, <1>21 DEF g, S
\* A line a thread has let go of is let go of ever after.
LEMMA SpentStep ==
  ASSUME LogInv, Next
  PROVE  /\ \A e \in Lines : e[2] <= Limit(e[1]) => e[2] <= Limit(e[1])'
         /\ \A t \in Thread : Holding(t)' => count'[t] >= 1
<1>1. \A t \in Thread : Limit(t) <= Limit(t)' /\ (Holding(t)' => count'[t] >= 1)
  BY LimitStep DEF LogInv
<1>2. \A t \in Thread : Limit(t) \in Int /\ Limit(t)' \in Int
  <2>1. count \in [Thread -> 0..MaxLines + 2] /\ count' \in [Thread -> 0..MaxLines + 2]
    BY TypeStep DEF TypeOK, LogInv
  <2> QED
    BY <2>1, MaxLinesAssumption DEF Limit
<1>3. \A e \in Lines : e[1] \in Thread /\ e[2] \in Int
  BY MaxLinesAssumption DEF Lines
<1> QED
  BY <1>1, <1>2, <1>3

\* Steps that move no line.
LEMMA QuietFile ==
  ASSUME LogInv, Next, UNCHANGED <<file, order, lost, swept, ring, batch, dropped, note>>
  PROVE  FileInv'
<1>1. /\ \A e \in Lines : e[2] <= Limit(e[1]) => e[2] <= Limit(e[1])'
      /\ \A t \in Thread : Holding(t)' => count'[t] >= 1
  BY SpentStep
<1>2. \A i \in 1..Len(order) : order[i] \in Lines
  BY ElementOfSeq DEF LogInv, FileInv
<1> QED
  BY <1>1, <1>2 DEF LogInv, FileInv, Spent

\* The line a thread is about to queue or to write is nowhere yet.
LEMMA HeldLine ==
  ASSUME LogInv, NEW t \in Thread, Holding(t)
  PROVE  /\ Line(t) \in Lines /\ Line(t) \notin lost /\ Line(t) \notin ToSet(order)
         /\ \A i \in 1..Len(file) : file[i] # Line(t)
<1>1. count[t] >= 1 /\ count[t] \in 0..MaxLines + 2 /\ Limit(t) = count[t] - 1
  BY DEF LogInv, TypeOK, FileInv, Limit
<1>2. Line(t) \in Lines
  BY <1>1, MaxLinesAssumption DEF Line, Lines
<1>3. ~ Spent(Line(t))
  BY <1>1, MaxLinesAssumption DEF Spent, Line
<1>4. Line(t) \notin ToSet(order)
  BY <1>3, InToSet DEF LogInv, FileInv
<1> QED
  BY <1>2, <1>3, <1>4 DEF LogInv, FileInv

LEMMA FileEnqueue ==
  ASSUME LogInv, Next, NEW t \in Thread, Enqueue(t)
  PROVE  FileInv'
<1>0. PICK e : e = Line(t)
  OBVIOUS
<1>1. /\ \A x \in Lines : x[2] <= Limit(x[1]) => x[2] <= Limit(x[1])'
      /\ \A u \in Thread : Holding(u)' => count'[u] >= 1
  BY SpentStep
<1>2. /\ pc[t] = "inside" /\ pc' = [pc EXCEPT ![t] = "run"]
      /\ UNCHANGED <<file, swept, batch, note, count>>
  BY DEF Enqueue, Goto
<1>3. /\ e \in Lines /\ e \notin lost /\ e \notin ToSet(order)
      /\ \A i \in 1..Len(file) : file[i] # e
  BY <1>0, <1>2, HeldLine DEF Holding
<1>4. e[2] <= Limit(e[1])'
  BY <1>0, <1>2, MaxLinesAssumption DEF Line, Limit, Holding, LogInv, TypeOK
<1>5. /\ file \in Seq(Entries) /\ order \in Seq(Lines) /\ ring \in Seq(Lines) /\ batch \in Seq(Lines)
      /\ lost \subseteq Lines /\ IsFiniteSet(lost)
  BY DEF LogInv, FileInv, TypeOK
<1>6. \A i \in 1..Len(order) : order[i] \in Lines
  BY <1>5, ElementOfSeq
<1>7. \A i \in 1..Len(file) : file'[i] \in Lines => Spent(file[i])'
  BY <1>1, <1>2 DEF LogInv, FileInv, Spent
<1>8. \A i, j \in 1..Len(file) : file[i] = file[j] /\ file[i] \in Lines => i = j
  BY DEF LogInv, FileInv
<1>9. CASE Put(t)
  <2>1. ring' = Append(ring, e) /\ order' = Append(order, e) /\ UNCHANGED <<dropped, lost>>
    BY <1>0, <1>9 DEF Put
  <2>2. /\ order' \in Seq(Lines) /\ ring' \in Seq(Lines) /\ Len(order') = Len(order) + 1
        /\ Len(ring') = Len(ring) + 1 /\ Len(order) \in Nat /\ Len(ring) \in Nat
        /\ order'[Len(order) + 1] = e /\ \A i \in 1..Len(order) : order'[i] = order[i]
    BY <1>3, <1>5, <2>1, AppendProperties
  <2>3. \A i \in 1..Len(order) : order[i] # e
    BY <1>3, <1>5, InToSet
  <2>4. \A i \in 1..Len(order') : i \in 1..Len(order) \/ i = Len(order) + 1
    BY <2>2
  <2>5. \A i \in 1..Len(order') : Spent(order[i])'
    <3> SUFFICES ASSUME NEW i \in 1..Len(order') PROVE Spent(order[i])'
      OBVIOUS
    <3>1. CASE i \in 1..Len(order)
      BY <1>1, <1>6, <2>2, <3>1 DEF LogInv, FileInv, Spent
    <3>2. CASE i = Len(order) + 1
      BY <1>4, <2>2, <3>2 DEF Spent
    <3> QED
      BY <2>4, <3>1, <3>2
  <2>6. \A i, j \in 1..Len(order') : order'[i] = order'[j] => i = j
    <3>1. \A i, j \in 1..Len(order) : order[i] = order[j] => i = j
      BY <1>5, LenProperties DEF LogInv, FileInv, IsInjective
    <3> QED
      BY <2>2, <2>3, <2>4, <3>1
  <2>7. Kept(file, ToSet(order')) = Kept(file, ToSet(order))
    <3>1. \A x : x \in ToSet(order') <=> x \in ToSet(order) \/ x = e
      <4>1. \A x : x \in ToSet(order') <=> \E i \in 1..Len(order') : order'[i] = x
        BY <2>2, InToSet
      <4>2. \A x : x \in ToSet(order) <=> \E i \in 1..Len(order) : order[i] = x
        BY <1>5, InToSet
      <4> QED
        BY <2>2, <2>4, <4>1, <4>2
    <3>2. \A i \in 1..Len(file) : file[i] \in ToSet(order') <=> file[i] \in ToSet(order)
      BY <1>3, <3>1
    <3> QED
      BY <1>5, <3>2, KeptSame
  <2>8. Kept(file', ToSet(order')) \o batch' \o ring' = order'
    <3> DEFINE k == Kept(file, ToSet(order))
               h == k \o batch
    <3>1. k \in Seq(Lines)
      BY <1>5, InToSet, KeptType, SeqMonotonic
    <3>2. h \in Seq(Lines)
      <4> HIDE DEF k
      <4> QED
        BY <1>5, <3>1, ConcatProperties
    <3>3. h \o ring = order
      BY DEF LogInv, FileInv
    <3> HIDE DEF h
    <3>4. h \o Append(ring, e) = Append(h \o ring, e)
      BY <1>3, <1>5, <3>2, AppendConcat
    <3> QED
      BY <1>2, <2>1, <2>7, <3>3, <3>4 DEF h
  <2>9. swept' + Len(ring') <= Len(order') /\ swept' \in Nat
    BY <1>2, <2>2 DEF LogInv, FileInv
  <2>10. Cardinality(lost') = dropped' + note' + Noted(file')
    BY <1>2, <2>1 DEF LogInv, FileInv
  <2>11. \A x \in lost' : x[2] <= Limit(x[1])'
    BY <1>1, <1>5, <2>1 DEF LogInv, FileInv, Spent
  <2>12. IsInjective(order')
    BY <2>2, <2>6 DEF IsInjective
  <2>13. /\ file' \in Seq(Entries) /\ lost' \subseteq Lines /\ IsFiniteSet(lost')
         /\ \A i \in 1..Len(file') : file'[i] \in Lines => Spent(file[i])'
         /\ \A i, j \in 1..Len(file') : file'[i] = file'[j] /\ file'[i] \in Lines => i = j
    BY <1>2, <1>5, <1>7, <1>8, <2>1
  <2> QED
    BY <1>1, <2>2, <2>5, <2>8, <2>9, <2>10, <2>11, <2>12, <2>13 DEF FileInv, Spent
<1>10. CASE Drop(t)
  <2>1. dropped' = dropped + 1 /\ lost' = lost \cup {e} /\ UNCHANGED <<ring, order>>
    BY <1>0, <1>10 DEF Drop
  <2>2. IsFiniteSet(lost') /\ Cardinality(lost') = Cardinality(lost) + 1 /\ lost' \subseteq Lines
    BY <1>3, <1>5, <2>1, FS_AddElement
  <2>3. Cardinality(lost') = dropped' + note' + Noted(file')
    <3>1. Cardinality(lost) = dropped + note + Noted(file) /\ dropped \in Nat /\ note \in Nat
          /\ Cardinality(lost) \in Nat
      BY <1>5, FS_CardinalityType DEF LogInv, FileInv, TypeOK
    <3>2. Noted(file) = Noted(file')
      BY <1>2
    <3>3. Noted(file) \in Int
      BY NotesCounted, <1>5
    <3> QED
      BY <1>2, <2>1, <2>2, <3>1, <3>2, <3>3
  <2>4. \A x \in lost' : x[2] <= Limit(x[1])'
    <3>1. \A x \in lost : x \in Lines /\ x[2] <= Limit(x[1])
      BY <1>5 DEF LogInv, FileInv, Spent
    <3>2. \A x \in lost : x[2] <= Limit(x[1])'
      BY <1>1, <3>1
    <3> QED
      BY <1>4, <2>1, <3>2
  <2> QED
    BY <1>1, <1>2, <1>5, <1>6, <1>7, <1>8, <2>1, <2>2, <2>3, <2>4 DEF FileInv, LogInv, Spent
<1> QED
  BY <1>9, <1>10 DEF Enqueue
\* A file that grew by lines let go of, beside an unchanged order.
LEMMA FileGrown ==
  ASSUME LogInv, Next, UNCHANGED <<order, lost>>, file' \in Seq(Entries), Distinct(file'),
         \A i \in 1..Len(file') : file'[i] \in Lines =>
           \/ \E j \in 1..Len(file) : file'[i] = file[j]
           \/ \E j \in 1..Len(order) : file'[i] = order[j]
           \/ Spent(file[i])',
         Kept(file', ToSet(order)) \o batch' \o ring' = order,
         dropped' + note' + Noted(file') = dropped + note + Noted(file),
         swept' \in Nat, swept' + Len(ring') <= Len(order)
  PROVE  FileInv'
<1>1. /\ \A e \in Lines : e[2] <= Limit(e[1]) => e[2] <= Limit(e[1])'
      /\ \A u \in Thread : Holding(u)' => count'[u] >= 1
  BY SpentStep
<1>2. \A i \in 1..Len(order) : order[i] \in Lines
  BY ElementOfSeq DEF LogInv, FileInv
<1>3. \A i \in 1..Len(file') : file'[i] \in Lines => Spent(file[i])'
  <2> SUFFICES ASSUME NEW i \in 1..Len(file'), file'[i] \in Lines PROVE Spent(file[i])'
    OBVIOUS
  <2>1. PICK e : e = file'[i]
    OBVIOUS
  <2>2. CASE e[2] <= Limit(e[1])
    BY <1>1, <2>1, <2>2 DEF Spent
  <2>3. CASE Spent(file[i])'
    BY <2>3
  <2>4. CASE \E j \in 1..Len(file) : e = file[j]
    <3>1. e[2] <= Limit(e[1])
      BY <2>1, <2>4 DEF LogInv, FileInv, Spent
    <3> QED
      BY <2>2, <3>1
  <2>5. CASE \E j \in 1..Len(order) : e = order[j]
    <3>1. e[2] <= Limit(e[1])
      BY <2>5 DEF LogInv, FileInv, Spent
    <3> QED
      BY <2>2, <3>1
  <2> QED
    BY <2>1, <2>3, <2>4, <2>5
<1>4. \A i \in 1..Len(order) : Spent(order[i])'
  BY <1>1, <1>2 DEF LogInv, FileInv, Spent
<1>5. \A e \in lost : e[2] <= Limit(e[1])'
  BY <1>1 DEF LogInv, FileInv, Spent
<1> QED
  BY <1>1, <1>3, <1>4, <1>5 DEF LogInv, FileInv, Spent, Distinct

LEMMA FileWriteNow ==
  ASSUME LogInv, Next, NEW t \in Thread, WriteNow(t)
  PROVE  FileInv'
<1>0. PICK e : e = Line(t)
  OBVIOUS
<1>1. /\ pc[t] = "writing" /\ pc' = [pc EXCEPT ![t] = "run"] /\ file' = Append(file, e)
      /\ UNCHANGED <<ring, dropped, batch, note, order, lost, swept, count>>
  BY <1>0 DEF WriteNow, Goto, ringVars, writerVars
<1>2. /\ e \in Lines /\ e \notin lost /\ e \notin ToSet(order)
      /\ \A i \in 1..Len(file) : file[i] # e
  BY <1>0, <1>1, HeldLine DEF Holding
<1>3. e[2] <= Limit(e[1])'
  BY <1>0, <1>1, MaxLinesAssumption DEF Line, Limit, Holding, LogInv, TypeOK
<1>4. ToSet(order) \subseteq Lines /\ file \in Seq(Entries) /\ Distinct(file) /\ e \in Entries
  BY <1>2, InToSet, LinesAre DEF LogInv, FileInv, Distinct
<1>5. /\ file' \in Seq(Entries) /\ Kept(file', ToSet(order)) = Kept(file, ToSet(order))
      /\ Distinct(file')
      /\ \A i \in 1..Len(file') : file'[i] = e \/ \E j \in 1..Len(file) : file'[i] = file[j]
  <2>1. /\ Append(file, e) \in Seq(Entries)
        /\ Kept(Append(file, e), ToSet(order)) = Kept(file, ToSet(order))
        /\ Distinct(Append(file, e))
        /\ \A i \in 1..Len(Append(file, e)) :
             Append(file, e)[i] = e \/ \E j \in 1..Len(file) : Append(file, e)[i] = file[j]
    BY <1>2, <1>4, AddEntry
  <2> QED
    BY <1>1, <2>1 DEF Distinct
<1>6. Noted(file') = Noted(file)
  BY <1>1, <1>2, <1>4, LinesAre, NotedAppend
<1>7. \A i \in 1..Len(file') : file'[i] \in Lines =>
        \/ \E j \in 1..Len(file) : file'[i] = file[j]
        \/ Spent(file[i])'
  BY <1>3, <1>5 DEF Spent
<1>8. Kept(file', ToSet(order)) \o batch' \o ring' = order
  BY <1>1, <1>5 DEF LogInv, FileInv
<1>9. swept' \in Nat /\ swept' + Len(ring') <= Len(order)
  BY <1>1 DEF LogInv, FileInv
<1> QED
  BY <1>1, <1>5, <1>6, <1>7, <1>8, <1>9, FileGrown DEF Distinct

LEMMA FileWriteSync ==
  ASSUME LogInv, Next, NEW t \in Thread, WriteSync(t)
  PROVE  FileInv'
<1> DEFINE e == <<t, 0>>
<1>1. /\ file' = Append(file, e)
      /\ UNCHANGED <<ring, dropped, batch, note, order, lost, swept>>
  BY DEF WriteSync, ringVars, writerVars
<1>2. e \notin Lines /\ e \in Entries /\ e[1] # "dropped"
  BY LinesAre
<1> HIDE DEF e
<1>4. ToSet(order) \subseteq Lines /\ file \in Seq(Entries) /\ Distinct(file)
  BY InToSet DEF LogInv, FileInv, Distinct
<1>5. /\ file' \in Seq(Entries) /\ Kept(file', ToSet(order)) = Kept(file, ToSet(order))
      /\ Distinct(file')
      /\ \A i \in 1..Len(file') : file'[i] = e \/ \E j \in 1..Len(file) : file'[i] = file[j]
  <2>1. /\ Append(file, e) \in Seq(Entries)
        /\ Kept(Append(file, e), ToSet(order)) = Kept(file, ToSet(order))
        /\ Distinct(Append(file, e))
        /\ \A i \in 1..Len(Append(file, e)) :
             Append(file, e)[i] = e \/ \E j \in 1..Len(file) : Append(file, e)[i] = file[j]
    BY <1>2, <1>4, AddEntry
  <2> QED
    BY <1>1, <2>1 DEF Distinct
<1>6. Noted(file') = Noted(file)
  BY <1>1, <1>2, <1>4, NotedAppend
<1>7. \A i \in 1..Len(file') : file'[i] \in Lines => \E j \in 1..Len(file) : file'[i] = file[j]
  BY <1>2, <1>5
<1>8. Kept(file', ToSet(order)) \o batch' \o ring' = order
  BY <1>1, <1>5 DEF LogInv, FileInv
<1>9. swept' \in Nat /\ swept' + Len(ring') <= Len(order)
  BY <1>1 DEF LogInv, FileInv
<1> QED
  BY <1>1, <1>5, <1>6, <1>7, <1>8, <1>9, FileGrown DEF Distinct

LEMMA FileTake ==
  ASSUME LogInv, Next, Take
  PROVE  FileInv'
<1>1. /\ batch' = ring /\ ring' = <<>> /\ note' = dropped /\ dropped' = 0
      /\ UNCHANGED <<file, order, lost, swept>>
      /\ batch = <<>> /\ note = 0
  BY DEF Take, TakeBatch, fileVars, LogInv, LastInv
<1>2. /\ file \in Seq(Entries) /\ order \in Seq(Lines) /\ ring \in Seq(Lines) /\ dropped \in Nat
  BY DEF LogInv, FileInv, TypeOK
<1>3. Distinct(file')
  BY <1>1 DEF LogInv, FileInv, Distinct
<1>4. Kept(file', ToSet(order)) \o batch' \o ring' = order
  <2> DEFINE k == Kept(file, ToSet(order))
  <2>1. k \in Seq(Lines)
    BY <1>2, InToSet, KeptType, SeqMonotonic
  <2>2. k \o batch \o ring = order
    BY DEF LogInv, FileInv
  <2>3. Kept(file', ToSet(order)) = k
    BY <1>1
  <2> HIDE DEF k
  <2>4. k \o <<>> = k /\ k \o ring \in Seq(Lines)
    BY <1>2, <2>1, ConcatEmptySeq, ConcatProperties
  <2>5. (k \o ring) \o <<>> = k \o ring
    BY <2>4, ConcatEmptySeq
  <2> QED
    BY <1>1, <2>2, <2>3, <2>4, <2>5
<1>5. swept' \in Nat /\ swept' + Len(ring') <= Len(order)
  <2>1. swept \in Nat /\ swept + Len(ring) <= Len(order) /\ Len(ring) \in Nat /\ Len(order) \in Nat
    BY <1>2, LenProperties DEF LogInv, FileInv
  <2> QED
    BY <1>1, <2>1
<1>6. dropped' + note' + Noted(file') = dropped + note + Noted(file)
  BY <1>1, <1>2
<1>7. \A i \in 1..Len(file') : file'[i] \in Lines => \E j \in 1..Len(file) : file'[i] = file[j]
  BY <1>1
<1> QED
  BY <1>1, <1>2, <1>3, <1>4, <1>5, <1>6, <1>7, FileGrown

\* The lines f received of a batch b, and what is then behind them in the order.
LEMMA FileBatch ==
  ASSUME LogInv, Next, UNCHANGED <<order, lost>>, NEW f \in Seq(Entries), Distinct(f),
         NEW b \in Seq(Lines), file' = f \o b,
         \A i \in 1..Len(f) : f[i] \in Lines => \E j \in 1..Len(file) : f[i] = file[j],
         ring' \in Seq(Lines), Kept(f, ToSet(order)) \o b \o ring' = order, batch' = <<>>,
         dropped' + note' + Noted(f) = dropped + note + Noted(file),
         swept' \in Nat, swept' + Len(ring') <= Len(order)
  PROVE  FileInv'
<1>1. order \in Seq(Lines) /\ \A i, j \in 1..Len(order) : order[i] = order[j] => i = j
  BY LenProperties, ZenonT(30) DEF LogInv, FileInv, IsInjective
<1>2. PICK r \in Seq(Lines) : r = ring' /\ Kept(f, ToSet(order)) \o b \o r = order
  OBVIOUS
<1>3. ASSUME NEW o \in Seq(Lines), o = order
      PROVE  /\ f \o b \in Seq(Entries) /\ Kept(f \o b, ToSet(o)) \o <<>> \o r = o
             /\ Noted(f \o b) = Noted(f) /\ Distinct(f \o b)
             /\ \A i \in 1..Len(f \o b) : \/ \E j \in 1..Len(f) : (f \o b)[i] = f[j]
                                          \/ \E j \in 1..Len(o) : (f \o b)[i] = o[j]
  <2>1. \A i, j \in 1..Len(o) : o[i] = o[j] => i = j
    BY <1>1, <1>3
  <2>2. Kept(f, ToSet(o)) \o b \o r = o
    BY <1>2, <1>3
  <2> HIDE <1>3
  <2> QED
    BY <2>1, <2>2, Grow, ZenonT(30)
<1>4. /\ file' \in Seq(Entries) /\ Kept(file', ToSet(order)) \o batch' \o ring' = order
      /\ Noted(file') = Noted(f) /\ Distinct(file')
  BY <1>1, <1>2, <1>3 DEF Distinct
<1>5. \A i \in 1..Len(file') : file'[i] \in Lines =>
        \/ \E j \in 1..Len(file) : file'[i] = file[j]
        \/ \E j \in 1..Len(order) : file'[i] = order[j]
  <2> SUFFICES ASSUME NEW i \in 1..Len(file'), file'[i] \in Lines
               PROVE  \/ \E j \in 1..Len(file) : file'[i] = file[j]
                      \/ \E j \in 1..Len(order) : file'[i] = order[j]
    OBVIOUS
  <2>1. \/ \E j \in 1..Len(f) : file'[i] = f[j]
        \/ \E j \in 1..Len(order) : file'[i] = order[j]
    BY <1>1, <1>3
  <2> QED
    BY <2>1
<1> QED
  BY <1>4, <1>5, FileGrown
LEMMA FileWriteBatch ==
  ASSUME LogInv, Next, WriteBatch
  PROVE  FileInv'
<1> DEFINE e == <<"dropped", note>>
<1>0. PICK f : f = file \o Note(note)
  OBVIOUS
<1>1. /\ file' = f \o batch /\ batch' = <<>> /\ note' = 0
      /\ UNCHANGED <<ring, dropped, order, lost, swept>>
  BY <1>0 DEF WriteBatch, ringVars
<1>2. /\ file \in Seq(Entries) /\ order \in Seq(Lines) /\ ring \in Seq(Lines) /\ batch \in Seq(Lines)
      /\ dropped \in Nat /\ note \in Nat /\ Distinct(file) /\ ToSet(order) \subseteq Lines
  BY InToSet DEF LogInv, FileInv, TypeOK, Distinct
<1>3. e \in Entries /\ e \notin Lines /\ e[1] = "dropped" /\ e[2] = note
  BY <1>2, LinesAre
<1> HIDE DEF e
<1>4. /\ f \in Seq(Entries) /\ Distinct(f) /\ Kept(f, ToSet(order)) = Kept(file, ToSet(order))
      /\ Noted(f) = Noted(file) + note
      /\ \A i \in 1..Len(f) : f[i] \in Lines => \E j \in 1..Len(file) : f[i] = file[j]
  <2>0. Noted(file) \in Nat
    BY <1>2, NotesCounted
  <2>1. CASE note = 0
    <3>1. f = file
      BY <1>0, <1>2, <2>1, ConcatEmptySeq DEF Note
    <3> QED
      BY <1>2, <2>0, <2>1, <3>1
  <2>2. CASE note # 0
    <3>1. f = Append(file, e)
      BY <1>0, <1>2, <1>3, <2>2, AppendIsConcat DEF Note, e
    <3>2. /\ Append(file, e) \in Seq(Entries) /\ Distinct(Append(file, e))
          /\ Kept(Append(file, e), ToSet(order)) = Kept(file, ToSet(order))
          /\ \A i \in 1..Len(Append(file, e)) :
               Append(file, e)[i] = e \/ \E j \in 1..Len(file) : Append(file, e)[i] = file[j]
      BY <1>2, <1>3, AddEntry
    <3>3. Noted(Append(file, e)) = Noted(file) + note
      BY <1>2, <1>3, NotedAppend
    <3> QED
      BY <1>3, <3>1, <3>2, <3>3
  <2> QED
    BY <2>1, <2>2
<1>5. Kept(f, ToSet(order)) \o batch \o ring' = order
  BY <1>1, <1>4 DEF LogInv, FileInv
<1>6. dropped' + note' + Noted(f) = dropped + note + Noted(file)
  BY <1>1, <1>2, <1>4, NotesCounted
<1>7. swept' \in Nat /\ swept' + Len(ring') <= Len(order)
  BY <1>1 DEF LogInv, FileInv
<1> QED
  BY <1>1, <1>2, <1>4, <1>5, <1>6, <1>7, FileBatch

\* Only behind the writer's end, so that nothing is between the file and the ring.
LEMMA FileSweep ==
  ASSUME LogInv, Next, NEW t \in Thread, Sweep(t)
  PROVE  FileInv'
<1>1. /\ file' = file \o ring /\ ring' = <<>> /\ swept' = Len(order) /\ Head(todo[t]) = "sweep"
      /\ todo[t] # <<>> /\ UNCHANGED <<dropped, note, batch, order, lost>>
  BY DEF Sweep, writerVars, At, Leaving
<1>2. wpc = "gone"
  <2>1. PlanOK(todo[t], async, wpc) /\ todo[t] \in Seq(StepName)
    BY DEF LogInv, TodoInv
  <2>2. todo[t][1] = "sweep" /\ 1 \in 1..Len(todo[t])
    BY <1>1, <2>1, EmptySeq
  <2> QED
    BY <2>1, <2>2 DEF PlanOK
<1>3. batch = <<>>
  BY <1>2 DEF LogInv, LastInv
<1>4. /\ file \in Seq(Entries) /\ order \in Seq(Lines) /\ ring \in Seq(Lines)
      /\ Distinct(file) /\ Len(order) \in Nat
  BY LenProperties DEF LogInv, FileInv, TypeOK, Distinct
<1>5. Kept(file, ToSet(order)) \o ring \o <<>> = order
  <2> DEFINE k == Kept(file, ToSet(order))
  <2>1. k \in Seq(Lines)
    BY <1>4, InToSet, KeptType, SeqMonotonic
  <2>2. k \o batch \o ring = order
    BY DEF LogInv, FileInv
  <2> HIDE DEF k
  <2>3. k \o <<>> = k /\ k \o ring \in Seq(Lines)
    BY <1>4, <2>1, ConcatEmptySeq, ConcatProperties
  <2>4. (k \o ring) \o <<>> = k \o ring
    BY <2>3, ConcatEmptySeq
  <2>5. k \o ring \o <<>> = order
    BY <1>3, <2>2, <2>3, <2>4
  <2> QED
    BY <2>5 DEF k
<1>6. swept' \in Nat /\ swept' + Len(ring') <= Len(order) /\ ring' \in Seq(Lines)
  BY <1>1, <1>4, EmptySeq
<1>7. dropped' + note' + Noted(file) = dropped + note + Noted(file)
  BY <1>1
<1>8. \A i \in 1..Len(file) : file[i] \in Lines => \E j \in 1..Len(file) : file[i] = file[j]
  OBVIOUS
<1>9. Kept(file, ToSet(order)) \o ring \o ring' = order /\ batch' = <<>>
  BY <1>1, <1>3, <1>5
<1> QED
  BY <1>1, <1>4, <1>6, <1>7, <1>8, <1>9, FileBatch

LEMMA FileStep ==
  ASSUME LogInv, Next
  PROVE  FileInv'
<1> USE DEF ringVars, lockVars, writerVars, threadVars, endVars, fileVars
<1>1. CASE WriterStep
  <2>1. CASE Sleep \/ BatchDone
    BY <2>1, QuietFile DEF Sleep, BatchDone
  <2> QED
    BY <1>1, <2>1, FileTake, FileWriteBatch DEF WriterStep
<1>2. CASE DogQuits
  BY <1>2, QuietFile DEF DogQuits
<1>3. ASSUME NEW t \in Thread, NEW how \in Endings, Leave(t, how) PROVE FileInv'
  BY <1>3, QuietFile DEF Leave
<1>4. ASSUME NEW t \in Thread, EmitLine(t) PROVE FileInv'
  BY <1>4, QuietFile DEF EmitLine
<1>5. ASSUME NEW t \in Thread, ThreadStep(t) PROVE FileInv'
  <2>1. CASE LockRing(t) \/ LockSink(t) \/ Drain(t) \/ AwaitIdle(t) \/ Timeout(t)
    BY <2>1, QuietFile DEF LockRing, LockSink, Drain, AwaitIdle, Timeout
  <2>2. CASE StopWriter(t) \/ JoinWriter(t) \/ Summarize(t) \/ StopDog(t) \/ JoinDog(t) \/ End(t)
    BY <2>2, QuietFile DEF StopWriter, JoinWriter, Summarize, StopDog, JoinDog, End
  <2> QED
    BY <1>4, <1>5, <2>1, <2>2, FileEnqueue, FileWriteNow, FileWriteSync, FileSweep
       DEF ThreadStep, LogLine
<1> QED
  BY <1>1, <1>2, <1>3, <1>4, <1>5, ThreadAssumption DEF Next, Log
-----------------------------------------------------------------------------
(* The end *)

LEMMA NoStopBeforeSync ==
  ASSUME TypeOK, TodoInv, NEW t \in Thread
  PROVE  /\ At(t, "stop") => async = FALSE
         /\ At(t, "sweep") \/ At(t, "end") => wpc = "gone"
<1>1. PlanOK(todo[t], async, wpc) /\ todo[t] \in Seq(StepName)
  BY DEF TodoInv
<1>2. ASSUME Leaving(t) PROVE 1 \in 1..Len(todo[t]) /\ Head(todo[t]) = todo[t][1]
  BY <1>1, <1>2, EmptySeq DEF Leaving
<1> QED
  BY <1>1, <1>2 DEF At, PlanOK

\* Behind the writer's last batch the ring takes one line of each thread, and
\* has a slot for it.
LEMMA RoomAtTheEnd ==
  ASSUME LogInv, last, NEW t \in Thread, pc[t] = "inside"
  PROVE  Len(ring) < Slots - 1
<1> DEFINE n == Len(ring)
           g == [i \in 1..n |-> ring[i][1]]
           S == Thread \ {t}
<1>1. ring \in Seq(Lines) /\ n \in Nat
  BY LenProperties DEF LogInv, TypeOK
<1>2. \A i \in 1..n : ring[i][1] \in S
  <2>1. \A i \in 1..n : ring[i] \in Lines
    BY <1>1, ElementOfSeq
  <2>2. \A i \in 1..n : ring[i][1] \in Thread
    BY <2>1, LinesAre
  <2>3. \A i \in 1..n : pc[ring[i][1]] # "inside"
    BY DEF LogInv, LastInv
  <2> QED
    BY <2>2, <2>3
<1>3. IsFiniteSet(S) /\ Cardinality(S) = Cardinality(Thread) - 1
  BY ThreadAssumption, FS_RemoveElement
<1>4. IsFiniteSet(1..n) /\ Cardinality(1..n) = n
  <2>1. IsFiniteSet(1..n) /\ Cardinality(1..n) = IF 1 > n THEN 0 ELSE n - 1 + 1
    BY <1>1, FS_Interval, SMTT(30)
  <2> QED
    BY <1>1, <2>1
<1>5. \A i, j \in 1..n : g[i] = g[j] => i = j
  BY DEF LogInv, LastInv
<1>6. n <= Cardinality(S)
  <2> SUFFICES ASSUME n > Cardinality(S) PROVE FALSE
    BY <1>1, <1>3, FS_CardinalityType
  <2>1. g \in [1..n -> S]
    BY <1>2
  <2> HIDE DEF g, S, n
  <2>2. \E x, y \in 1..n : x # y /\ g[x] = g[y]
    BY <1>3, <1>4, <2>1, FS_PigeonHole, ZenonT(30)
  <2> QED
    BY <1>5, <2>2
<1>7. Cardinality(Thread) \in Nat
  BY ThreadAssumption, FS_CardinalityType
<1> QED
  BY <1>1, <1>3, <1>6, <1>7, SlotsAssumption
LEMMA LastStep ==
  ASSUME LogInv, Next
  PROVE  LastInv'
<1> USE DEF ringVars, lockVars, writerVars, threadVars, endVars, fileVars
<1>0. /\ LastInv /\ TypeOK /\ pc \in [Thread -> Pcs] /\ ring \in Seq(Lines)
      /\ \A t \in Thread : At(t, "stop") => async = FALSE
      /\ \A i \in 1..Len(ring) : ring[i][1] \in Thread
  <2>1. \A i \in 1..Len(ring) : ring[i] \in Lines
    BY ElementOfSeq DEF LogInv, TypeOK
  <2>2. \A i \in 1..Len(ring) : ring[i][1] \in Thread
    BY <2>1, LinesAre
  <2> QED
    BY <2>2, NoStopBeforeSync DEF LogInv, TypeOK
\* Steps outside the writer and the ring: they queue nobody once the log is synchronous.
<1>1. ASSUME UNCHANGED <<ring, dropped, stop, last, batch, note>>, async = FALSE => async' = FALSE,
             wpc' = wpc \/ (wpc = "asleep" /\ wpc' = "test"),
             \A t \in Thread : pc'[t] \in {"queue", "inside"} =>
               pc[t] \in {"queue", "inside"} \/ async # FALSE
      PROVE  LastInv'
  <2>1. {async, stop} \subseteq BOOLEAN
    BY <1>0 DEF TypeOK
  <2> QED
    BY <1>0, <1>1, <2>1 DEF LastInv
<1>2. CASE WriterStep
  <2>1. CASE Sleep
    BY <1>0, <2>1 DEF Sleep, LastInv
  <2>2. CASE Take
    <3>1. Len(<<>>) = 0
      OBVIOUS
    <3> QED
      BY <1>0, <2>2, <3>1 DEF Take, TakeBatch, LastInv
  <2>3. CASE WriteBatch
    BY <1>0, <2>3 DEF WriteBatch, LastInv
  <2>4. CASE BatchDone
    <3>1. /\ UNCHANGED <<ring, dropped, stop, last, batch, note, async>> /\ wpc = "done"
          /\ wpc' = IF last THEN "gone" ELSE "test"
          /\ pc' = [t \in Thread |-> IF pc[t] = "idle" THEN "recheck" ELSE pc[t]]
      BY <2>4 DEF BatchDone, NotifyIdle
    <3>2. \A i \in 1..Len(ring) : pc'[ring[i][1]] \in {"queue", "inside"} =>
                                  pc[ring[i][1]] \in {"queue", "inside"}
      BY <1>0, <3>1
    <3> QED
      BY <1>0, <3>1, <3>2 DEF LastInv
  <2> QED
    BY <1>2, <2>1, <2>2, <2>3, <2>4 DEF WriterStep
<1>3. CASE DogQuits
  BY <1>0, <1>1, <1>3, ThreadAssumption DEF DogQuits, Goto
<1>4. ASSUME NEW t \in Thread, NEW how \in Endings, Leave(t, how) PROVE LastInv'
  BY <1>0, <1>1, <1>4 DEF Leave, Goto
<1>5. ASSUME NEW t \in Thread, EmitLine(t) PROVE LastInv'
  BY <1>0, <1>1, <1>5 DEF EmitLine, Goto
<1>6. ASSUME NEW t \in Thread, ThreadStep(t) PROVE LastInv'
  <2>1. CASE LockRing(t)
    BY <1>0, <1>1, <2>1 DEF LockRing, Goto
  <2>2. CASE Enqueue(t)
    <3>1. /\ pc[t] = "inside" /\ pc' = [pc EXCEPT ![t] = "run"]
          /\ UNCHANGED <<stop, last, batch, note, async>>
      BY <2>2 DEF Enqueue, Goto
    <3>2. CASE Put(t)
      <4> DEFINE n == Len(ring)
      <4>1. Line(t) \in Lines
        BY <3>1, HeldLine DEF Holding
      <4>2. /\ n \in Nat /\ Len(ring') = n + 1 /\ ring'[n + 1] = Line(t)
            /\ \A i \in 1..n : ring'[i] = ring[i]
        BY <1>0, <3>2, <4>1, AppendProperties DEF Put
      <4>3. UNCHANGED dropped /\ (wpc' = wpc \/ (wpc = "asleep" /\ wpc' = "test"))
        BY <3>2 DEF Put, NotifyWriter
      <4>4. ASSUME last
            PROVE  /\ stop /\ dropped' = 0
                   /\ \A i, j \in 1..Len(ring') : ring'[i][1] = ring'[j][1] => i = j
                   /\ \A i \in 1..Len(ring') : pc'[ring'[i][1]] \notin {"queue", "inside"}
        <5>1. /\ stop /\ dropped = 0
              /\ \A i, j \in 1..n : ring[i][1] = ring[j][1] => i = j
              /\ \A i \in 1..n : pc[ring[i][1]] \notin {"queue", "inside"}
          BY <1>0, <4>4 DEF LastInv
        <5>2. \A i \in 1..n : ring[i][1] # t
          BY <3>1, <5>1
        <5>3. Line(t)[1] = t
          BY DEF Line
        <5> HIDE DEF n
        <5>4. ASSUME NEW i \in 1..n + 1, NEW j \in 1..n + 1, ring'[i][1] = ring'[j][1] PROVE i = j
          <6>1. CASE i \in 1..n /\ j \in 1..n
            BY <4>2, <5>1, <5>4, <6>1
          <6>2. CASE i = n + 1 /\ j \in 1..n
            BY <4>2, <5>2, <5>3, <5>4, <6>2
          <6>3. CASE i \in 1..n /\ j = n + 1
            BY <4>2, <5>2, <5>3, <5>4, <6>3
          <6> QED
            BY <4>2, <6>1, <6>2, <6>3
        <5>5. ASSUME NEW i \in 1..n + 1 PROVE pc'[ring'[i][1]] \notin {"queue", "inside"}
          <6>1. CASE i \in 1..n
            BY <1>0, <3>1, <4>2, <5>1, <5>2, <6>1
          <6>2. CASE i = n + 1
            BY <1>0, <3>1, <4>2, <5>3, <6>2
          <6> QED
            BY <4>2, <6>1, <6>2
        <5> QED
          BY <4>2, <4>3, <5>1, <5>4, <5>5
      <4> QED
        BY <1>0, <3>1, <4>3, <4>4 DEF LastInv
    <3>3. CASE Drop(t)
      <4>1. ~ last
        BY <3>1, <3>3, RoomAtTheEnd DEF Drop
      <4> QED
        BY <1>0, <3>1, <3>3, <4>1 DEF Drop, LastInv
    <3> QED
      BY <2>2, <3>2, <3>3 DEF Enqueue
  <2>3. CASE LockSink(t) \/ WriteNow(t)
    BY <1>0, <1>1, <2>3 DEF LockSink, WriteNow, Goto
  <2>4. CASE LogLine(t)
    BY <1>5, <2>4 DEF LogLine
  <2>5. CASE WriteSync(t) \/ JoinWriter(t) \/ Summarize(t) \/ StopDog(t) \/ JoinDog(t) \/ End(t)
    BY <1>0, <1>1, <2>5 DEF WriteSync, JoinWriter, Summarize, StopDog, JoinDog, End
  <2>6. CASE Drain(t)
    BY <1>0, <1>1, <2>6 DEF Drain, Goto
  <2>7. CASE AwaitIdle(t)
    <3>1. /\ UNCHANGED <<ring, dropped, stop, last, batch, note, async>>
          /\ wpc' = wpc \/ (wpc = "asleep" /\ wpc' = "test")
      BY <2>7 DEF AwaitIdle, NotifyWriter
    <3>2. \E where \in {"run", "idle"} : pc' = [pc EXCEPT ![t] = where]
      BY <2>7 DEF AwaitIdle, Goto
    <3> QED
      BY <1>0, <1>1, <3>1, <3>2
  <2>8. CASE Timeout(t)
    BY <1>0, <1>1, <2>8 DEF Timeout, Goto
  <2>9. CASE StopWriter(t)
    <3>1. /\ UNCHANGED <<ring, dropped, last, batch, note, async, pc>> /\ stop' = TRUE /\ async = FALSE
          /\ wpc' = wpc \/ (wpc = "asleep" /\ wpc' = "test")
      BY <1>0, <2>9 DEF StopWriter, NotifyWriter
    <3> QED
      BY <1>0, <3>1 DEF LastInv
  <2>10. CASE Sweep(t)
    <3>1. Len(<<>>) = 0
      OBVIOUS
    <3> QED
      BY <1>0, <2>10, <3>1 DEF Sweep, LastInv
  <2> QED
    BY <1>6, <2>1, <2>2, <2>3, <2>4, <2>5, <2>6, <2>7, <2>8, <2>9, <2>10 DEF ThreadStep
<1> QED
  BY <1>2, <1>3, <1>4, <1>5, <1>6, ThreadAssumption DEF Next, Log

LEMMA CleanStep ==
  ASSUME LogInv, Next
  PROVE  CleanInv'
<1> USE DEF ringVars, lockVars, writerVars, threadVars, endVars, fileVars
<1>1. ended = "no" /\ \A t \in Thread : At(t, "end") => wpc = "gone"
  BY NoStopBeforeSync DEF Next, Alive, LogInv
<1>2. ASSUME UNCHANGED ended PROVE CleanInv'
  BY <1>1, <1>2 DEF CleanInv
<1>3. CASE WriterStep
  BY <1>2, <1>3 DEF WriterStep, Sleep, Take, WriteBatch, BatchDone
<1>4. CASE DogQuits
  BY <1>2, <1>4 DEF DogQuits
<1>5. ASSUME NEW t \in Thread, NEW how \in Endings, Leave(t, how) PROVE CleanInv'
  BY <1>2, <1>5 DEF Leave
<1>6. ASSUME NEW t \in Thread, EmitLine(t) PROVE CleanInv'
  BY <1>2, <1>6 DEF EmitLine
<1>7. ASSUME NEW t \in Thread, ThreadStep(t) PROVE CleanInv'
  <2>1. CASE LockRing(t) \/ Enqueue(t) \/ LockSink(t) \/ WriteNow(t) \/ WriteSync(t) \/ Drain(t)
    BY <1>2, <2>1 DEF LockRing, Enqueue, LockSink, WriteNow, WriteSync, Drain
  <2>2. CASE AwaitIdle(t) \/ Timeout(t) \/ StopWriter(t) \/ JoinWriter(t) \/ Sweep(t)
    BY <1>2, <2>2 DEF AwaitIdle, Timeout, StopWriter, JoinWriter, Sweep
  <2>3. CASE Summarize(t) \/ StopDog(t) \/ JoinDog(t)
    BY <1>2, <2>3 DEF Summarize, StopDog, JoinDog
  <2>4. CASE End(t)
    BY <1>1, <2>4 DEF End, CleanInv
  <2> QED
    BY <1>6, <1>7, <2>1, <2>2, <2>3, <2>4 DEF ThreadStep, LogLine
<1> QED
  BY <1>3, <1>4, <1>5, <1>6, <1>7, ThreadAssumption DEF Next, Log

LEMMA LogInit == Init => LogInv
<1> SUFFICES ASSUME Init PROVE LogInv
  OBVIOUS
<1>1. /\ ring = <<>> /\ order = <<>> /\ file = <<>> /\ batch = <<>> /\ lost = {} /\ Len(<<>>) = 0
      /\ \A E : <<>> \in Seq(E)
  BY EmptySeq DEF Init
<1>2. TypeOK
  <2>1. Slots \in Nat /\ 0 < Slots
    BY ThreadAssumption, SlotsAssumption, FS_CardinalityType
  <2>2. Nobody \notin Thread /\ 0 \in 0..MaxLines + 2
    BY ThreadAssumption, MaxLinesAssumption DEF Nobody
  <2> QED
    BY <1>1, <2>1, <2>2 DEF Init, TypeOK, Leaving, Pcs
<1>3. TodoInv
  <2>1. PlanOK(<<>>, TRUE, "test") /\ DueOK(<<>>, 0, FALSE)
    BY <1>1, MaxLinesAssumption DEF PlanOK, DueOK, LinesDue, HasLine, HasSummary
  <2> QED
    BY <1>1, <2>1 DEF Init, TodoInv
<1>4. WaitInv /\ LockInv
  <2>1. Nobody \notin Thread
    BY ThreadAssumption DEF Nobody
  <2> QED
    BY <2>1 DEF Init, WaitInv, LockInv
<1>5. FileInv
  <2>1. Kept(file, ToSet(order)) \o batch \o ring = order
    <3>1. Kept(<<>>, ToSet(<<>>)) = <<>> /\ <<>> \o <<>> = <<>>
      BY <1>1, KeptEmpty, ConcatEmptySeq
    <3> QED
      BY <1>1, <3>1
  <2>2. Noted(file) = 0 /\ Cardinality(lost) = 0 /\ IsFiniteSet(lost)
    BY <1>1, NotedEmpty, FS_EmptySet
  <2>3. IsInjective(order)
    BY <1>1 DEF IsInjective
  <2> QED
    BY <1>1, <2>1, <2>2, <2>3 DEF Init, FileInv, Holding
<1>6. LastInv /\ CleanInv
  BY <1>1 DEF Init, LastInv, CleanInv
<1> QED
  BY <1>2, <1>3, <1>4, <1>5, <1>6 DEF LogInv

\* The inductive invariant of the log and of the ways out.
THEOREM LogInvariant == Spec => []LogInv
<1>1. ASSUME LogInv, [Next]_vars PROVE LogInv'
  <2>1. CASE Next
    BY <1>1, <2>1, TypeStep, TodoStep, LockStep, FileStep, LastStep, CleanStep DEF LogInv
  <2>2. CASE UNCHANGED vars
    BY <1>1, <2>2, SMTT(30) DEF vars, ringVars, lockVars, writerVars, threadVars, endVars, fileVars,
         LogInv, TypeOK, TodoInv, WaitInv, LockInv, FileInv, LastInv, CleanInv, Leaving, Holding,
         Spent, Limit
  <2> QED
    BY <1>1, <2>1, <2>2
<1> QED
  BY LogInit, <1>1, PTL DEF Spec

\* Every variable has its type, the ring is never overfull, no thread logs more
\* than its lines and those of its leaving, and a lock that is held belongs to a
\* thread inside it or to one that left from inside it.
THEOREM LogTypeCorrect == Spec => []TypeOK
<1>1. LogInv => TypeOK
  BY DEF LogInv
<1> QED
  BY LogInvariant, <1>1, PTL

\* Queued lines reach the file in the order they were queued, each once, and
\* refused ones are counted, up to what the way out gives up by design.
THEOREM LinesAccounted == Spec => []Accounted
<1>1. ASSUME LogInv PROVE Accounted
  <2>1. /\ file \in Seq(Entries) /\ ring \in Seq(Lines)
        /\ Kept(file, ToSet(order)) \o batch \o ring = order
        /\ Cardinality(lost) = dropped + note + Noted(file)
    BY <1>1 DEF LogInv, FileInv, TypeOK
  <2>2. IsInjective(Kept(file, Lines))
    BY <1>1, <2>1, KeptInjective DEF LogInv, FileInv
  <2>3. ASSUME ended = "clean"
        PROVE  /\ batch = <<>> /\ dropped + note = 0 /\ Len(order) >= swept + Len(ring)
               /\ IsInjective([i \in DOMAIN ring |-> ring[i][1]])
    <3>1. wpc = "gone" /\ last
      BY <1>1, <2>3 DEF LogInv, CleanInv, LastInv
    <3>2. /\ batch = <<>> /\ note = 0 /\ dropped = 0
          /\ \A i, j \in 1..Len(ring) : ring[i][1] = ring[j][1] => i = j
      BY <1>1, <3>1 DEF LogInv, LastInv
    <3>3. Len(order) >= swept + Len(ring)
      BY <1>1, LenProperties DEF LogInv, FileInv, TypeOK
    <3>4. DOMAIN ring = 1..Len(ring)
      BY <2>1, LenProperties
    <3>5. IsInjective([i \in DOMAIN ring |-> ring[i][1]])
      BY <3>2, <3>4 DEF IsInjective
    <3> QED
      BY <3>2, <3>3, <3>5
  <2> QED
    BY <2>1, <2>2, <2>3 DEF Accounted
<1> QED
  BY LogInvariant, <1>1, PTL

=============================================================================

--------------------------- MODULE FoxGroupsProofs ---------------------------
(* Proofs about FoxGroups: types and the cap, that what the inverter plays is  *)
(* what the plan decided, and that an upload leaves the half hour under way    *)
(* alone.                                                                      *)
EXTENDS FoxGroups, FiniteSetTheorems, SequenceTheorems, TLAPS

----------------------------------------------------------------------------
(* Division with remainder *)

\* A number is its quotient and its remainder.
LEMMA Division ==
  ASSUME NEW n \in Int, NEW b \in Nat, b > 0
  PROVE  /\ n \div b \in Int /\ n % b \in 0..(b - 1)
         /\ n = (n \div b) * b + (n % b)
         /\ n >= 0 => n \div b \in Nat
<1>1. n \div b \in Int /\ n % b \in 0..(b - 1)
  <2>1. n \div b \in Int
    OBVIOUS
  <2>2. n % b \in Int
    OBVIOUS
  <2>3. 0 <= n % b /\ n % b < b
    OBVIOUS
  <2> QED BY <2>1, <2>2, <2>3
<1>2. n = (n \div b) * b + (n % b)
  OBVIOUS
<1>3. n >= 0 => n \div b \in Nat
  OBVIOUS
<1> QED BY <1>1, <1>2, <1>3

\* Quotient and remainder are the only such pair.
LEMMA DivisionUnique ==
  ASSUME NEW b \in Nat, b > 0, NEW q \in Int, NEW r \in 0..(b - 1)
  PROVE  (q * b + r) \div b = q /\ (q * b + r) % b = r
<1> DEFINE n == q * b + r
<1>1. n \in Int
  OBVIOUS
<1>2. n \div b \in Int /\ n % b \in 0..(b - 1) /\ n = (n \div b) * b + (n % b)
  BY <1>1, Division
<1> HIDE DEF n
<1>3. \A p \in Int : \A u \in 0..(b - 1) : p * b + u = q * b + r => p = q /\ u = r
  <2> TAKE p \in Int
  <2> TAKE u \in 0..(b - 1)
  <2> HAVE p * b + u = q * b + r
  <2>1. ~(p > q)
    OBVIOUS
  <2>2. ~(p < q)
    OBVIOUS
  <2> QED BY <2>1, <2>2
<1>4. n \div b = q /\ n % b = r
  BY <1>2, <1>3 DEF n
<1> QED BY <1>4 DEF n

\* Multiples keep the order and leave room for one more between.
LEMMA Multiples ==
  ASSUME NEW b \in Nat, b > 0, NEW x \in Int, NEW y \in Int
  PROVE  /\ x < y => x * b + b <= y * b
         /\ x <= y => x * b <= y * b
         /\ x * b < y * b => x < y
         /\ x * b <= y * b => x <= y
<1>1. x < y => x * b + b <= y * b
  OBVIOUS
<1>2. y < x => y * b + b <= x * b
  OBVIOUS
<1>3. x * b \in Int /\ y * b \in Int
  OBVIOUS
<1>4. x <= y => x * b <= y * b
  BY <1>1, <1>3
<1> QED BY <1>1, <1>2, <1>3, <1>4

\* Among fewer than b neighbours no two numbers have the same remainder.
LEMMA Cyclic ==
  ASSUME NEW b \in Nat, b > 0, NEW x \in Int, NEW y \in Int,
         x - y < b, y - x < b, x % b = y % b
  PROVE  x = y
<1> DEFINE p == x \div b
           q == y \div b
<1>1. p \in Int /\ q \in Int /\ x = p * b + (x % b) /\ y = q * b + (y % b) /\ x % b \in Int
  BY Division
<1> HIDE DEF p, q
<1>2. p * b \in Int /\ q * b \in Int
  BY <1>1
<1>3. ~(p < q)
  <2>1. p < q => p * b + b <= q * b
    BY <1>1, Multiples
  <2> QED BY <1>1, <1>2, <2>1
<1>4. ~(q < p)
  <2>1. q < p => q * b + b <= p * b
    BY <1>1, Multiples
  <2> QED BY <1>1, <1>2, <2>1
<1> QED BY <1>1, <1>3, <1>4

----------------------------------------------------------------------------
(* Half hours and the clock *)

\* The sizes of half hours and days.
LEMMA Sizes ==
  /\ Minutes \in Nat /\ Minutes > 1 /\ Slots \in Nat /\ Slots > 1
  /\ Day \in Nat /\ Day > 0 /\ Day = Slots * Minutes
  /\ Horizon \in Nat /\ Horizon >= 1 /\ Horizon < Slots
<1>1. Minutes \in Nat /\ Minutes > 1 /\ Slots \in Nat /\ Horizon \in 1..(Slots - 1)
  BY ShapeAssumption
<1>2. Day \in Nat /\ Day > 0 /\ Day = Slots * Minutes
  BY <1>1 DEF Day
<1> QED BY <1>1, <1>2

\* A minute lies in its half hour, and the half hour of the clock is that of the day.
LEMMA ClockOf ==
  ASSUME NEW t \in Nat
  PROVE  /\ SlotOf(t) \in Nat
         /\ t - SlotOf(t) * Minutes \in 0..(Minutes - 1)
         /\ SlotOf(t) % Slots \in 0..(Slots - 1)
         /\ Clock(t) = (SlotOf(t) % Slots) * Minutes + (t - SlotOf(t) * Minutes)
         /\ Clock(t) \in 0..(Day - 1)
         /\ Clock(t) \div Minutes = SlotOf(t) % Slots
<1> DEFINE s == SlotOf(t)
           u == t % Minutes
           d == s \div Slots
           v == s % Slots
<1>1. s \in Nat /\ u \in 0..(Minutes - 1) /\ t = s * Minutes + u
  BY Sizes, Division DEF SlotOf
<1> HIDE DEF s, u
<1>2. d \in Nat /\ v \in 0..(Slots - 1) /\ s = d * Slots + v
  BY <1>1, Sizes, Division
<1> HIDE DEF d, v
<1>3. t = d * Day + (v * Minutes + u)
  <2>1. s * Minutes = d * (Slots * Minutes) + v * Minutes
    BY <1>2, Sizes
  <2> QED BY <1>1, <1>2, <2>1, Sizes
<1>4. v * Minutes + u \in 0..(Day - 1)
  <2>1. v * Minutes + Minutes <= Slots * Minutes
    BY <1>2, Sizes, Multiples
  <2>2. v * Minutes \in Nat
    BY <1>2, Sizes
  <2> QED BY <1>1, <2>1, <2>2, Sizes
<1>5. Clock(t) = v * Minutes + u
  <2> DEFINE r == v * Minutes + u
  <2>1. r \in 0..(Day - 1) /\ t = d * Day + r
    BY <1>3, <1>4
  <2> HIDE DEF r
  <2>2. t % Day = r
    BY <1>2, <2>1, Sizes, DivisionUnique
  <2> QED BY <2>2 DEF Clock, r
<1>6. Clock(t) \div Minutes = v
  BY <1>1, <1>2, <1>5, Sizes, DivisionUnique
<1>7. t - s * Minutes = u
  <2>1. s * Minutes \in Int
    BY <1>1, Sizes
  <2> QED BY <1>1, <2>1
<1> QED BY <1>1, <1>2, <1>4, <1>5, <1>6, <1>7 DEF s, v

\* The half hour of a later minute is not an earlier one.
LEMMA SlotMonotone ==
  ASSUME NEW t \in Nat, NEW v \in Nat, t <= v
  PROVE  SlotOf(t) \in Nat /\ SlotOf(v) \in Nat /\ SlotOf(t) <= SlotOf(v)
<1>1. SlotOf(t) \in Nat /\ SlotOf(v) \in Nat
  BY ClockOf
<1>2. t >= SlotOf(t) * Minutes /\ v < SlotOf(v) * Minutes + Minutes
      /\ SlotOf(t) * Minutes \in Nat /\ SlotOf(v) * Minutes \in Nat
  <2>1. SlotOf(t) * Minutes \in Nat /\ SlotOf(v) * Minutes \in Nat
    BY <1>1, Sizes
  <2>2. t - SlotOf(t) * Minutes \in 0..(Minutes - 1)
    BY ClockOf
  <2>3. v - SlotOf(v) * Minutes \in 0..(Minutes - 1)
    BY ClockOf
  <2> QED BY <2>1, <2>2, <2>3, Sizes
<1>3. ~(SlotOf(v) < SlotOf(t))
  BY <1>1, <1>2, Sizes, Multiples
<1> QED BY <1>1, <1>3

----------------------------------------------------------------------------
(* What a group covers *)

\* An end written and read back is the boundary it stands for, and a clock minute.
LEMMA EndShape ==
  ASSUME NEW b \in 1..Slots
  PROVE  /\ EndOf(b * Minutes) \in 0..(Day - 1)
         /\ EndOf(b * Minutes) <= b * Minutes
         /\ PastEnd(EndOf(b * Minutes)) = b * Minutes
<1> DEFINE e == b * Minutes
<1>1. e \in Nat /\ e >= 1 /\ e <= Day
  <2>1. 1 * Minutes <= b * Minutes /\ b * Minutes <= Slots * Minutes
    BY Sizes, Multiples
  <2> QED BY <2>1, Sizes
<1>2. e % Minutes = 0
  <2>1. (b * Minutes + 0) % Minutes = 0
    BY Sizes, DivisionUnique
  <2> QED BY <1>1, <2>1
<1>3. (e - 1) % Minutes = Minutes - 1
  <2>1. ((b - 1) * Minutes + (Minutes - 1)) % Minutes = Minutes - 1
    BY Sizes, DivisionUnique
  <2>2. (b - 1) * Minutes + (Minutes - 1) = e - 1
    BY Sizes
  <2> QED BY <2>1, <2>2
<1>4. CASE e % (2 * Minutes) = 0
  <2>1. EndOf(e) = e - 1
    BY <1>4 DEF EndOf
  <2>2. PastEnd(e - 1) = e
    BY <1>1, <1>3, Sizes DEF PastEnd
  <2>3. e - 1 \in 0..(Day - 1) /\ e - 1 <= e
    BY <1>1, Sizes
  <2> QED BY <2>1, <2>2, <2>3
<1>5. CASE e % (2 * Minutes) # 0
  <2>1. EndOf(e) = e
    BY <1>5 DEF EndOf
  <2>2. PastEnd(e) = e
    BY <1>2 DEF PastEnd
  <2>3. b # Slots
    <3>1. Slots % 2 = 0 /\ Slots \div 2 \in Int /\ Slots = (Slots \div 2) * 2 + (Slots % 2)
      BY ShapeAssumption, Sizes, Division
    <3> DEFINE h == Slots \div 2
    <3> HIDE DEF h
    <3>2. h \in Int /\ Slots = h * 2
      BY <3>1 DEF h
    <3>3. Slots * Minutes = h * (2 * Minutes) + 0
      BY <3>2, Sizes
    <3>4. (h * (2 * Minutes) + 0) % (2 * Minutes) = 0
      <4>1. 2 * Minutes \in Nat /\ 2 * Minutes > 0 /\ 0 \in 0..(2 * Minutes - 1)
        BY Sizes
      <4> QED BY <3>2, <4>1, DivisionUnique
    <3> QED BY <1>5, <3>3, <3>4
  <2>4. e # Day
    <3>1. b < Slots
      BY <2>3, Sizes
    <3>2. b * Minutes + Minutes <= Slots * Minutes
      BY <3>1, Sizes, Multiples
    <3> QED BY <1>1, <3>2, Sizes
  <2>5. e \in 0..(Day - 1)
    BY <1>1, <2>4, Sizes
  <2>6. e <= e
    BY <1>1
  <2> QED BY <2>1, <2>2, <2>5, <2>6
<1> QED BY <1>4, <1>5

\* The half hours [x, y) of one day.
Piece(x, y) == x \in Nat /\ y \in Nat /\ x < y /\ x \div Slots = (y - 1) \div Slots

\* A group from the boundary a to the boundary b of the clock, with those of the
\* half hours [x, y) of one day.
Spans(g, a, b, x, y) ==
  /\ a < b
  /\ g.start = a * Minutes /\ g.end = EndOf(b * Minutes)
  /\ \A u \in 0..(Slots - 1) :
       (a <= u /\ u < b) <=> \E s \in x..(y - 1) : s % Slots = u

\* A piece of a day becomes a group between two boundaries of the clock.
LEMMA PieceShape ==
  ASSUME NEW x, NEW y, NEW k, Piece(x, y)
  PROVE  \E a \in 0..(Slots - 1), b \in 1..Slots : Spans(GroupOf(x, y, k), a, b, x, y)
<1> DEFINE a == x % Slots
           z == y - 1
           c == z % Slots
           q == x \div Slots
           g == GroupOf(x, y, k)
<1>1. x \in Nat /\ z \in Nat /\ x <= z /\ y = z + 1 /\ z \div Slots = q
  BY DEF Piece
<1>2. a \in 0..(Slots - 1) /\ c \in 0..(Slots - 1) /\ q \in Int
      /\ x = q * Slots + a /\ z = q * Slots + c
  <2>1. x \in Int /\ z \in Int /\ Slots \in Nat /\ Slots > 0
    BY <1>1, Sizes
  <2>2. a \in 0..(Slots - 1) /\ q \in Int /\ x = q * Slots + a
    BY <2>1, Division
  <2>3. c \in 0..(Slots - 1) /\ z = (z \div Slots) * Slots + c
    BY <2>1, Division
  <2> QED BY <1>1, <2>2, <2>3
<1>3. g.start = a * Minutes /\ g.end = EndOf((c + 1) * Minutes) /\ g.key = k
  BY DEF GroupOf
<1> HIDE DEF a, z, c, q, g
<1>4. a <= c
  <2>1. q * Slots \in Int
    BY <1>2, Sizes
  <2> QED BY <1>1, <1>2, <2>1
<1>5. ASSUME NEW u \in 0..(Slots - 1)
      PROVE  (a <= u /\ u < c + 1) <=> \E s \in x..(y - 1) : s % Slots = u
  <2>1. ASSUME a <= u, u < c + 1
        PROVE  \E s \in x..(y - 1) : s % Slots = u
    <3>1. (q * Slots + u) % Slots = u
      BY <1>2, Sizes, DivisionUnique
    <3>2. q * Slots + u \in x..(y - 1)
      <4>1. q * Slots \in Int /\ u <= c
        BY <1>2, <2>1, Sizes
      <4> QED BY <1>1, <1>2, <2>1, <4>1
    <3> QED BY <3>1, <3>2
  <2>2. ASSUME NEW s \in x..(y - 1), s % Slots = u
        PROVE  a <= u /\ u < c + 1
    <3> DEFINE p == s \div Slots
    <3>1. s \in Int /\ p \in Int /\ s = p * Slots + u
      BY <1>1, <2>2, Sizes, Division
    <3> HIDE DEF p
    <3>2. q * Slots \in Int /\ p * Slots \in Int
      BY <1>2, <3>1, Sizes
    <3>3. ~(p < q)
      <4>1. p < q => p * Slots + Slots <= q * Slots
        BY <1>2, <3>1, Sizes, Multiples
      <4> QED BY <1>1, <1>2, <3>1, <3>2, <4>1, Sizes
    <3>4. ~(q < p)
      <4>1. q < p => q * Slots + Slots <= p * Slots
        BY <1>2, <3>1, Sizes, Multiples
      <4> QED BY <1>1, <1>2, <3>1, <3>2, <4>1, Sizes
    <3>5. p = q
      BY <1>2, <3>1, <3>3, <3>4
    <3> QED BY <1>1, <1>2, <3>1, <3>2, <3>5
  <2> QED BY <2>1, <2>2
<1>6. c + 1 \in 1..Slots /\ a < c + 1
  BY <1>2, <1>4, Sizes
<1>7. \A u \in 0..(Slots - 1) :
        (a <= u /\ u < c + 1) <=> \E s \in x..(y - 1) : s % Slots = u
  BY <1>5
<1>8. Spans(g, a, c + 1, x, y)
  BY <1>3, <1>6, <1>7 DEF Spans
<1> QED BY <1>2, <1>6, <1>8 DEF g

\* The group of a piece covers the minutes of its half hours, whatever their day.
LEMMA PieceCovers ==
  ASSUME NEW x, NEW y, NEW k, Piece(x, y), NEW m, k \in Keys, m \in 0..(Day - 1)
  PROVE  /\ GroupOf(x, y, k) \in Groups
         /\ GroupOf(x, y, k).key = k
         /\ Covers(GroupOf(x, y, k), m) <=> \E s \in x..(y - 1) : s % Slots = m \div Minutes
<1> DEFINE g == GroupOf(x, y, k)
<1>1. PICK a \in 0..(Slots - 1), b \in 1..Slots : Spans(g, a, b, x, y)
  BY PieceShape
<1> DEFINE o == m \div Minutes
           r == m % Minutes
<1>2. o \in Int /\ r \in 0..(Minutes - 1) /\ m = o * Minutes + r
  BY Sizes, Division
<1>3. g = [start |-> g.start, end |-> g.end, key |-> g.key] /\ g.key = k
  BY DEF GroupOf
<1> HIDE DEF g, o, r
<1>4. o * Minutes \in Int /\ a * Minutes \in Int /\ b * Minutes \in Int
  BY <1>2, Sizes
<1>5. o \in 0..(Slots - 1)
  <2>1. o < 0 => o * Minutes + Minutes <= 0 * Minutes
    BY <1>2, Sizes, Multiples
  <2>2. Slots <= o => Slots * Minutes <= o * Minutes
    BY <1>2, Sizes, Multiples
  <2>3. ~(o < 0)
    BY <1>2, <1>4, <2>1, Sizes
  <2>4. ~(Slots <= o)
    BY <1>2, <1>4, <2>2, Sizes
  <2> QED BY <1>2, <2>3, <2>4, Sizes
<1>6. (a * Minutes <= m) <=> (a <= o)
  <2>1. a <= o => a * Minutes <= o * Minutes
    BY <1>2, Sizes, Multiples
  <2>2. o < a => o * Minutes + Minutes <= a * Minutes
    BY <1>2, Sizes, Multiples
  <2> QED BY <1>2, <1>4, <2>1, <2>2, Sizes
<1>7. (m < b * Minutes) <=> (o < b)
  <2>1. b <= o => b * Minutes <= o * Minutes
    BY <1>2, Sizes, Multiples
  <2>2. o < b => o * Minutes + Minutes <= b * Minutes
    BY <1>2, Sizes, Multiples
  <2> QED BY <1>2, <1>4, <2>1, <2>2, Sizes
<1>8. PastEnd(g.end) = b * Minutes /\ g.end \in 0..(Day - 1)
  BY <1>1, EndShape DEF Spans
<1>9. Covers(g, m) <=> \E s \in x..(y - 1) : s % Slots = o
  BY <1>1, <1>5, <1>6, <1>7, <1>8 DEF Covers, Spans
<1>10. g.start \in 0..(Day - 1)
  <2>1. a * Minutes + Minutes <= Slots * Minutes /\ 0 * Minutes <= a * Minutes
    BY Sizes, Multiples
  <2> QED BY <1>1, <1>4, <2>1, Sizes DEF Spans
<1>11. g \in Groups
  BY <1>3, <1>8, <1>10 DEF Groups
<1> QED BY <1>3, <1>9, <1>11 DEF g, o

\* Two pieces whose groups overlap have a clock half hour in common.
LEMMA PieceOverlap ==
  ASSUME NEW x, NEW y, NEW k, Piece(x, y), NEW v, NEW w, NEW l, Piece(v, w),
         Overlap(GroupOf(x, y, k), GroupOf(v, w, l))
  PROVE  \E s \in x..(y - 1) : \E t \in v..(w - 1) : s % Slots = t % Slots
<1> DEFINE g == GroupOf(x, y, k)
           h == GroupOf(v, w, l)
<1>1. PICK a \in 0..(Slots - 1), b \in 1..Slots : Spans(g, a, b, x, y)
  BY PieceShape
<1>2. PICK c \in 0..(Slots - 1), d \in 1..Slots : Spans(h, c, d, v, w)
  BY PieceShape
<1>3. Overlap(g, h)
  OBVIOUS
<1> HIDE DEF g, h
<1>4. g.end <= b * Minutes /\ h.end <= d * Minutes /\ g.end \in Int /\ h.end \in Int
  BY <1>1, <1>2, EndShape DEF Spans
<1>5. a * Minutes \in Int /\ b * Minutes \in Int /\ c * Minutes \in Int /\ d * Minutes \in Int
  BY Sizes
<1>6. a * Minutes < d * Minutes /\ c * Minutes < b * Minutes
  BY <1>1, <1>2, <1>3, <1>4, <1>5 DEF Overlap, Spans
<1>7. a < d
  BY <1>6, Sizes, Multiples
<1>8. c < b
  BY <1>6, Sizes, Multiples
<1>9. PICK u \in {a, c} : a <= u /\ u < b /\ c <= u /\ u < d
  BY <1>1, <1>2, <1>7, <1>8 DEF Spans
<1>10. u \in 0..(Slots - 1)
  BY <1>9
<1>11. PICK s \in x..(y - 1) : s % Slots = u
  BY <1>1, <1>9, <1>10 DEF Spans
<1>12. PICK t \in v..(w - 1) : t % Slots = u
  BY <1>2, <1>9, <1>10 DEF Spans
<1> QED BY <1>11, <1>12

----------------------------------------------------------------------------
(* The windows of a plan *)

\* A set of naturals that is not empty has a least one.
LEMMA LeastOf ==
  ASSUME NEW T, T \subseteq Nat, T # {}
  PROVE  \E x \in T : \A y \in T : x <= y
<1> DEFINE L == {ss \in Nat \X Nat : ss[1] < ss[2]}
<1>1. L = OpToRel(<, Nat)
  BY DEF OpToRel
<1>2. IsWellFoundedOn(L, Nat)
  BY <1>1, NatLessThanWellFounded
<1> HIDE DEF L
<1>3. PICK x \in T : \A y \in T : ~(<<y, x>> \in L)
  BY <1>2, WFMin
<1>4. ASSUME NEW y \in T PROVE x <= y
  <2>1. <<y, x>> \in Nat \X Nat /\ <<y, x>> \notin L
    BY <1>3
  <2>2. ~(y < x)
    BY <2>1 DEF L
  <2> QED BY <2>1, <2>2
<1> QED BY <1>4

\* And a bounded one a greatest.
LEMMA GreatestOf ==
  ASSUME NEW n \in Nat, NEW T, T \subseteq 0..n, T # {}
  PROVE  \E x \in T : \A y \in T : y <= x
<1> DEFINE D == {d \in 0..n : n - d \in T}
<1>1. D \subseteq Nat /\ D # {}
  <2>1. PICK t \in T : TRUE
    OBVIOUS
  <2>2. t \in 0..n /\ n - t \in 0..n /\ n - (n - t) = t
    BY <2>1
  <2> QED BY <2>2
<1>2. PICK d \in D : \A e \in D : d <= e
  BY <1>1, LeastOf
<1>3. ASSUME NEW y \in T PROVE y <= n - d
  <2>1. y \in 0..n /\ n - y \in 0..n /\ n - (n - y) = y
    OBVIOUS
  <2>2. n - y \in D
    BY <2>1
  <2>3. d <= n - y /\ d \in 0..n
    BY <1>2, <2>2
  <2> QED BY <2>1, <2>3
<1> QED BY <1>2, <1>3

\* A plan as it is dispatched: a key for every half hour of the horizon.
IsPlan(p) == /\ p \in Seq(Keys) /\ Len(p) = Horizon /\ DOMAIN p = 1..Horizon
             /\ \A i \in 1..Horizon : p[i] \in Keys

\* The half hours of a run.
InRun(i, r) == r[1] <= i /\ i <= r[2]

\* A run has a beginning and an end within the plan.
LEMMA RunBounds ==
  ASSUME NEW p, IsPlan(p), NEW r \in Runs(p)
  PROVE  /\ r[1] \in 1..Horizon /\ r[2] \in 1..Horizon /\ r[1] <= r[2] /\ r = <<r[1], r[2]>>
         /\ \A i \in (r[1] + 1)..r[2] : Joins(p[i - 1], p[i])
         /\ r[1] > 1 => ~Joins(p[r[1] - 1], p[r[1]])
         /\ r[2] < Horizon => ~Joins(p[r[2]], p[r[2] + 1])
BY DEF IsPlan, Runs

\* Every half hour is in a run.
LEMMA RunOf ==
  ASSUME NEW p, IsPlan(p), NEW i \in 1..Horizon
  PROVE  \E r \in Runs(p) : InRun(i, r)
<1> DEFINE T == {n \in 1..i : \A j \in (n + 1)..i : Joins(p[j - 1], p[j])}
           D == {e \in i..Horizon : \A j \in (i + 1)..e : Joins(p[j - 1], p[j])}
<1>1. PICK a \in T : \A n \in T : a <= n
  <2>1. i \in T /\ T \subseteq Nat
    OBVIOUS
  <2> HIDE DEF T
  <2> QED BY <2>1, LeastOf
<1>2. PICK b \in D : \A e \in D : e <= b
  <2>1. i \in D /\ D \subseteq 0..Horizon /\ Horizon \in Nat
    BY Sizes
  <2> HIDE DEF D
  <2> QED BY <2>1, GreatestOf
<1>3. a > 1 => ~Joins(p[a - 1], p[a])
  <2> SUFFICES ASSUME a > 1, Joins(p[a - 1], p[a]) PROVE FALSE
    OBVIOUS
  <2>1. \A j \in ((a - 1) + 1)..i : j = a \/ j \in (a + 1)..i
    BY <1>1
  <2>2. a - 1 \in T
    BY <1>1, <2>1
  <2> QED BY <1>1, <2>2
<1>4. b < Horizon => ~Joins(p[b], p[b + 1])
  <2> SUFFICES ASSUME b < Horizon, Joins(p[b], p[b + 1]) PROVE FALSE
    OBVIOUS
  <2>1. b \in i..Horizon /\ Horizon \in Nat
    BY <1>2, Sizes
  <2>2. \A j \in (i + 1)..(b + 1) : j = b + 1 \/ j \in (i + 1)..b
    BY <2>1
  <2>3. (b + 1) - 1 = b /\ b + 1 \in i..Horizon
    BY <2>1
  <2>4. \A j \in (i + 1)..(b + 1) : Joins(p[j - 1], p[j])
    BY <1>2, <2>2, <2>3
  <2>5. b + 1 \in D
    BY <2>3, <2>4
  <2> QED BY <1>2, <2>1, <2>5
<1>5. a \in 1..Horizon /\ b \in 1..Horizon /\ a <= i /\ i <= b
  BY <1>1, <1>2, Sizes
<1>6. \A j \in (a + 1)..b : Joins(p[j - 1], p[j])
  <2>1. \A j \in (a + 1)..b : j \in (a + 1)..i \/ j \in (i + 1)..b
    BY <1>5
  <2> QED BY <1>1, <1>2, <2>1
<1> DEFINE r == <<a, b>>
<1>7. r[1] = a /\ r[2] = b /\ r \in (1..Horizon) \X (1..Horizon)
  BY <1>5
<1> HIDE DEF r, T, D
<1>8. r \in Runs(p)
  <2>1. a <= b
    BY <1>5
  <2> QED BY <1>3, <1>4, <1>6, <1>7, <2>1 DEF Runs, IsPlan
<1>9. InRun(i, r)
  BY <1>5, <1>7 DEF InRun
<1> QED BY <1>8, <1>9

\* And in one only.
LEMMA RunUnique ==
  ASSUME NEW p, IsPlan(p), NEW r \in Runs(p), NEW q \in Runs(p),
         NEW i \in Int, InRun(i, r), InRun(i, q)
  PROVE  r = q
<1>1. /\ r[1] \in 1..Horizon /\ r[2] \in 1..Horizon /\ r[1] <= r[2] /\ r = <<r[1], r[2]>>
      /\ \A j \in (r[1] + 1)..r[2] : Joins(p[j - 1], p[j])
      /\ r[1] > 1 => ~Joins(p[r[1] - 1], p[r[1]])
      /\ r[2] < Horizon => ~Joins(p[r[2]], p[r[2] + 1])
  BY RunBounds
<1>2. /\ q[1] \in 1..Horizon /\ q[2] \in 1..Horizon /\ q[1] <= q[2] /\ q = <<q[1], q[2]>>
      /\ \A j \in (q[1] + 1)..q[2] : Joins(p[j - 1], p[j])
      /\ q[1] > 1 => ~Joins(p[q[1] - 1], p[q[1]])
      /\ q[2] < Horizon => ~Joins(p[q[2]], p[q[2] + 1])
  BY RunBounds
<1>3. r[1] <= i /\ i <= r[2] /\ q[1] <= i /\ i <= q[2]
  BY DEF InRun
<1>4. ~(r[1] < q[1])
  <2> SUFFICES ASSUME r[1] < q[1] PROVE FALSE
    OBVIOUS
  <2>1. q[1] \in (r[1] + 1)..r[2] /\ q[1] > 1
    BY <1>1, <1>2, <1>3
  <2> QED BY <1>1, <1>2, <2>1
<1>5. ~(q[1] < r[1])
  <2> SUFFICES ASSUME q[1] < r[1] PROVE FALSE
    OBVIOUS
  <2>1. r[1] \in (q[1] + 1)..q[2] /\ r[1] > 1
    BY <1>1, <1>2, <1>3
  <2> QED BY <1>1, <1>2, <2>1
<1>6. ~(r[2] < q[2])
  <2> SUFFICES ASSUME r[2] < q[2] PROVE FALSE
    OBVIOUS
  <2>1. r[2] + 1 \in (q[1] + 1)..q[2] /\ r[2] < Horizon /\ (r[2] + 1) - 1 = r[2]
    BY <1>1, <1>2, <1>3, Sizes
  <2> QED BY <1>1, <1>2, <2>1
<1>7. ~(q[2] < r[2])
  <2> SUFFICES ASSUME q[2] < r[2] PROVE FALSE
    OBVIOUS
  <2>1. q[2] + 1 \in (r[1] + 1)..r[2] /\ q[2] < Horizon /\ (q[2] + 1) - 1 = q[2]
    BY <1>1, <1>2, <1>3, Sizes
  <2> QED BY <1>1, <1>2, <2>1
<1>8. r[1] = q[1] /\ r[2] = q[2]
  BY <1>1, <1>2, <1>4, <1>5, <1>6, <1>7
<1> QED BY <1>1, <1>2, <1>8

\* To agree is an equivalence, and what is joined agrees.
LEMMA Agreement ==
  /\ \A a : Agrees(a, a)
  /\ \A a, b : Agrees(a, b) => Agrees(b, a)
  /\ \A a, b, c : Agrees(a, b) /\ Agrees(b, c) => Agrees(a, c)
  /\ \A a, b : Joins(a, b) => Agrees(a, b)
BY DEF Agrees, Joins, IsHold

\* All of a run agrees.
LEMMA RunAgrees ==
  ASSUME NEW p, IsPlan(p), NEW r \in Runs(p), NEW i \in Int, NEW j \in Int, InRun(i, r), InRun(j, r)
  PROVE  Agrees(p[i], p[j])
<1>1. /\ r[1] \in 1..Horizon /\ r[2] \in 1..Horizon /\ r[1] <= r[2]
      /\ \A k \in (r[1] + 1)..r[2] : Joins(p[k - 1], p[k])
  BY RunBounds
<1> DEFINE T == {k \in r[1]..r[2] : ~Agrees(p[r[1]], p[k])}
<1>2. T = {}
  <2> SUFFICES ASSUME T # {} PROVE FALSE
    OBVIOUS
  <2>1. T \subseteq Nat
    BY <1>1
  <2>2. PICK x \in T : \A y \in T : x <= y
    <3> HIDE DEF T
    <3> QED BY <2>1, LeastOf
  <2>3. x # r[1]
    BY <2>2, Agreement
  <2>4. x \in (r[1] + 1)..r[2] /\ x - 1 \in r[1]..r[2] /\ x - 1 < x
    BY <1>1, <2>2, <2>3
  <2>5. Agrees(p[r[1]], p[x - 1])
    BY <1>1, <2>2, <2>4
  <2>6. Agrees(p[x - 1], p[x])
    BY <1>1, <2>4, Agreement
  <2>7. Agrees(p[r[1]], p[x])
    BY <2>5, <2>6, Agreement
  <2> QED BY <2>2, <2>7
<1>3. i \in r[1]..r[2] /\ j \in r[1]..r[2]
  BY <1>1 DEF InRun
<1>4. Agrees(p[r[1]], p[i]) /\ Agrees(p[r[1]], p[j])
  BY <1>2, <1>3
<1> QED BY <1>4, Agreement

\* The key of a merged window is that of one of its half hours.
LEMMA HighestOf ==
  ASSUME NEW p, IsPlan(p), NEW r \in Runs(p)
  PROVE  \E i \in r[1]..r[2] : Highest(p, r) = p[i]
<1>1. r[1] \in 1..Horizon /\ r[2] \in 1..Horizon /\ r[1] <= r[2]
  BY RunBounds
<1>2. \A i \in r[1]..r[2] : p[i] \in Keys /\ p[i].fd \in Nat
  <2>1. \A i \in r[1]..r[2] : i \in 1..Horizon
    BY <1>1, Sizes
  <2>2. \A k \in Keys : k.fd \in Nat
    BY ShapeAssumption
  <2> QED BY <2>1, <2>2 DEF IsPlan
<1> DEFINE Peak(b) == \E i \in r[1]..b : \A j \in r[1]..b : p[j].fd <= p[i].fd
           T == {b \in r[1]..r[2] : ~Peak(b)}
<1>3. T = {}
  <2> SUFFICES ASSUME T # {} PROVE FALSE
    OBVIOUS
  <2>1. T \subseteq Nat
    BY <1>1
  <2>2. PICK x \in T : \A y \in T : x <= y
    <3> HIDE DEF T
    <3> QED BY <2>1, LeastOf
  <2>3. x # r[1]
    <3>1. r[1] \in r[1]..r[1] /\ \A j \in r[1]..r[1] : j = r[1]
      BY <1>1
    <3>2. p[r[1]].fd <= p[r[1]].fd
      BY <1>1, <1>2
    <3>3. Peak(r[1])
      BY <3>1, <3>2
    <3> QED BY <2>2, <3>3
  <2>4. x \in r[1]..r[2] /\ x - 1 \in r[1]..r[2] /\ x - 1 < x
    BY <1>1, <2>2, <2>3
  <2>5. Peak(x - 1)
    BY <1>1, <2>2, <2>4
  <2>6. PICK i \in r[1]..(x - 1) : \A j \in r[1]..(x - 1) : p[j].fd <= p[i].fd
    BY <2>5
  <2>7. i \in r[1]..x /\ x \in r[1]..x /\ i \in r[1]..r[2]
        /\ \A j \in r[1]..x : j = x \/ j \in r[1]..(x - 1)
    BY <1>1, <2>4, <2>6
  <2>8. CASE p[x].fd <= p[i].fd
    BY <2>2, <2>6, <2>7, <2>8
  <2>9. CASE ~(p[x].fd <= p[i].fd)
    <3>1. \A j \in r[1]..x : j \in r[1]..r[2]
      BY <1>1, <2>4
    <3>2. \A j \in r[1]..x : p[j].fd <= p[x].fd
      <4> TAKE j \in r[1]..x
      <4>1. p[j].fd \in Nat /\ p[x].fd \in Nat /\ p[i].fd \in Nat
        BY <1>2, <2>4, <2>7, <3>1
      <4>2. j = x \/ p[j].fd <= p[i].fd
        BY <2>6, <2>7
      <4> QED BY <2>9, <4>1, <4>2
    <3> QED BY <2>2, <2>7, <3>2
  <2> QED BY <2>8, <2>9
<1>4. r[2] \in r[1]..r[2]
  BY <1>1
<1>5. Peak(r[2])
  BY <1>3, <1>4
<1>6. \E k \in {p[i] : i \in r[1]..r[2]} : \A i \in r[1]..r[2] : p[i].fd <= k.fd
  BY <1>5
<1> HIDE DEF Peak, T
<1>7. Highest(p, r) \in {p[i] : i \in r[1]..r[2]}
  BY <1>6 DEF Highest
<1> QED BY <1>7

\* The half hours of a window.
InWindow(s, w) == w.from <= s /\ s < w.to

\* A window lies within the plan and agrees with all its half hours.
LEMMA WindowShape ==
  ASSUME NEW f \in Nat, NEW p, IsPlan(p), NEW w \in Windows(f, p)
  PROVE  /\ w.from \in Nat /\ w.to \in Nat /\ f <= w.from /\ w.from < w.to /\ w.to <= f + Horizon
         /\ w.key \in Keys
         /\ \A s \in Int : InWindow(s, w) =>
              s - f + 1 \in 1..Horizon /\ Agrees(w.key, p[s - f + 1])
<1>1. PICK r \in Runs(p) : w = [from |-> f + r[1] - 1, to |-> f + r[2], key |-> Highest(p, r)]
  BY DEF Windows
<1>2. r[1] \in 1..Horizon /\ r[2] \in 1..Horizon /\ r[1] <= r[2]
  BY RunBounds
<1>3. PICK h \in r[1]..r[2] : Highest(p, r) = p[h]
  BY HighestOf
<1>4. w.from = f + r[1] - 1 /\ w.to = f + r[2] /\ w.key = p[h]
  BY <1>1, <1>3
<1>5. w.from \in Nat /\ w.to \in Nat /\ f <= w.from /\ w.from < w.to /\ w.to <= f + Horizon
  BY <1>2, <1>4, Sizes
<1>6. h \in 1..Horizon /\ InRun(h, r)
  BY <1>2, Sizes DEF InRun
<1>7. w.key \in Keys
  BY <1>4, <1>6 DEF IsPlan
<1>8. ASSUME NEW s \in Int, InWindow(s, w)
      PROVE  s - f + 1 \in 1..Horizon /\ Agrees(w.key, p[s - f + 1])
  <2>1. InRun(s - f + 1, r) /\ s - f + 1 \in 1..Horizon
    BY <1>2, <1>4, <1>8, Sizes DEF InWindow, InRun
  <2>2. Agrees(p[h], p[s - f + 1])
    BY <1>6, <2>1, RunAgrees
  <2> QED BY <1>4, <2>1, <2>2
<1> QED BY <1>5, <1>7, <1>8

\* Every half hour of the plan is in a window.
LEMMA WindowOf ==
  ASSUME NEW f \in Nat, NEW p, IsPlan(p), NEW s \in f..(f + Horizon - 1)
  PROVE  \E w \in Windows(f, p) : InWindow(s, w)
<1>1. s - f + 1 \in 1..Horizon
  BY Sizes
<1>2. PICK r \in Runs(p) : InRun(s - f + 1, r)
  BY <1>1, RunOf
<1>3. r[1] \in 1..Horizon /\ r[2] \in 1..Horizon
  BY RunBounds
<1> DEFINE w == [from |-> f + r[1] - 1, to |-> f + r[2], key |-> Highest(p, r)]
<1>4. w \in Windows(f, p)
  BY DEF Windows
<1>5. InWindow(s, w)
  BY <1>2, <1>3, Sizes DEF InWindow, InRun
<1> QED BY <1>4, <1>5

\* And in one only.
LEMMA WindowUnique ==
  ASSUME NEW f \in Nat, NEW p, IsPlan(p), NEW v \in Windows(f, p), NEW w \in Windows(f, p),
         NEW s \in Int, InWindow(s, v), InWindow(s, w)
  PROVE  v = w
<1>1. PICK r \in Runs(p) : v = [from |-> f + r[1] - 1, to |-> f + r[2], key |-> Highest(p, r)]
  BY DEF Windows
<1>2. PICK q \in Runs(p) : w = [from |-> f + q[1] - 1, to |-> f + q[2], key |-> Highest(p, q)]
  BY DEF Windows
<1>3. r[1] \in 1..Horizon /\ r[2] \in 1..Horizon /\ q[1] \in 1..Horizon /\ q[2] \in 1..Horizon
  BY RunBounds
<1>4. v.from = f + r[1] - 1 /\ v.to = f + r[2] /\ w.from = f + q[1] - 1 /\ w.to = f + q[2]
  BY <1>1, <1>2
<1>5. s - f + 1 \in Int /\ InRun(s - f + 1, r)
  BY <1>3, <1>4, Sizes DEF InWindow, InRun
<1>6. InRun(s - f + 1, q)
  BY <1>3, <1>4, Sizes DEF InWindow, InRun
<1>7. r = q
  BY <1>5, <1>6, RunUnique
<1> QED BY <1>1, <1>2, <1>7

\* Of two windows one ends before the other begins.
LEMMA WindowsApart ==
  ASSUME NEW f \in Nat, NEW p, IsPlan(p), NEW v \in Windows(f, p), NEW w \in Windows(f, p),
         v.from <= w.from
  PROVE  v = w \/ v.to <= w.from
<1>1. v.from \in Nat /\ v.to \in Nat /\ w.from \in Nat /\ w.to \in Nat /\ w.from < w.to
  BY WindowShape
<1>2. w.from < v.to => InWindow(w.from, v) /\ InWindow(w.from, w)
  BY <1>1 DEF InWindow
<1>3. w.from < v.to => v = w
  BY <1>1, <1>2, WindowUnique
<1> QED BY <1>1, <1>3

\* What is made of each member of a finite set is not more than the set.
LEMMA ImageSize ==
  ASSUME NEW S, IsFiniteSet(S), NEW g, NEW T, T = {g[x] : x \in S}, g = [x \in S |-> g[x]]
  PROVE  IsFiniteSet(T) /\ Cardinality(T) <= Cardinality(S)
<1>1. g \in Surjection(S, T)
  BY DEF Surjection
<1> QED BY <1>1, FS_Surjection

\* There are finitely many windows.
LEMMA WindowsFinite ==
  ASSUME NEW f \in Nat, NEW p, IsPlan(p)
  PROVE  IsFiniteSet(Windows(f, p))
<1>1. IsFiniteSet((1..Horizon) \X (1..Horizon))
  <2>1. IsFiniteSet(1..Horizon)
    BY Sizes, FS_Interval
  <2> QED BY <2>1, FS_Product
<1>2. Runs(p) \subseteq (1..Horizon) \X (1..Horizon)
  BY DEF Runs, IsPlan
<1>3. IsFiniteSet(Runs(p))
  BY <1>1, <1>2, FS_Subset
<1> DEFINE R == Runs(p)
           g == [r \in R |-> [from |-> f + r[1] - 1, to |-> f + r[2], key |-> Highest(p, r)]]
<1>4. Windows(f, p) = {g[r] : r \in R}
  BY DEF Windows
<1>5. g = [r \in R |-> g[r]]
  OBVIOUS
<1> HIDE DEF g, R
<1>6. IsFiniteSet(R)
  BY <1>3 DEF R
<1> QED BY <1>4, <1>5, <1>6, ImageSize

\* The windows that are left after the elision.
LEMMA ElidedOf ==
  ASSUME NEW f \in Nat, NEW p, IsPlan(p)
  PROVE  /\ Elided(Windows(f, p)) \subseteq Windows(f, p) /\ Elided(Windows(f, p)) # {}
         /\ IsFiniteSet(Elided(Windows(f, p)))
         /\ \A w \in Windows(f, p) : w.key.mode # "SelfUse" => w \in Elided(Windows(f, p))
<1> DEFINE W == Windows(f, p)
           A == {w \in W : w.key.mode # "SelfUse"}
           T == {w.from : w \in W}
<1>1. T \subseteq Nat
  BY WindowShape
<1>2. W # {}
  <2>1. f \in f..(f + Horizon - 1)
    BY Sizes
  <2> QED BY <2>1, WindowOf
<1>3. PICK x \in T : \A y \in T : x <= y
  <2>1. T # {}
    BY <1>2
  <2> HIDE DEF T
  <2> QED BY <1>1, <2>1, LeastOf
<1>4. \E w \in W : \A v \in W : w.from <= v.from
  BY <1>3
<1> HIDE DEF W, T
<1>5. First(W) \in W
  BY <1>4 DEF First
<1>6. Elided(W) = IF A = {} THEN {First(W)} ELSE A
  BY DEF Elided
<1>7. Elided(W) \subseteq W /\ Elided(W) # {} /\ \A w \in W : w.key.mode # "SelfUse" => w \in Elided(W)
  BY <1>5, <1>6
<1>8. IsFiniteSet(Elided(W))
  <2>1. IsFiniteSet(W)
    BY WindowsFinite DEF W
  <2> QED BY <1>7, <2>1, FS_Subset
<1> QED BY <1>7, <1>8 DEF W

\* More windows cost more groups.
LEMMA CostMonotone ==
  ASSUME NEW L, IsFiniteSet(L), NEW K, K \subseteq L
  PROVE  /\ Cost(K) \in Nat /\ Cost(L) \in Nat /\ Cost(K) <= Cost(L)
         /\ IsFiniteSet(K) /\ IsFiniteSet({w \in K : Crosses(w)})
         /\ Cardinality(K) \in Nat /\ Cardinality({w \in K : Crosses(w)}) \in Nat
<1> DEFINE C == {w \in K : Crosses(w)}
           D == {w \in L : Crosses(w)}
<1>1. IsFiniteSet(K) /\ Cardinality(K) <= Cardinality(L)
  BY FS_Subset
<1>2. IsFiniteSet(D)
  <2>1. D \subseteq L
    OBVIOUS
  <2> HIDE DEF D
  <2> QED BY <2>1, FS_Subset
<1>3. IsFiniteSet(C) /\ Cardinality(C) <= Cardinality(D)
  <2>1. C \subseteq D
    OBVIOUS
  <2> HIDE DEF C, D
  <2> QED BY <1>2, <2>1, FS_Subset
<1>4. Cost(K) = Cardinality(K) + Cardinality(C) /\ Cost(L) = Cardinality(L) + Cardinality(D)
  BY DEF Cost
<1> HIDE DEF C, D
<1>5. Cardinality(K) \in Nat /\ Cardinality(L) \in Nat /\ Cardinality(C) \in Nat /\ Cardinality(D) \in Nat
  BY <1>1, <1>2, <1>3, FS_CardinalityType
<1>6. Cost(K) \in Nat /\ Cost(L) \in Nat /\ Cost(K) <= Cost(L)
  BY <1>1, <1>3, <1>4, <1>5
<1> QED BY <1>1, <1>3, <1>5, <1>6 DEF C

\* The windows that are sent: the first ones, one at least, within the cap.
LEMMA KeptOf ==
  ASSUME NEW f \in Nat, NEW p, IsPlan(p), NEW E, E = Elided(Windows(f, p))
  PROVE  /\ Kept(E) \subseteq E /\ Kept(E) # {} /\ Kept(E) \subseteq Windows(f, p)
         /\ IsFiniteSet(Kept(E)) /\ Cost(Kept(E)) <= Cap
         /\ \A w \in Kept(E) : \A v \in E : v.from <= w.from => v \in Kept(E)
<1> DEFINE Upto(w) == {v \in E : v.from <= w.from}
<1>1. E \subseteq Windows(f, p) /\ E # {} /\ IsFiniteSet(E)
  BY ElidedOf
<1>2. \A w \in E : w.from \in Nat /\ w.from \in 0..(f + Horizon) /\ w.to \in Nat /\ w.from < w.to
  <2> TAKE w \in E
  <2>1. w.from \in Nat /\ w.to \in Nat /\ w.from < w.to /\ w.to <= f + Horizon
    BY <1>1, WindowShape
  <2> QED BY <2>1, Sizes
<1>3. \A w \in E : IsFiniteSet(Upto(w)) /\ Cost(Upto(w)) \in Nat
  <2> TAKE w \in E
  <2>1. Upto(w) \subseteq E
    OBVIOUS
  <2> HIDE DEF Upto
  <2> QED BY <1>1, <2>1, CostMonotone
<1>4. Kept(E) = {w \in E : Cost(Upto(w)) <= Cap}
  BY DEF Kept
<1>5. Cap \in Nat /\ Cap > 1
  BY ShapeAssumption
<1>6. ASSUME NEW w \in Kept(E), NEW v \in E, v.from <= w.from
      PROVE  v \in Kept(E)
  <2>1. w \in E /\ Cost(Upto(w)) <= Cap
    BY <1>4
  <2>2. Upto(v) \subseteq Upto(w)
    BY <1>2, <1>6, <2>1
  <2>3. IsFiniteSet(Upto(w)) /\ Cost(Upto(w)) \in Nat
    BY <1>3, <2>1
  <2> HIDE DEF Upto
  <2>4. Cost(Upto(v)) \in Nat /\ Cost(Upto(v)) <= Cost(Upto(w))
    BY <2>2, <2>3, CostMonotone
  <2>5. Cost(Upto(v)) <= Cap
    BY <1>5, <2>1, <2>3, <2>4
  <2> QED BY <1>4, <2>5
<1>7. Kept(E) # {}
  <2> DEFINE T == {w.from : w \in E}
  <2>1. T \subseteq Nat /\ T # {}
    BY <1>1, <1>2
  <2>2. PICK x \in T : \A y \in T : x <= y
    <3> HIDE DEF T
    <3> QED BY <2>1, LeastOf
  <2>3. PICK w \in E : \A v \in E : w.from <= v.from
    BY <2>2
  <2>4. Upto(w) \subseteq {w}
    <3> SUFFICES ASSUME NEW v \in Upto(w) PROVE v = w
      OBVIOUS
    <3>1. v \in E /\ v.from <= w.from /\ w.from <= v.from
      BY <2>3
    <3>2. v = w \/ v.to <= w.from
      BY <1>1, <3>1, WindowsApart
    <3>3. v.from \in Nat /\ v.to \in Nat /\ w.from \in Nat /\ v.from < v.to
      BY <1>2, <3>1
    <3> QED BY <3>1, <3>2, <3>3
  <2> DEFINE C == {v \in {w} : Crosses(v)}
  <2>5. IsFiniteSet({w}) /\ Cardinality({w}) = 1
    BY FS_Singleton
  <2>6. C \subseteq {w}
    OBVIOUS
  <2>7. Cost({w}) = 1 + Cardinality(C)
    BY <2>5 DEF Cost
  <2> HIDE DEF C, Upto
  <2>8. Cardinality(C) <= 1 /\ Cardinality(C) \in Nat
    <3>1. IsFiniteSet(C) /\ Cardinality(C) <= Cardinality({w})
      BY <2>5, <2>6, FS_Subset
    <3> QED BY <2>5, <3>1, FS_CardinalityType
  <2>9. Cost(Upto(w)) <= Cost({w}) /\ Cost(Upto(w)) \in Nat
    BY <2>4, <2>5, CostMonotone
  <2>10. Cost(Upto(w)) <= Cap
    BY <1>5, <2>7, <2>8, <2>9
  <2> QED BY <1>4, <2>10
<1>8. Cost(Kept(E)) <= Cap
  <2> DEFINE T == {w.from : w \in Kept(E)}
  <2>1. T \subseteq 0..(f + Horizon) /\ T # {} /\ f + Horizon \in Nat
    <3>1. \A w \in Kept(E) : w.from \in 0..(f + Horizon)
      BY <1>2, <1>4
    <3>2. f + Horizon \in Nat
      BY Sizes
    <3> QED BY <1>7, <3>1, <3>2
  <2>2. PICK x \in T : \A y \in T : y <= x
    <3> HIDE DEF T
    <3> QED BY <2>1, GreatestOf
  <2>3. PICK w \in Kept(E) : \A v \in Kept(E) : v.from <= w.from
    BY <2>2
  <2>4. w \in E /\ Cost(Upto(w)) <= Cap
    BY <1>4
  <2>5. Kept(E) \subseteq Upto(w)
    BY <1>4, <2>3
  <2>6. IsFiniteSet(Upto(w)) /\ Cost(Upto(w)) \in Nat
    BY <1>3, <2>4
  <2> HIDE DEF Upto
  <2>7. Cost(Kept(E)) \in Nat /\ Cost(Kept(E)) <= Cost(Upto(w))
    BY <2>5, <2>6, CostMonotone
  <2> QED BY <1>5, <2>4, <2>6, <2>7
<1>9. Kept(E) \subseteq E
  BY <1>4
<1>10. IsFiniteSet(Kept(E))
  BY <1>1, <1>9, FS_Subset
<1> QED BY <1>1, <1>6, <1>7, <1>8, <1>9, <1>10

\* The groups reach beyond the plan's beginning and not beyond its end, and every window
\* that is not self use and begins before that is sent.
LEMMA ReplanAtOf ==
  ASSUME NEW f \in Nat, NEW p, IsPlan(p)
  PROVE  /\ ReplanAt(f, p) \in Nat /\ f < ReplanAt(f, p) /\ ReplanAt(f, p) <= f + Horizon
         /\ \A w \in Windows(f, p) :
              w.key.mode # "SelfUse" /\ w.from < ReplanAt(f, p) => w \in Kept(Elided(Windows(f, p)))
<1> DEFINE E == Elided(Windows(f, p))
           K == Kept(E)
           T == {w.to : w \in K}
<1>1. /\ K \subseteq E /\ K # {} /\ K \subseteq Windows(f, p)
      /\ \A w \in K : \A v \in E : v.from <= w.from => v \in K
  BY KeptOf
<1>2. \A w \in Windows(f, p) : w.key.mode # "SelfUse" => w \in E
  BY ElidedOf
<1>3. \A w \in Windows(f, p) : w.from \in Nat /\ w.to \in Nat /\ f <= w.from /\ w.from < w.to /\ w.to <= f + Horizon
  BY WindowShape
<1>4. Len(p) = Horizon
  BY DEF IsPlan
<1>5. ReplanAt(f, p) = IF K = E THEN f + Len(p) ELSE CHOOSE t \in T : \A w \in K : w.to <= t
  BY DEF ReplanAt
<1> HIDE DEF E, K
<1>6. CASE K = E
  <2>1. ReplanAt(f, p) = f + Horizon
    BY <1>4, <1>5, <1>6
  <2>2. ReplanAt(f, p) \in Nat /\ f < ReplanAt(f, p) /\ ReplanAt(f, p) <= f + Horizon
    BY <2>1, Sizes
  <2>3. \A w \in Windows(f, p) : w.key.mode # "SelfUse" => w \in K
    BY <1>2, <1>6
  <2> QED BY <2>2, <2>3 DEF K, E
<1>7. CASE K # E
  <2>1. T \subseteq 0..(f + Horizon) /\ T # {} /\ f + Horizon \in Nat
    BY <1>1, <1>3, Sizes
  <2>2. PICK x \in T : \A y \in T : y <= x
    <3> HIDE DEF T
    <3> QED BY <2>1, GreatestOf
  <2>3. \E t \in T : \A w \in K : w.to <= t
    BY <2>2
  <2> DEFINE t == ReplanAt(f, p)
  <2>4. t \in T /\ \A w \in K : w.to <= t
    BY <1>5, <1>7, <2>3
  <2>5. PICK w \in K : t = w.to
    BY <2>4
  <2> HIDE DEF t, T
  <2>6. t \in Nat /\ f < t /\ t <= f + Horizon
    BY <1>1, <1>3, <2>5
  <2>7. ASSUME NEW v \in Windows(f, p), v.key.mode # "SelfUse", v.from < t
        PROVE  v \in K
    <3>1. v \in E
      BY <1>2, <2>7
    <3>2. v.from <= w.from => v \in K
      BY <1>1, <3>1
    <3>3. w.from <= v.from => v = w \/ w.to <= v.from
      BY <1>1, WindowsApart
    <3>4. v.from \in Nat /\ w.from \in Nat /\ w.to \in Nat
      BY <1>1, <1>3
    <3> QED BY <2>5, <2>7, <3>2, <3>3, <3>4
  <2> QED BY <2>6, <2>7 DEF t, K, E
<1> QED BY <1>6, <1>7

----------------------------------------------------------------------------
(* The groups of a plan *)

\* A window becomes the group of a piece of a day or, across midnight, those of two.
LEMMA SplitShape ==
  ASSUME NEW f \in Nat, NEW p, IsPlan(p), NEW w \in Windows(f, p)
  PROVE  \/ /\ ~Crosses(w) /\ Piece(w.from, w.to)
            /\ Split(w) = {GroupOf(w.from, w.to, w.key)}
         \/ /\ Crosses(w)
            /\ \E n \in Nat : /\ n = (w.from \div Slots + 1) * Slots
                              /\ w.from < n /\ n < w.to /\ Piece(w.from, n) /\ Piece(n, w.to)
                              /\ Split(w) = {GroupOf(w.from, n, w.key), GroupOf(n, w.to, w.key)}
<1> DEFINE x == w.from
           z == w.to - 1
           q == x \div Slots
           c == z \div Slots
           n == (q + 1) * Slots
<1>1. x \in Nat /\ z \in Nat /\ x <= z /\ z - x < Slots /\ w.to = z + 1 /\ w.to \in Nat /\ x < w.to
  <2>1. w.from \in Nat /\ w.to \in Nat /\ f <= w.from /\ w.from < w.to /\ w.to <= f + Horizon
    BY WindowShape
  <2> QED BY <2>1, Sizes
<1>2. q \in Nat /\ x % Slots \in 0..(Slots - 1) /\ x = q * Slots + (x % Slots)
  BY <1>1, Sizes, Division
<1>3. c \in Nat /\ z % Slots \in 0..(Slots - 1) /\ z = c * Slots + (z % Slots)
  <2>1. z \in Int /\ z >= 0 /\ Slots \in Nat /\ Slots > 0
    BY <1>1, Sizes
  <2> QED BY <2>1, Division
<1>4. Crosses(w) <=> q # c
  BY DEF Crosses
<1>5. Split(w) = IF Crosses(w) THEN {GroupOf(x, n, w.key), GroupOf(n, w.to, w.key)}
                 ELSE {GroupOf(x, w.to, w.key)}
  BY DEF Split
<1>6. CASE q = c
  <2>1. Piece(x, w.to)
    BY <1>1, <1>6 DEF Piece
  <2> QED BY <1>4, <1>5, <1>6, <2>1
<1>7. CASE q # c
  <2> HIDE DEF x, z
  <2>1. q * Slots \in Nat /\ c * Slots \in Nat /\ n \in Nat /\ n = q * Slots + Slots
    BY <1>2, <1>3, Sizes
  <2> HIDE DEF n, q, c
  <2>2. ~(c < q)
    <3>1. c < q => c * Slots + Slots <= q * Slots
      BY <1>2, <1>3, Sizes, Multiples
    <3> QED BY <1>1, <1>2, <1>3, <2>1, <3>1, Sizes
  <2>3. ~(q + 1 < c)
    <3>1. q + 1 < c => (q + 1) * Slots + Slots <= c * Slots
      BY <1>2, <1>3, Sizes, Multiples
    <3>2. (q + 1) * Slots = q * Slots + Slots
      BY <1>2, Sizes
    <3> QED BY <1>1, <1>2, <1>3, <2>1, <3>1, <3>2, Sizes
  <2>4. c = q + 1
    BY <1>2, <1>3, <1>7, <2>2, <2>3
  <2>5. c * Slots = n
    <3>1. (q + 1) * Slots = q * Slots + Slots
      BY <1>2, Sizes
    <3> QED BY <2>1, <2>4, <3>1
  <2>6. x < n /\ n <= z
    BY <1>1, <1>2, <1>3, <2>1, <2>5, Sizes
  <2>7. n < w.to
    BY <1>1, <2>1, <2>6
  <2>8. (n - 1) \div Slots = q
    <3>1. n - 1 = q * Slots + (Slots - 1) /\ Slots - 1 \in 0..(Slots - 1)
      BY <2>1, Sizes
    <3>2. (q * Slots + (Slots - 1)) \div Slots = q
      <4>1. q \in Int /\ Slots \in Nat /\ Slots > 0
        BY <1>2, Sizes
      <4> QED BY <3>1, <4>1, DivisionUnique
    <3> QED BY <3>1, <3>2
  <2>9. n \div Slots = c
    <3>1. (c * Slots + 0) \div Slots = c
      BY <1>3, Sizes, DivisionUnique
    <3> QED BY <2>1, <2>5, <3>1
  <2>10. x \div Slots = q /\ z \div Slots = c /\ (q + 1) * Slots = n
    BY DEF n, q, c
  <2>11. Piece(x, n)
    BY <1>1, <2>1, <2>6, <2>8, <2>10 DEF Piece
  <2>12. w.to - 1 = z
    BY <1>1
  <2>13. Piece(n, w.to)
    BY <1>1, <2>1, <2>7, <2>9, <2>10, <2>12 DEF Piece
  <2>14. Crosses(w) /\ Split(w) = {GroupOf(x, n, w.key), GroupOf(n, w.to, w.key)}
    BY <1>4, <1>5, <1>7
  <2>15. x = w.from /\ n = (w.from \div Slots + 1) * Slots
    BY DEF n, q, x
  <2> QED BY <2>1, <2>6, <2>7, <2>11, <2>13, <2>14, <2>15
<1> QED BY <1>6, <1>7

\* The group g is that of the half hours [x, y) of the window w.
Part(g, w, x, y) ==
  Piece(x, y) /\ w.from <= x /\ y <= w.to /\ g = GroupOf(x, y, w.key)

\* The parts of a window are disjoint, and all of it.
LEMMA SplitParts ==
  ASSUME NEW f \in Nat, NEW p, IsPlan(p), NEW w \in Windows(f, p)
  PROVE  /\ \A g \in Split(w) : \E x, y \in Nat : Part(g, w, x, y)
         /\ \A s \in Int : InWindow(s, w) =>
              \E g \in Split(w) : \E x, y \in Nat : Part(g, w, x, y) /\ x <= s /\ s < y
         /\ \A g, h \in Split(w) : g # h =>
              \E x, y, v, z \in Nat : /\ Part(g, w, x, y) /\ Part(h, w, v, z)
                                      /\ y <= v \/ z <= x
<1>1. w.from \in Nat /\ w.to \in Nat
  BY WindowShape
<1>2. CASE Piece(w.from, w.to) /\ Split(w) = {GroupOf(w.from, w.to, w.key)}
  <2>1. Part(GroupOf(w.from, w.to, w.key), w, w.from, w.to)
    BY <1>1, <1>2 DEF Part
  <2>2. \A g \in Split(w) : g = GroupOf(w.from, w.to, w.key)
    BY <1>2
  <2>3. \A s \in Int : InWindow(s, w) => w.from <= s /\ s < w.to
    BY DEF InWindow
  <2> QED BY <1>1, <1>2, <2>1, <2>2, <2>3
<1>3. ASSUME NEW n \in Nat, w.from < n, n < w.to, Piece(w.from, n), Piece(n, w.to),
             Split(w) = {GroupOf(w.from, n, w.key), GroupOf(n, w.to, w.key)}
      PROVE  /\ \A g \in Split(w) : \E x, y \in Nat : Part(g, w, x, y)
             /\ \A s \in Int : InWindow(s, w) =>
                  \E g \in Split(w) : \E x, y \in Nat : Part(g, w, x, y) /\ x <= s /\ s < y
             /\ \A g, h \in Split(w) : g # h =>
                  \E x, y, v, z \in Nat : /\ Part(g, w, x, y) /\ Part(h, w, v, z)
                                          /\ y <= v \/ z <= x
  <2> DEFINE a == GroupOf(w.from, n, w.key)
             b == GroupOf(n, w.to, w.key)
  <2>1. w.from <= w.from /\ n <= w.to /\ w.from <= n /\ w.to <= w.to /\ n <= n
    BY <1>1, <1>3
  <2>2. Part(a, w, w.from, n) /\ Part(b, w, n, w.to)
    BY <1>3, <2>1 DEF Part
  <2>3. Split(w) = {a, b}
    BY <1>3
  <2> HIDE DEF a, b
  <2>4. \A g \in Split(w) : \E x, y \in Nat : Part(g, w, x, y)
    BY <1>1, <2>2, <2>3
  <2>5. ASSUME NEW s \in Int, InWindow(s, w)
        PROVE  \E g \in Split(w) : \E x, y \in Nat : Part(g, w, x, y) /\ x <= s /\ s < y
    <3>1. (w.from <= s /\ s < n) \/ (n <= s /\ s < w.to)
      BY <1>1, <2>5 DEF InWindow
    <3> QED BY <1>1, <2>2, <2>3, <3>1
  <2>6. ASSUME NEW g \in Split(w), NEW h \in Split(w), g # h
        PROVE  \E x, y, v, z \in Nat : /\ Part(g, w, x, y) /\ Part(h, w, v, z)
                                       /\ y <= v \/ z <= x
    <3>1. (g = a /\ h = b) \/ (g = b /\ h = a)
      BY <2>3, <2>6
    <3>2. CASE g = a /\ h = b
      <4>1. Part(g, w, w.from, n) /\ Part(h, w, n, w.to)
        BY <2>2, <3>2
      <4> QED BY <1>1, <2>1, <4>1
    <3>3. CASE g = b /\ h = a
      <4>1. Part(g, w, n, w.to) /\ Part(h, w, w.from, n)
        BY <2>2, <3>3
      <4> QED BY <1>1, <2>1, <4>1
    <3> QED BY <3>1, <3>2, <3>3
  <2> QED BY <2>4, <2>5, <2>6
<1> QED BY <1>2, <1>3, SplitShape

\* A group of the plan comes from a window that is sent.
LEMMA GroupMember ==
  ASSUME NEW f \in Nat, NEW p, IsPlan(p)
  PROVE  /\ \A g \in BuildGroups(f, p) :
              \E w \in Windows(f, p) : w \in Kept(Elided(Windows(f, p))) /\ g \in Split(w)
         /\ \A w \in Kept(Elided(Windows(f, p))) : Split(w) \subseteq BuildGroups(f, p)
<1>1. Kept(Elided(Windows(f, p))) \subseteq Windows(f, p)
  BY KeptOf
<1> QED BY <1>1 DEF BuildGroups

\* The half hours of a part are of its window, and of the plan.
LEMMA PartHours ==
  ASSUME NEW f \in Nat, NEW p, IsPlan(p), NEW w \in Windows(f, p), NEW g, NEW x \in Nat, NEW y \in Nat,
         Part(g, w, x, y), NEW s \in x..(y - 1)
  PROVE  s \in Int /\ InWindow(s, w) /\ s \in f..(f + Horizon - 1)
<1>1. w.from \in Nat /\ w.to \in Nat /\ f <= w.from /\ w.to <= f + Horizon
  BY WindowShape
<1>2. w.from <= x /\ y <= w.to
  BY DEF Part
<1> QED BY <1>1, <1>2, Sizes DEF InWindow

\* Half hours of one plan that the clock does not tell apart are the same.
LEMMA SameHour ==
  ASSUME NEW f \in Nat, NEW s \in f..(f + Horizon - 1), NEW t \in f..(f + Horizon - 1),
         s % Slots = t % Slots
  PROVE  s = t
<1>1. s \in Int /\ t \in Int /\ Slots \in Nat /\ Slots > 0
  BY Sizes
<1>2. s - t < Slots /\ t - s < Slots
  BY Sizes
<1> QED BY <1>1, <1>2, Cyclic

\* A group of the plan covers the half hours of its window, and each half hour of a window
\* that is sent is covered.
LEMMA BuildCovers ==
  ASSUME NEW f \in Nat, NEW p, IsPlan(p), NEW m \in 0..(Day - 1)
  PROVE  /\ \A g \in BuildGroups(f, p) : Covers(g, m) =>
              \E w \in Windows(f, p) : \E s \in f..(f + Horizon - 1) :
                InWindow(s, w) /\ s % Slots = m \div Minutes /\ g.key = w.key
         /\ \A w \in Kept(Elided(Windows(f, p))) : \A s \in Int :
              InWindow(s, w) /\ s % Slots = m \div Minutes =>
                \E g \in BuildGroups(f, p) : Covers(g, m)
         /\ BuildGroups(f, p) \subseteq Groups
<1>1. ASSUME NEW g \in BuildGroups(f, p)
      PROVE  /\ g \in Groups
             /\ Covers(g, m) =>
                  \E w \in Windows(f, p) : \E s \in f..(f + Horizon - 1) :
                    InWindow(s, w) /\ s % Slots = m \div Minutes /\ g.key = w.key
  <2>1. PICK w \in Windows(f, p) : g \in Split(w)
    BY GroupMember
  <2>2. PICK x \in Nat, y \in Nat : Part(g, w, x, y)
    BY <2>1, SplitParts
  <2>3. w.key \in Keys
    BY WindowShape
  <2>4. /\ g \in Groups /\ g.key = w.key
        /\ Covers(g, m) <=> \E s \in x..(y - 1) : s % Slots = m \div Minutes
    BY <2>2, <2>3, PieceCovers DEF Part
  <2>5. \A s \in x..(y - 1) : InWindow(s, w) /\ s \in f..(f + Horizon - 1)
    BY <2>2, PartHours
  <2> QED BY <2>4, <2>5
<1>2. ASSUME NEW w \in Kept(Elided(Windows(f, p))), NEW s \in Int,
             InWindow(s, w), s % Slots = m \div Minutes
      PROVE  \E g \in BuildGroups(f, p) : Covers(g, m)
  <2>1. w \in Windows(f, p) /\ Split(w) \subseteq BuildGroups(f, p)
    BY KeptOf, GroupMember
  <2>2. PICK g \in Split(w) : \E x, y \in Nat : Part(g, w, x, y) /\ x <= s /\ s < y
    BY <1>2, <2>1, SplitParts
  <2>3. PICK x \in Nat, y \in Nat : Part(g, w, x, y) /\ x <= s /\ s < y
    BY <2>2
  <2>4. s \in x..(y - 1)
    BY <2>3
  <2>5. w.key \in Keys
    BY <2>1, WindowShape
  <2>6. Covers(g, m) <=> \E t \in x..(y - 1) : t % Slots = m \div Minutes
    BY <2>3, <2>5, PieceCovers DEF Part
  <2>7. Covers(g, m)
    BY <1>2, <2>4, <2>6
  <2> QED BY <2>1, <2>7
<1>3. BuildGroups(f, p) \subseteq Groups
  BY <1>1
<1> QED BY <1>1, <1>2, <1>3

\* No two groups of a plan overlap.
LEMMA BuildSeparate ==
  ASSUME NEW f \in Nat, NEW p, IsPlan(p)
  PROVE  ~Overlapping(BuildGroups(f, p))
<1> SUFFICES ASSUME NEW g \in BuildGroups(f, p), NEW h \in BuildGroups(f, p), g # h, Overlap(g, h)
             PROVE  FALSE
  BY DEF Overlapping
<1>1. PICK w \in Windows(f, p) : g \in Split(w)
  BY GroupMember
<1>2. PICK u \in Windows(f, p) : h \in Split(u)
  BY GroupMember
<1>3. ASSUME NEW x \in Nat, NEW y \in Nat, NEW v \in Nat, NEW z \in Nat,
             Part(g, w, x, y), Part(h, u, v, z)
      PROVE  \E s \in x..(y - 1) : s \in v..(z - 1) /\ InWindow(s, w) /\ InWindow(s, u)
  <2>1. PICK s \in x..(y - 1), t \in v..(z - 1) : s % Slots = t % Slots
    BY <1>3, PieceOverlap DEF Part
  <2>2. InWindow(s, w) /\ s \in f..(f + Horizon - 1)
    BY <1>3, PartHours
  <2>3. InWindow(t, u) /\ t \in f..(f + Horizon - 1)
    BY <1>3, PartHours
  <2>4. s = t
    BY <2>1, <2>2, <2>3, SameHour
  <2> QED BY <2>2, <2>3, <2>4
<1>4. w = u
  <2>1. PICK x \in Nat, y \in Nat : Part(g, w, x, y)
    BY <1>1, SplitParts
  <2>2. PICK v \in Nat, z \in Nat : Part(h, u, v, z)
    BY <1>2, SplitParts
  <2>3. PICK s \in x..(y - 1) : s \in v..(z - 1) /\ InWindow(s, w) /\ InWindow(s, u)
    BY <1>3, <2>1, <2>2
  <2>4. s \in Int
    BY <2>3
  <2> QED BY <2>3, <2>4, WindowUnique
<1>5. PICK x \in Nat, y \in Nat, v \in Nat, z \in Nat :
        Part(g, w, x, y) /\ Part(h, w, v, z) /\ (y <= v \/ z <= x)
  BY <1>1, <1>2, <1>4, SplitParts
<1>6. PICK s \in x..(y - 1) : s \in v..(z - 1)
  BY <1>3, <1>4, <1>5
<1> QED BY <1>5, <1>6

\* There are no more groups than the inverter takes.
LEMMA BuildSize ==
  ASSUME NEW f \in Nat, NEW p, IsPlan(p)
  PROVE  /\ IsFiniteSet(BuildGroups(f, p)) /\ Cardinality(BuildGroups(f, p)) \in Nat
         /\ Cardinality(BuildGroups(f, p)) <= Cap
<1> DEFINE K == Kept(Elided(Windows(f, p)))
           C == {w \in K : Crosses(w)}
           n(w) == (w.from \div Slots + 1) * Slots
           a == [w \in K |-> IF Crosses(w) THEN GroupOf(w.from, n(w), w.key) ELSE GroupOf(w.from, w.to, w.key)]
           b == [w \in C |-> GroupOf(n(w), w.to, w.key)]
           A == {a[w] : w \in K}
           B == {b[w] : w \in C}
<1>1. K \subseteq Windows(f, p) /\ IsFiniteSet(K) /\ Cost(K) <= Cap
  BY KeptOf
<1>2. \A w \in K : Split(w) \subseteq A \cup B
  BY DEF Split
<1>3. BuildGroups(f, p) \subseteq A \cup B
  BY <1>2 DEF BuildGroups
<1>4. Cost(K) = Cardinality(K) + Cardinality(C)
  BY DEF Cost
<1>5. IsFiniteSet(C) /\ Cardinality(K) \in Nat /\ Cardinality(C) \in Nat
  <2> HIDE DEF K
  <2> QED BY <1>1, CostMonotone
<1>6. a = [w \in K |-> a[w]] /\ b = [w \in C |-> b[w]] /\ A = {a[w] : w \in K} /\ B = {b[w] : w \in C}
  OBVIOUS
<1> HIDE DEF K, C, a, b, A, B
<1>7. IsFiniteSet(A) /\ Cardinality(A) <= Cardinality(K)
  BY <1>1, <1>6, ImageSize
<1>8. IsFiniteSet(B) /\ Cardinality(B) <= Cardinality(C)
  BY <1>5, <1>6, ImageSize
<1>9. /\ IsFiniteSet(A \cup B) /\ IsFiniteSet(A \cap B)
      /\ Cardinality(A \cup B) = Cardinality(A) + Cardinality(B) - Cardinality(A \cap B)
  <2>1. IsFiniteSet(A \cup B) /\ Cardinality(A \cup B) = Cardinality(A) + Cardinality(B) - Cardinality(A \cap B)
    BY <1>7, <1>8, FS_Union
  <2>2. IsFiniteSet(A \cap B)
    BY <1>7, FS_Subset
  <2> QED BY <2>1, <2>2
<1>10. Cardinality(A) \in Nat /\ Cardinality(B) \in Nat /\ Cardinality(A \cap B) \in Nat
  BY <1>7, <1>8, <1>9, FS_CardinalityType
<1>11. /\ IsFiniteSet(BuildGroups(f, p)) /\ Cardinality(BuildGroups(f, p)) <= Cardinality(A \cup B)
  BY <1>3, <1>9, FS_Subset
<1>12. Cardinality(BuildGroups(f, p)) \in Nat
  BY <1>11, FS_CardinalityType
<1>13. Cap \in Nat
  BY ShapeAssumption
<1> QED BY <1>1, <1>4, <1>5, <1>7, <1>8, <1>9, <1>10, <1>11, <1>12, <1>13

----------------------------------------------------------------------------
(* What is played *)

\* To play the groups of a plan, with or without groups that do not cover the minute, is to
\* agree with the plan, up to where the groups reach.
LEMMA PlayingPlan ==
  ASSUME NEW f \in Nat, NEW p, IsPlan(p), NEW m \in 0..(Day - 1),
         NEW s \in f..(ReplanAt(f, p) - 1), m \div Minutes = s % Slots,
         NEW B, \A b \in B : ~Covers(b, m), NEW H, H = BuildGroups(f, p) \cup B
  PROVE  Agrees(Playing(H, m), p[s - f + 1])
<1> DEFINE K == Kept(Elided(Windows(f, p)))
<1>1. ReplanAt(f, p) \in Nat /\ ReplanAt(f, p) <= f + Horizon
  BY ReplanAtOf
<1>2. s \in f..(f + Horizon - 1) /\ s \in Int /\ s < ReplanAt(f, p)
  BY <1>1, Sizes
<1>3. PICK w \in Windows(f, p) : InWindow(s, w)
  BY <1>2, WindowOf
<1>4. Agrees(w.key, p[s - f + 1]) /\ w.from \in Nat
  BY <1>2, <1>3, WindowShape
<1>5. CASE \E g \in H : Covers(g, m)
  <2> DEFINE g == CHOOSE g \in H : Covers(g, m)
  <2>1. g \in H /\ Covers(g, m)
    BY <1>5
  <2>2. Playing(H, m) = g.key
    BY <1>5 DEF Playing
  <2> HIDE DEF g
  <2>3. g \in BuildGroups(f, p)
    BY <2>1
  <2>4. PICK v \in Windows(f, p), t \in f..(f + Horizon - 1) :
          InWindow(t, v) /\ t % Slots = m \div Minutes /\ g.key = v.key
    BY <2>1, <2>3, BuildCovers
  <2>5. t = s
    BY <1>2, <2>4, SameHour
  <2>6. v = w
    BY <1>2, <1>3, <2>4, <2>5, WindowUnique
  <2> QED BY <1>4, <2>2, <2>4, <2>6
<1>6. CASE ~\E g \in H : Covers(g, m)
  <2>1. Playing(H, m) = SelfUse
    BY <1>6 DEF Playing
  <2>2. w.key.mode = "SelfUse"
    <3> SUFFICES ASSUME w.key.mode # "SelfUse" PROVE FALSE
      OBVIOUS
    <3>1. w.from < ReplanAt(f, p)
      BY <1>1, <1>2, <1>3, <1>4 DEF InWindow
    <3>2. w \in K
      BY <3>1, ReplanAtOf
    <3>3. \E g \in BuildGroups(f, p) : Covers(g, m)
      BY <1>2, <1>3, <3>2, BuildCovers
    <3> QED BY <1>6, <3>3
  <2>3. p[s - f + 1].mode = "SelfUse"
    BY <1>4, <2>2 DEF Agrees
  <2> QED BY <2>1, <2>3 DEF Agrees, SelfUse
<1> QED BY <1>5, <1>6

\* What is played is a key.
LEMMA PlayingType ==
  ASSUME NEW H, H \subseteq Groups, NEW m
  PROVE  Playing(H, m) \in Keys
<1>1. \A g \in H : g.key \in Keys
  BY DEF Groups
<1>2. SelfUse \in Keys
  BY ShapeAssumption
<1>3. CASE \E g \in H : Covers(g, m)
  <2> DEFINE g == CHOOSE g \in H : Covers(g, m)
  <2>1. g \in H
    BY <1>3
  <2>2. Playing(H, m) = g.key
    BY <1>3 DEF Playing
  <2> QED BY <1>1, <2>1, <2>2
<1>4. CASE ~\E g \in H : Covers(g, m)
  BY <1>2, <1>4 DEF Playing
<1> QED BY <1>3, <1>4

\* Groups that cover whole half hours.
Whole(H) ==
  \A g \in H : \A m, n \in 0..(Day - 1) : m \div Minutes = n \div Minutes => (Covers(g, m) <=> Covers(g, n))

\* They play the same at every minute of a half hour.
LEMMA PlayingWhole ==
  ASSUME NEW H, Whole(H), NEW m \in 0..(Day - 1), NEW n \in 0..(Day - 1),
         m \div Minutes = n \div Minutes
  PROVE  Playing(H, m) = Playing(H, n)
<1>1. \A g \in H : Covers(g, m) <=> Covers(g, n)
  BY DEF Whole
<1>2. (CHOOSE g \in H : Covers(g, m)) = (CHOOSE g \in H : Covers(g, n))
  BY <1>1
<1>3. (\E g \in H : Covers(g, m)) <=> (\E g \in H : Covers(g, n))
  BY <1>1
<1> QED BY <1>2, <1>3 DEF Playing

\* The groups of a plan do.
LEMMA BuildWhole ==
  ASSUME NEW f \in Nat, NEW p, IsPlan(p)
  PROVE  Whole(BuildGroups(f, p))
<1> SUFFICES ASSUME NEW g \in BuildGroups(f, p), NEW m \in 0..(Day - 1), NEW n \in 0..(Day - 1),
                    m \div Minutes = n \div Minutes
             PROVE  Covers(g, m) <=> Covers(g, n)
  BY DEF Whole
<1>1. PICK w \in Windows(f, p) : g \in Split(w)
  BY GroupMember
<1>2. PICK x \in Nat, y \in Nat : Part(g, w, x, y)
  BY <1>1, SplitParts
<1>3. w.key \in Keys
  BY WindowShape
<1>4. Covers(g, m) <=> \E s \in x..(y - 1) : s % Slots = m \div Minutes
  BY <1>2, <1>3, PieceCovers DEF Part
<1>5. Covers(g, n) <=> \E s \in x..(y - 1) : s % Slots = n \div Minutes
  BY <1>2, <1>3, PieceCovers DEF Part
<1> QED BY <1>4, <1>5

\* A piece whose group reaches into a half hour of the clock has it.
LEMMA PieceMeets ==
  ASSUME NEW x, NEW y, NEW k, Piece(x, y), NEW u \in 0..(Slots - 1)
  PROVE  /\ (GroupOf(x, y, k).start < u * Minutes + Minutes /\ u * Minutes < PastEnd(GroupOf(x, y, k).end))
            <=> \E s \in x..(y - 1) : s % Slots = u
         /\ (GroupOf(x, y, k).start < u * Minutes + Minutes - 1 /\ u * Minutes < GroupOf(x, y, k).end)
            => \E s \in x..(y - 1) : s % Slots = u
<1> DEFINE g == GroupOf(x, y, k)
<1>1. PICK a \in 0..(Slots - 1), b \in 1..Slots : Spans(g, a, b, x, y)
  BY PieceShape
<1> HIDE DEF g
<1>2. g.start = a * Minutes /\ PastEnd(g.end) = b * Minutes /\ g.end <= b * Minutes /\ g.end \in Int
  BY <1>1, EndShape DEF Spans
<1>3. u * Minutes \in Int /\ a * Minutes \in Int /\ b * Minutes \in Int
  BY Sizes
<1>4. (a * Minutes < u * Minutes + Minutes) <=> (a <= u)
  <2>1. a <= u => a * Minutes <= u * Minutes
    BY Sizes, Multiples
  <2>2. u < a => u * Minutes + Minutes <= a * Minutes
    BY Sizes, Multiples
  <2> QED BY <1>3, <2>1, <2>2, Sizes
<1>5. (u * Minutes < b * Minutes) <=> (u < b)
  <2>1. b <= u => b * Minutes <= u * Minutes
    BY Sizes, Multiples
  <2>2. u < b => u * Minutes + Minutes <= b * Minutes
    BY Sizes, Multiples
  <2> QED BY <1>3, <2>1, <2>2, Sizes
<1>6. (a <= u /\ u < b) <=> \E s \in x..(y - 1) : s % Slots = u
  BY <1>1 DEF Spans
<1>7. (g.start < u * Minutes + Minutes - 1 /\ u * Minutes < g.end)
      => a * Minutes < u * Minutes + Minutes /\ u * Minutes < b * Minutes
  BY <1>2, <1>3, Sizes
<1> QED BY <1>2, <1>4, <1>5, <1>6, <1>7 DEF g

\* The groups of a plan reach into the half hours of its windows and into no others.
LEMMA BuildMeets ==
  ASSUME NEW f \in Nat, NEW p, IsPlan(p), NEW u \in 0..(Slots - 1)
  PROVE  /\ \A g \in BuildGroups(f, p) :
              \/ g.start < u * Minutes + Minutes /\ u * Minutes < PastEnd(g.end)
              \/ g.start < u * Minutes + Minutes - 1 /\ u * Minutes < g.end
              => \E s \in f..(f + Horizon - 1) : s % Slots = u
         /\ \A w \in Kept(Elided(Windows(f, p))) : \A s \in Int :
              InWindow(s, w) /\ s % Slots = u =>
                \E g \in BuildGroups(f, p) :
                  g.start < u * Minutes + Minutes /\ u * Minutes < PastEnd(g.end)
<1>1. ASSUME NEW g \in BuildGroups(f, p),
             \/ g.start < u * Minutes + Minutes /\ u * Minutes < PastEnd(g.end)
             \/ g.start < u * Minutes + Minutes - 1 /\ u * Minutes < g.end
      PROVE  \E s \in f..(f + Horizon - 1) : s % Slots = u
  <2>1. PICK w \in Windows(f, p) : g \in Split(w)
    BY GroupMember
  <2>2. PICK x \in Nat, y \in Nat : Part(g, w, x, y)
    BY <2>1, SplitParts
  <2>3. \E s \in x..(y - 1) : s % Slots = u
    BY <1>1, <2>2, PieceMeets DEF Part
  <2> QED BY <2>2, <2>3, PartHours
<1>2. ASSUME NEW w \in Kept(Elided(Windows(f, p))), NEW s \in Int, InWindow(s, w), s % Slots = u
      PROVE  \E g \in BuildGroups(f, p) :
               g.start < u * Minutes + Minutes /\ u * Minutes < PastEnd(g.end)
  <2>1. w \in Windows(f, p) /\ Split(w) \subseteq BuildGroups(f, p)
    BY KeptOf, GroupMember
  <2>2. PICK g \in Split(w) : \E x, y \in Nat : Part(g, w, x, y) /\ x <= s /\ s < y
    BY <1>2, <2>1, SplitParts
  <2>3. PICK x \in Nat, y \in Nat : Part(g, w, x, y) /\ x <= s /\ s < y
    BY <2>2
  <2>4. s \in x..(y - 1)
    BY <2>3
  <2>5. g.start < u * Minutes + Minutes /\ u * Minutes < PastEnd(g.end)
    BY <1>2, <2>3, <2>4, PieceMeets DEF Part
  <2> QED BY <2>1, <2>5
<1> QED BY <1>1, <1>2

----------------------------------------------------------------------------
(* The bridge *)

\* The half hour under way and the bridge over it, by the clock.
LEMMA BridgeShape ==
  ASSUME now \in Nat, NEW k \in Keys
  PROVE  /\ SlotOf(now) \in Nat /\ SlotOf(now) % Slots \in 0..(Slots - 1)
         /\ Clock(Opens(now)) = (SlotOf(now) % Slots) * Minutes
         /\ Clock(now) \in 0..(Day - 1) /\ Clock(now) \div Minutes = SlotOf(now) % Slots
         /\ BridgeOf(k) \in Groups /\ BridgeOf(k).key = k
         /\ BridgeOf(k).start = (SlotOf(now) % Slots) * Minutes
         /\ BridgeOf(k).end = (SlotOf(now) % Slots) * Minutes + Minutes - 1
         /\ \A m \in 0..(Day - 1) : Covers(BridgeOf(k), m) <=> m \div Minutes = SlotOf(now) % Slots
<1> DEFINE s == SlotOf(now)
           u == s % Slots
           b == BridgeOf(k)
<1>1. s \in Nat /\ u \in 0..(Slots - 1) /\ Clock(now) \in 0..(Day - 1) /\ Clock(now) \div Minutes = u
  BY ClockOf
<1> HIDE DEF s
<1>2. Opens(now) = s * Minutes + 0 /\ s * Minutes + 0 \in Nat
  BY <1>1, Sizes DEF Opens, s
<1>3. SlotOf(Opens(now)) = s
  BY <1>1, <1>2, Sizes, DivisionUnique DEF SlotOf
<1>4. Clock(Opens(now)) = u * Minutes
  <2>1. Clock(Opens(now)) = u * Minutes + (Opens(now) - s * Minutes)
    BY <1>2, <1>3, ClockOf
  <2>2. s * Minutes \in Int /\ u * Minutes \in Int
    BY <1>1, Sizes
  <2> QED BY <1>2, <2>1, <2>2
<1>5. b.start = u * Minutes /\ b.end = u * Minutes + Minutes - 1 /\ b.key = k
      /\ b = [start |-> b.start, end |-> b.end, key |-> b.key]
  BY <1>4 DEF BridgeOf
<1> HIDE DEF u, b
<1>6. u * Minutes \in Nat /\ u * Minutes + Minutes <= Day
  <2>1. u * Minutes + Minutes <= Slots * Minutes
    BY <1>1, Sizes, Multiples
  <2>2. u * Minutes \in Nat
    BY <1>1, Sizes
  <2> QED BY <2>1, <2>2, Sizes
<1>7. b \in Groups
  <2>1. b.start \in 0..(Day - 1) /\ b.end \in 0..(Day - 1)
    BY <1>5, <1>6, Sizes
  <2> QED BY <1>5, <2>1 DEF Groups
<1>8. PastEnd(b.end) = u * Minutes + Minutes
  <2>1. Minutes - 1 \in 0..(Minutes - 1) /\ u \in Int
    BY <1>1, Sizes
  <2>2. (u * Minutes + (Minutes - 1)) % Minutes = Minutes - 1
    BY <2>1, Sizes, DivisionUnique
  <2>3. b.end = u * Minutes + (Minutes - 1) /\ b.end + 1 = u * Minutes + Minutes /\ Minutes - 1 # 0
    BY <1>5, <1>6, Sizes
  <2> QED BY <2>2, <2>3 DEF PastEnd
<1>9. ASSUME NEW m \in 0..(Day - 1)
      PROVE  Covers(b, m) <=> m \div Minutes = u
  <2> DEFINE o == m \div Minutes
             r == m % Minutes
  <2>1. o \in Int /\ r \in 0..(Minutes - 1) /\ m = o * Minutes + r
    BY Sizes, Division
  <2> HIDE DEF o, r
  <2>2. o * Minutes \in Int
    BY <2>1, Sizes
  <2>3. o < u => o * Minutes + Minutes <= u * Minutes
    BY <1>1, <2>1, Sizes, Multiples
  <2>4. u < o => u * Minutes + Minutes <= o * Minutes
    BY <1>1, <2>1, Sizes, Multiples
  <2>5. Covers(b, m) <=> (u * Minutes <= m /\ m < u * Minutes + Minutes)
    BY <1>5, <1>8 DEF Covers
  <2>6. Covers(b, m) <=> o = u
    BY <1>1, <1>6, <2>1, <2>2, <2>3, <2>4, <2>5, Sizes
  <2> QED BY <2>6 DEF o
<1> QED BY <1>1, <1>4, <1>5, <1>7, <1>9 DEF s, u, b

\* The rows are rows, and what a row plays is a key.
LEMMA CarriedType ==
  ASSUME TypeOK
  PROVE  Carried \subseteq Keys /\ \A r \in InForce : Playing(r.groups, Clock(now)) \in Keys
<1>1. rows \in Seq([on : BOOLEAN, groups : SUBSET Groups, at : 0..SlotOf(now)])
  BY DEF TypeOK
<1>2. \A i \in DOMAIN rows : rows[i].groups \subseteq Groups
  <2> DEFINE R == [on : BOOLEAN, groups : SUBSET Groups, at : 0..SlotOf(now)]
  <2>1. \A r \in R : r.groups \subseteq Groups
    OBVIOUS
  <2>2. rows \in Seq(R) /\ DOMAIN rows = 1..Len(rows)
    BY <1>1
  <2> HIDE DEF R
  <2>3. \A i \in DOMAIN rows : rows[i] \in R
    BY <2>2, ElementOfSeq
  <2> QED BY <2>1, <2>3
<1>3. \A r \in InForce : r.groups \subseteq Groups
  <2> SUFFICES ASSUME NEW r \in InForce PROVE r.groups \subseteq Groups
    OBVIOUS
  <2>1. Verdicts # {}
    BY DEF InForce
  <2> DEFINE i == CHOOSE i \in Verdicts : \A j \in Verdicts : i <= j
  <2>2. r = rows[i]
    BY <2>1 DEF InForce
  <2>3. \E x \in Verdicts : \A j \in Verdicts : x <= j
    <3>1. Verdicts \subseteq Nat
      BY <1>1, ElementOfSeq DEF Verdicts
    <3> QED BY <2>1, <3>1, LeastOf
  <2>4. i \in Verdicts
    BY <2>3
  <2> HIDE DEF i
  <2>5. i \in DOMAIN rows
    BY <2>4 DEF Verdicts
  <2> QED BY <1>2, <2>2, <2>5
<1>4. \A r \in InForce : Playing(r.groups, Clock(now)) \in Keys
  BY <1>3, PlayingType
<1> QED BY <1>4 DEF Carried

\* A bridge is the one over the half hour under way, of some key.
LEMMA BridgeKeys ==
  ASSUME TypeOK, NEW G, G \subseteq Groups, NEW negative \in BOOLEAN
  PROVE  /\ \A b \in Bridge(G, negative) : \E k \in Keys : b = BridgeOf(k)
         /\ Bridge(G, negative) # {} => ~Decides(G) /\ ~(Cardinality(G) >= Cap)
<1>1. Carried \subseteq Keys
  BY CarriedType
<1>2. Advanced(G, negative) \subseteq Keys
  BY DEF Advanced, Groups
<1> QED BY <1>1, <1>2 DEF Bridge

\* What is sent is the plan, and one group over the half hour under way at most, which is
\* there only when the plan does not decide that half hour.
LEMMA CandidateShape ==
  ASSUME TypeOK, NEW f \in Nat, NEW p, IsPlan(p), NEW negative \in BOOLEAN, NEW G, G = BuildGroups(f, p)
  PROVE  \E B : /\ Candidate(G, negative) = G \cup B
                /\ B = {} \/ \E k \in Keys : B = {BridgeOf(k)}
                /\ B # {} => ~Decides(G)
                /\ Cardinality(G \cup B) <= Cap
<1>1. G \subseteq Groups /\ IsFiniteSet(G) /\ Cardinality(G) \in Nat /\ Cardinality(G) <= Cap
  <2>1. 0 \in 0..(Day - 1)
    BY Sizes
  <2>2. G \subseteq Groups
    BY <2>1, BuildCovers
  <2> QED BY <2>2, BuildSize
<1>2. Cap \in Nat /\ now \in Nat
  BY ShapeAssumption DEF TypeOK
<1> DEFINE B == Bridge(G, negative)
<1>3. Candidate(G, negative) = IF Overlapping(G \cup B) THEN G ELSE G \cup B
  BY DEF Candidate
<1>4. (\A b \in B : \E k \in Keys : b = BridgeOf(k)) /\ (B # {} => ~Decides(G) /\ ~(Cardinality(G) >= Cap))
  BY <1>1, BridgeKeys
<1> HIDE DEF B
<1>5. CASE Overlapping(G \cup B) \/ B = {}
  <2>1. Candidate(G, negative) = G \cup {}
    BY <1>3, <1>5
  <2> QED BY <1>1, <2>1
<1>6. CASE ~Overlapping(G \cup B) /\ B # {}
  <2>1. PICK b \in B : TRUE
    BY <1>6
  <2>2. \A c \in B : c = b
    <3> SUFFICES ASSUME NEW c \in B, c # b PROVE FALSE
      OBVIOUS
    <3>1. PICK k \in Keys : b = BridgeOf(k)
      BY <1>4
    <3>2. PICK l \in Keys : c = BridgeOf(l)
      BY <1>4
    <3> DEFINE e == (SlotOf(now) % Slots) * Minutes
    <3>3. b.start = e /\ b.end = e + Minutes - 1 /\ c.start = e /\ c.end = e + Minutes - 1
      BY <1>2, <3>1, <3>2, BridgeShape
    <3>4. SlotOf(now) % Slots \in 0..(Slots - 1)
      BY <1>2, <3>1, BridgeShape
    <3>5. e \in Int
      BY <3>4, Sizes
    <3> HIDE DEF e
    <3>6. Overlap(b, c)
      BY <3>3, <3>5, Sizes DEF Overlap
    <3> QED BY <1>6, <3>6 DEF Overlapping
  <2>3. B = {b}
    BY <2>2
  <2>4. \E k \in Keys : B = {BridgeOf(k)}
    BY <1>4, <2>3
  <2>5. Cardinality(G \cup {b}) <= Cardinality(G) + 1
    BY <1>1, FS_AddElement
  <2>6. Cardinality(G \cup {b}) \in Nat
    BY <1>1, FS_AddElement, FS_CardinalityType
  <2>7. Cardinality(G \cup B) <= Cap
    BY <1>1, <1>2, <1>4, <1>6, <2>3, <2>5, <2>6
  <2> QED BY <1>3, <1>4, <1>6, <2>4, <2>7
<1> QED BY <1>5, <1>6

----------------------------------------------------------------------------
(* The inductive invariant *)

\* The plan solved and not yet uploaded begins at the half hour under way or at the next one.
NextOK ==
  next # Nothing =>
    /\ next.from \in Nat /\ IsPlan(next.plan) /\ next.groups = BuildGroups(next.from, next.plan)
    /\ SlotOf(now) \in {next.from - 1, next.from}

\* The inverter has the groups of the last plan sent and, besides them, the bridge over the
\* half hour it was sent in, unless the plan decided that one.
Sent ==
  \/ decided.from = 0 /\ decided.tail = 0
  \/ LET G == BuildGroups(decided.from, decided.plan)
     IN  /\ IsPlan(decided.plan) /\ decided.tail = ReplanAt(decided.from, decided.plan)
         /\ decided.landed \in {decided.from - 1, decided.from}
         /\ G \subseteq hw.groups
         /\ \A b \in hw.groups \ G : \A m \in 0..(Day - 1) :
              Covers(b, m) => m \div Minutes = decided.landed % Slots
         /\ decided.landed = decided.from /\ decided.plan[1].mode # "SelfUse" => hw.groups = G

\* Every wipe is a stop's, but the one of a boot that found no row.
WipesOK == wipes.count <= stops + (IF rows = <<>> THEN 0 ELSE 1)

\* While the bridge looks far enough back, it finds the wipes since the last upload and then
\* the row of that upload, with the groups the inverter has.
RowsOK ==
  wipes.count < Recent =>
    /\ \/ hw.groups = {} /\ Len(rows) = wipes.count
       \/ /\ Len(rows) = wipes.count + 1
          /\ rows[Len(rows)].on /\ rows[Len(rows)].groups = hw.groups
    /\ \A i \in 1..wipes.count : ~rows[i].on /\ (~wipes.before => rows[i].at = SlotOf(now))

\* Without a wipe the inverter is on. With none before it, the half hour under way began as
\* the groups have it.
OpeningOK ==
  /\ Whole(hw.groups)
  /\ wipes.count = 0 => hw.on
  /\ ~wipes.before => opening = Playing(hw.groups, Clock(now))

IInv == TypeOK /\ NextOK /\ Sent /\ WipesOK /\ RowsOK /\ OpeningOK

\* The program starts with the invariant.
LEMMA InvInit == Init => IInv
<1> SUFFICES ASSUME Init PROVE IInv
  OBVIOUS
<1>1. now \in 0..MaxTime /\ now \in Nat
  BY ShapeAssumption DEF Init
<1>2. SlotOf(MaxTime) \in Nat /\ SlotOf(now) \in Nat
  BY <1>1, ShapeAssumption, SlotMonotone
<1>3. SelfUse \in Keys /\ Cap \in Nat /\ Recent \in Nat /\ Recent > 0 /\ MaxSolves \in Nat /\ MaxStops \in Nat
  BY ShapeAssumption
<1>4. TypeOK
  <2>1. hw \in [on : BOOLEAN, groups : SUBSET Groups] /\ Cardinality(hw.groups) <= Cap
    BY <1>3, FS_EmptySet DEF Init
  <2>2. rows \in Seq([on : BOOLEAN, groups : SUBSET Groups, at : 0..SlotOf(now)]) /\ Len(rows) <= Recent
    BY <1>3 DEF Init
  <2>3. next \in [from : 0..(SlotOf(MaxTime) + 1), plan : Seq(Keys), groups : SUBSET Groups]
    BY <1>2 DEF Init, Nothing
  <2>4. decided \in [from : Nat, plan : Seq(Keys), tail : Nat, landed : Nat] /\ decided.from <= decided.tail
    BY DEF Init
  <2>5. wipes \in [count : 0..(MaxStops + 1), before : BOOLEAN]
    BY <1>3 DEF Init
  <2>6. sys \in {"up", "down"} /\ solves \in 0..MaxSolves /\ stops \in 0..MaxStops /\ opening \in Keys
    BY <1>3 DEF Init
  <2> QED BY <1>1, <2>1, <2>2, <2>3, <2>4, <2>5, <2>6 DEF TypeOK
<1>5. NextOK /\ Sent
  BY DEF Init, NextOK, Sent
<1>6. WipesOK
  BY DEF Init, WipesOK
<1>7. RowsOK
  BY DEF Init, RowsOK
<1>8. OpeningOK
  <2>1. Whole(hw.groups) /\ hw.on
    BY DEF Init, Whole
  <2>2. opening = Playing(hw.groups, Clock(now))
    BY DEF Init, Playing
  <2> QED BY <2>1, <2>2 DEF OpeningOK
<1> QED BY <1>4, <1>5, <1>6, <1>7, <1>8 DEF IInv

\* The newest rows after one more.
LEMMA NewestOf ==
  ASSUME NEW R, NEW s \in Seq(R), NEW r \in R, Len(s) <= Recent
  PROVE  /\ Newest(<<r>> \o s) \in Seq(R) /\ Newest(<<r>> \o s) # <<>>
         /\ Len(Newest(<<r>> \o s)) <= Recent
         /\ Len(s) < Recent => /\ Len(Newest(<<r>> \o s)) = Len(s) + 1
                               /\ \A i \in 1..Len(s) : Newest(<<r>> \o s)[i + 1] = s[i]
         /\ Newest(<<r>> \o s)[1] = r
<1> DEFINE t == <<r>> \o s
           n == IF Len(t) < Recent THEN Len(t) ELSE Recent
<1>1. Recent \in Nat /\ Recent > 0 /\ Len(s) \in Nat
  BY ShapeAssumption
<1>2. <<r>> \in Seq(R) /\ Len(<<r>>) = 1 /\ <<r>>[1] = r
  OBVIOUS
<1>3. t \in Seq(R) /\ Len(t) = Len(s) + 1
  BY <1>1, <1>2, ConcatProperties
<1>4. t[1] = r /\ \A i \in 1..Len(s) : t[i + 1] = s[i]
  <2>1. t[1] = r
    BY <1>1, <1>2, ConcatProperties
  <2>2. ASSUME NEW i \in 1..Len(s) PROVE t[i + 1] = s[i]
    BY <1>1, <1>2, ConcatProperties
  <2> QED BY <2>1, <2>2
<1>5. n \in 1..Len(t) /\ n <= Recent /\ (Len(s) < Recent => n = Len(t))
  BY <1>1, <1>3
<1>6. Newest(t) = SubSeq(t, 1, n)
  BY DEF Newest
<1> HIDE DEF t, n
<1>7. SubSeq(t, 1, n) \in Seq(R) /\ Len(SubSeq(t, 1, n)) = n /\ \A i \in 1..n : SubSeq(t, 1, n)[i] = t[i]
  BY <1>3, <1>5, SubSeqProperties
<1>8. Newest(t) \in Seq(R) /\ Len(Newest(t)) = n /\ Newest(t)[1] = r /\ Newest(t) # <<>>
  <2>1. Newest(t) \in Seq(R) /\ Len(Newest(t)) = n
    BY <1>6, <1>7
  <2>2. 1 \in 1..n
    BY <1>5
  <2>3. Newest(t)[1] = r
    BY <1>4, <1>6, <1>7, <2>2
  <2>4. Newest(t) # <<>>
    BY <2>1, <2>2
  <2> QED BY <2>1, <2>3, <2>4
<1>9. ASSUME Len(s) < Recent, NEW i \in 1..Len(s) PROVE Newest(t)[i + 1] = s[i]
  <2>1. i + 1 \in 1..n
    BY <1>1, <1>3, <1>5, <1>9
  <2> QED BY <1>4, <1>6, <1>7, <2>1
<1> QED BY <1>1, <1>3, <1>5, <1>8, <1>9 DEF t

\* The types of what a wipe changes.
LEMMA WipedType ==
  ASSUME TypeOK, Wiped
  PROVE  /\ hw' \in [on : BOOLEAN, groups : SUBSET Groups] /\ hw'.groups = hw.groups
         /\ rows' \in Seq([on : BOOLEAN, groups : SUBSET Groups, at : 0..SlotOf(now)])
         /\ Len(rows') <= Recent /\ rows' # <<>>
         /\ Len(rows) < Recent => /\ Len(rows') = Len(rows) + 1
                                  /\ \A i \in 1..Len(rows) : rows'[i + 1] = rows[i]
         /\ rows'[1] = Row(FALSE, {})
         /\ wipes' = [count |-> wipes.count + 1, before |-> wipes.before]
         /\ wipes.count \in Nat /\ wipes.before \in BOOLEAN
<1> DEFINE R == [on : BOOLEAN, groups : SUBSET Groups, at : 0..SlotOf(now)]
<1>1. SlotOf(now) \in Nat
  <2>1. now \in Nat
    BY DEF TypeOK
  <2> QED BY <2>1, ClockOf
<1>2. Row(FALSE, {}) \in R
  BY <1>1 DEF Row
<1>3. rows \in Seq(R) /\ Len(rows) <= Recent /\ rows' = Newest(<<Row(FALSE, {})>> \o rows)
  BY DEF TypeOK, Wiped
<1> HIDE DEF R
<1>4. /\ rows' \in Seq(R) /\ rows' # <<>> /\ Len(rows') <= Recent
      /\ Len(rows) < Recent => /\ Len(rows') = Len(rows) + 1
                               /\ \A i \in 1..Len(rows) : rows'[i + 1] = rows[i]
      /\ rows'[1] = Row(FALSE, {})
  <2> DEFINE r == Row(FALSE, {})
             t == Newest(<<r>> \o rows)
  <2>1. r \in R
    BY <1>2
  <2> HIDE DEF r
  <2>2. /\ t \in Seq(R) /\ t # <<>> /\ Len(t) <= Recent /\ t[1] = r
        /\ Len(rows) < Recent => Len(t) = Len(rows) + 1 /\ \A i \in 1..Len(rows) : t[i + 1] = rows[i]
    <3>1. rows \in Seq(R) /\ Len(rows) <= Recent
      BY <1>3
    <3>2. t \in Seq(R)
      BY <2>1, <3>1, NewestOf
    <3>3. t # <<>>
      BY <2>1, <3>1, NewestOf
    <3>4. Len(t) <= Recent
      BY <2>1, <3>1, NewestOf
    <3>5. t[1] = r
      BY <2>1, <3>1, NewestOf
    <3>6. Len(rows) < Recent => Len(t) = Len(rows) + 1
      BY <2>1, <3>1, NewestOf
    <3>7. Len(rows) < Recent => \A i \in 1..Len(rows) : t[i + 1] = rows[i]
      BY <2>1, <3>1, NewestOf
    <3> QED BY <3>2, <3>3, <3>4, <3>5, <3>6, <3>7
  <2>3. rows' = t
    BY <1>3 DEF r
  <2> HIDE DEF t
  <2> QED BY <2>2, <2>3 DEF r
<1>5. hw' \in [on : BOOLEAN, groups : SUBSET Groups] /\ hw'.groups = hw.groups
  BY DEF TypeOK, Wiped
<1>6. wipes' = [count |-> wipes.count + 1, before |-> wipes.before]
      /\ wipes.count \in Nat /\ wipes.before \in BOOLEAN
  <2>1. MaxStops + 1 \in Nat /\ wipes \in [count : 0..(MaxStops + 1), before : BOOLEAN]
    BY ShapeAssumption DEF TypeOK
  <2>2. wipes' = [wipes EXCEPT !.count = @ + 1]
    BY DEF Wiped
  <2> QED BY <2>1, <2>2
<1> QED BY <1>4, <1>5, <1>6 DEF R

\* What is dispatched of a plan of the LP is a plan of the horizon.
LEMMA DispatchedPlan ==
  ASSUME NEW p \in Plans
  PROVE  IsPlan(Dispatched(p))
<1>1. p \in [1..Slots -> Keys] /\ Slots \in Nat /\ Horizon \in Nat /\ 1 <= Horizon /\ Horizon < Slots
  BY ShapeAssumption, Sizes
<1>2. p \in Seq(Keys) /\ Len(p) = Slots
  BY <1>1
<1>3. 1 \in 1..Len(p) /\ Horizon \in 1..Len(p)
  BY <1>1, <1>2
<1> DEFINE d == SubSeq(p, 1, Horizon)
<1>4. d \in Seq(Keys) /\ Len(d) = Horizon
  BY <1>1, <1>2, <1>3, SubSeqProperties
<1> HIDE DEF d
<1>5. DOMAIN d = 1..Horizon /\ \A i \in 1..Horizon : d[i] \in Keys
  BY <1>4
<1>6. Dispatched(p) = d
  BY DEF Dispatched, d
<1> QED BY <1>4, <1>5, <1>6 DEF IsPlan

\* The groups of a plan are groups.
LEMMA BuildType ==
  ASSUME NEW f \in Nat, NEW p, IsPlan(p)
  PROVE  BuildGroups(f, p) \subseteq Groups
<1>1. 0 \in 0..(Day - 1)
  BY Sizes
<1> QED BY <1>1, BuildCovers

\* An upload sends the plan with one bridge at most.
LEMMA UploadShape ==
  ASSUME IInv, NEW negative \in BOOLEAN, Upload(negative)
  PROVE  \E B : /\ hw' = [on |-> TRUE, groups |-> next.groups \cup B]
                /\ rows' = <<Row(TRUE, next.groups \cup B)>>
                /\ Candidate(next.groups, negative) = next.groups \cup B
                /\ B = {} \/ \E k \in Keys : B = {BridgeOf(k)}
                /\ B # {} => ~Decides(next.groups)
                /\ Cardinality(next.groups \cup B) <= Cap
                /\ next.groups \cup B \subseteq Groups
<1>1. /\ next.from \in Nat /\ IsPlan(next.plan) /\ next.groups = BuildGroups(next.from, next.plan)
  BY DEF IInv, NextOK, Upload
<1>2. ~Overlapping(next.groups)
  BY <1>1, BuildSeparate
<1>3. next.groups \subseteq Groups
  BY <1>1, BuildType
<1>4. TypeOK /\ now \in Nat
  BY DEF IInv, TypeOK
<1>5. PICK B : /\ Candidate(next.groups, negative) = next.groups \cup B
               /\ B = {} \/ \E k \in Keys : B = {BridgeOf(k)}
               /\ B # {} => ~Decides(next.groups)
               /\ Cardinality(next.groups \cup B) <= Cap
  <2> DEFINE f == next.from
             p == next.plan
             G == next.groups
  <2>1. f \in Nat /\ IsPlan(p) /\ G = BuildGroups(f, p)
    BY <1>1
  <2> HIDE DEF f, p, G
  <2>2. \E B : /\ Candidate(G, negative) = G \cup B
               /\ B = {} \/ \E k \in Keys : B = {BridgeOf(k)}
               /\ B # {} => ~Decides(G)
               /\ Cardinality(G \cup B) <= Cap
    BY <1>4, <2>1, CandidateShape
  <2> QED BY <2>2 DEF G
<1>6. B \subseteq Groups
  BY <1>4, <1>5, BridgeShape
<1>7. hw' = [on |-> TRUE, groups |-> next.groups \cup B] /\ rows' = <<Row(TRUE, next.groups \cup B)>>
  BY <1>2, <1>5 DEF Upload
<1> QED BY <1>3, <1>5, <1>6, <1>7

\* Rows of an earlier half hour are rows of a later one.
LEMMA RowsLater ==
  ASSUME TypeOK, now' \in Nat, now <= now', rows' = rows
  PROVE  rows' \in Seq([on : BOOLEAN, groups : SUBSET Groups, at : 0..SlotOf(now')])
<1> DEFINE R == [on : BOOLEAN, groups : SUBSET Groups, at : 0..SlotOf(now)]
           Q == [on : BOOLEAN, groups : SUBSET Groups, at : 0..SlotOf(now')]
<1>1. now \in Nat
  BY DEF TypeOK
<1>2. SlotOf(now) \in Nat /\ SlotOf(now') \in Nat /\ SlotOf(now) <= SlotOf(now')
  BY <1>1, SlotMonotone
<1>3. R \subseteq Q
  BY <1>2
<1>4. rows \in Seq(R)
  BY DEF TypeOK
<1> HIDE DEF R, Q
<1>5. rows \in Seq(Q)
  BY <1>3, <1>4
<1> QED BY <1>5 DEF Q

\* The types are kept.
LEMMA TypeNext ==
  ASSUME IInv, [Next]_vars
  PROVE  TypeOK'
<1> USE DEF work, history
<1>1. TypeOK /\ now \in Nat /\ MaxTime \in Nat
  BY ShapeAssumption DEF IInv, TypeOK
<1>2. SlotOf(now) \in Nat /\ SlotOf(MaxTime) \in Nat /\ SlotOf(now) <= SlotOf(MaxTime)
  <2>1. now <= MaxTime
    BY <1>1 DEF TypeOK
  <2> QED BY <1>1, <2>1, SlotMonotone
<1>3. MaxSolves \in Nat /\ MaxStops \in Nat /\ Recent \in Nat /\ Recent > 0 /\ SelfUse \in Keys
  BY ShapeAssumption
<1>4. Nothing \in [from : 0..(SlotOf(MaxTime) + 1), plan : Seq(Keys), groups : SUBSET Groups]
  BY <1>2 DEF Nothing
<1>5. wipes.count \in Nat /\ wipes.before \in BOOLEAN
  BY <1>1, <1>3 DEF TypeOK
<1>6. Wiped /\ UNCHANGED now =>
        /\ hw' \in [on : BOOLEAN, groups : SUBSET Groups] /\ Cardinality(hw'.groups) <= Cap
        /\ rows' \in Seq([on : BOOLEAN, groups : SUBSET Groups, at : 0..SlotOf(now')]) /\ Len(rows') <= Recent
        /\ wipes' = [count |-> wipes.count + 1, before |-> wipes.before]
  <2> SUFFICES ASSUME Wiped, now' = now
               PROVE  /\ hw' \in [on : BOOLEAN, groups : SUBSET Groups] /\ Cardinality(hw'.groups) <= Cap
                      /\ rows' \in Seq([on : BOOLEAN, groups : SUBSET Groups, at : 0..SlotOf(now')])
                      /\ Len(rows') <= Recent
                      /\ wipes' = [count |-> wipes.count + 1, before |-> wipes.before]
    OBVIOUS
  <2>1. Cardinality(hw.groups) <= Cap
    BY <1>1 DEF TypeOK
  <2>2. /\ hw' \in [on : BOOLEAN, groups : SUBSET Groups] /\ hw'.groups = hw.groups
        /\ rows' \in Seq([on : BOOLEAN, groups : SUBSET Groups, at : 0..SlotOf(now)]) /\ Len(rows') <= Recent
        /\ wipes' = [count |-> wipes.count + 1, before |-> wipes.before]
    BY <1>1, WipedType
  <2> QED BY <2>1, <2>2
<1>7. hw.groups \in SUBSET Groups /\ hw.on \in BOOLEAN
  BY <1>1 DEF TypeOK
<1>10. CASE \E p \in Plans : Solve(p)
  <2>1. PICK p \in Plans : Solve(p)
    BY <1>10
  <2> DEFINE f == SlotOf(now) + 1
             d == Dispatched(p)
  <2>2. f \in Nat /\ f \in 0..(SlotOf(MaxTime) + 1)
    BY <1>2
  <2>3. IsPlan(d)
    BY DispatchedPlan
  <2>4. next' = [from |-> f, plan |-> d, groups |-> BuildGroups(f, d)] /\ solves' = solves + 1 /\ solves < MaxSolves
    BY <2>1 DEF Solve
  <2> HIDE DEF f, d
  <2>5. BuildGroups(f, d) \subseteq Groups /\ d \in Seq(Keys)
    BY <2>2, <2>3, BuildType DEF IsPlan
  <2>6. next' \in [from : 0..(SlotOf(MaxTime) + 1), plan : Seq(Keys), groups : SUBSET Groups]
    BY <2>2, <2>4, <2>5
  <2>7. solves' \in 0..MaxSolves
    BY <1>1, <1>3, <2>4 DEF TypeOK
  <2>8. UNCHANGED <<now, hw, rows, sys, stops, decided, opening, wipes>>
    BY <2>1 DEF Solve
  <2> QED BY <1>1, <2>6, <2>7, <2>8 DEF TypeOK
<1>11. CASE \E negative \in BOOLEAN : Upload(negative)
  <2>1. PICK negative \in BOOLEAN : Upload(negative)
    BY <1>11
  <2>2. PICK B : /\ hw' = [on |-> TRUE, groups |-> next.groups \cup B]
                 /\ rows' = <<Row(TRUE, next.groups \cup B)>>
                 /\ Cardinality(next.groups \cup B) <= Cap
                 /\ next.groups \cup B \subseteq Groups
    BY <2>1, UploadShape
  <2> DEFINE G == next.groups \cup B
  <2> HIDE DEF G
  <2>3. hw' = [on |-> TRUE, groups |-> G] /\ rows' = <<Row(TRUE, G)>> /\ Cardinality(G) <= Cap /\ G \subseteq Groups
    BY <2>2 DEF G
  <2>4. hw' \in [on : BOOLEAN, groups : SUBSET Groups] /\ hw'.groups = G /\ hw'.on
    BY <2>3
  <2>5. rows' \in Seq([on : BOOLEAN, groups : SUBSET Groups, at : 0..SlotOf(now)]) /\ Len(rows') = 1
    BY <1>2, <2>3 DEF Row
  <2>6. /\ now' = now /\ sys' = sys /\ next' = Nothing /\ solves' = solves /\ stops' = stops
        /\ opening' = Plays(hw', now)
        /\ decided' = [from |-> next.from, plan |-> next.plan, landed |-> SlotOf(now),
                       tail |-> ReplanAt(next.from, next.plan)]
        /\ wipes' = [count |-> 0, before |-> FALSE]
    BY <2>1 DEF Upload
  <2>7. next.from \in Nat /\ IsPlan(next.plan)
    BY <2>1 DEF IInv, NextOK, Upload
  <2>8. decided' \in [from : Nat, plan : Seq(Keys), tail : Nat, landed : Nat] /\ decided'.from <= decided'.tail
    <3>1. ReplanAt(next.from, next.plan) \in Nat /\ next.from < ReplanAt(next.from, next.plan)
      BY <2>7, ReplanAtOf
    <3>2. next.plan \in Seq(Keys)
      BY <2>7 DEF IsPlan
    <3> QED BY <1>2, <2>6, <2>7, <3>1, <3>2
  <2>9. opening' \in Keys
    BY <1>3, <2>3, <2>4, <2>6, PlayingType DEF Plays
  <2>10. wipes' \in [count : 0..(MaxStops + 1), before : BOOLEAN]
    BY <1>3, <2>6
  <2>11. next' \in [from : 0..(SlotOf(MaxTime) + 1), plan : Seq(Keys), groups : SUBSET Groups]
    BY <1>4, <2>6
  <2>12. rows' \in Seq([on : BOOLEAN, groups : SUBSET Groups, at : 0..SlotOf(now')]) /\ Len(rows') <= Recent
    BY <1>3, <2>5, <2>6
  <2>13. now' \in 0..MaxTime /\ sys' \in {"up", "down"} /\ solves' \in 0..MaxSolves /\ stops' \in 0..MaxStops
    BY <1>1, <2>6 DEF TypeOK
  <2>14. Cardinality(hw'.groups) <= Cap
    BY <2>3, <2>4
  <2> QED BY <2>4, <2>8, <2>9, <2>10, <2>11, <2>12, <2>13, <2>14 DEF TypeOK
<1>12. CASE Fails
  <2>1. next' = Nothing /\ UNCHANGED <<now, hw, rows, sys, solves, stops, decided, opening, wipes>>
    BY <1>12 DEF Fails
  <2> QED BY <1>1, <1>4, <2>1 DEF TypeOK
<1>13. CASE Stop
  <2>1. /\ stops < MaxStops /\ stops' = stops + 1 /\ sys' = "down" /\ next' = Nothing
        /\ Wiped \/ UNCHANGED <<hw, rows, wipes>>
        /\ UNCHANGED <<now, solves, decided, opening>>
    BY <1>13 DEF Stop
  <2>2. stops' \in 0..MaxStops /\ stops \in Nat
    BY <1>1, <1>3, <2>1 DEF TypeOK
  <2>3. CASE Wiped
    <3>1. wipes.count <= MaxStops
      BY <1>3, <1>5, <2>1, <2>2 DEF IInv, WipesOK
    <3>2. wipes' \in [count : 0..(MaxStops + 1), before : BOOLEAN]
      BY <1>3, <1>5, <1>6, <2>1, <2>3, <3>1
    <3>3. next' \in [from : 0..(SlotOf(MaxTime) + 1), plan : Seq(Keys), groups : SUBSET Groups]
      BY <1>4, <2>1
    <3>4. /\ hw' \in [on : BOOLEAN, groups : SUBSET Groups] /\ Cardinality(hw'.groups) <= Cap
          /\ rows' \in Seq([on : BOOLEAN, groups : SUBSET Groups, at : 0..SlotOf(now')]) /\ Len(rows') <= Recent
      BY <1>6, <2>1, <2>3
    <3> QED BY <1>1, <2>1, <2>2, <3>2, <3>3, <3>4 DEF TypeOK
  <2>4. CASE UNCHANGED <<hw, rows, wipes>>
    BY <1>1, <1>4, <2>1, <2>2, <2>4 DEF TypeOK
  <2> QED BY <2>1, <2>3, <2>4
<1>14. CASE Boot
  <2>1. sys' = "up" /\ UNCHANGED <<now, next, solves, stops, decided, opening>>
    BY <1>14 DEF Boot
  <2>2. CASE hw' = [hw EXCEPT !.on = TRUE] /\ UNCHANGED <<rows, wipes>>
    BY <1>1, <2>1, <2>2 DEF TypeOK
  <2>3. CASE rows = <<>> /\ Wiped
    <3>1. wipes.count <= MaxStops
      <4>1. stops \in 0..MaxStops
        BY <1>1 DEF TypeOK
      <4> QED BY <1>3, <1>5, <2>3, <4>1 DEF IInv, WipesOK
    <3>2. wipes' \in [count : 0..(MaxStops + 1), before : BOOLEAN]
      BY <1>3, <1>5, <1>6, <2>1, <2>3, <3>1
    <3>3. /\ hw' \in [on : BOOLEAN, groups : SUBSET Groups] /\ Cardinality(hw'.groups) <= Cap
          /\ rows' \in Seq([on : BOOLEAN, groups : SUBSET Groups, at : 0..SlotOf(now')]) /\ Len(rows') <= Recent
      BY <1>6, <2>1, <2>3
    <3> QED BY <1>1, <2>1, <3>2, <3>3 DEF TypeOK
  <2> QED BY <1>14, <2>2, <2>3 DEF Boot
<1>15. CASE Repair
  <2>1. hw' = [hw EXCEPT !.on = TRUE] /\ UNCHANGED <<now, rows, sys, next, solves, stops, decided, opening, wipes>>
    BY <1>15 DEF Repair
  <2> QED BY <1>1, <2>1 DEF TypeOK
<1>16. CASE Tick
  <2>1. /\ now < MaxTime /\ now' = now + 1
        /\ UNCHANGED <<hw, rows, sys, next, solves, stops, decided>>
        /\ (opening' = opening /\ wipes' = wipes)
           \/ (opening' = Plays(hw, now') /\ wipes' = [wipes EXCEPT !.before = wipes.count > 0])
    BY <1>16 DEF Tick
  <2>2. now' \in 0..MaxTime /\ now' \in Nat /\ now <= now'
    BY <1>1, <2>1
  <2>3. rows' \in Seq([on : BOOLEAN, groups : SUBSET Groups, at : 0..SlotOf(now')])
    BY <1>1, <2>1, <2>2, RowsLater
  <2>4. opening \in Keys /\ wipes \in [count : 0..(MaxStops + 1), before : BOOLEAN]
    BY <1>1 DEF TypeOK
  <2>5. opening' \in Keys
    BY <1>3, <1>7, <2>1, <2>4, PlayingType DEF Plays
  <2>6. wipes' \in [count : 0..(MaxStops + 1), before : BOOLEAN]
    <3>1. CASE wipes' = wipes
      BY <2>4, <3>1
    <3>2. CASE wipes' = [wipes EXCEPT !.before = wipes.count > 0]
      <4>1. (wipes.count > 0) \in BOOLEAN
        OBVIOUS
      <4>2. wipes' = [count |-> wipes.count, before |-> wipes.count > 0]
        BY <2>4, <3>2
      <4>3. wipes.count \in 0..(MaxStops + 1)
        BY <2>4
      <4> QED BY <4>1, <4>2, <4>3, Zenon
    <3> QED BY <2>1, <3>1, <3>2
  <2> QED BY <1>1, <2>1, <2>2, <2>3, <2>5, <2>6 DEF TypeOK
<1>17. CASE UNCHANGED vars
  BY <1>1, <1>17 DEF vars, TypeOK
<1> QED BY <1>10, <1>11, <1>12, <1>13, <1>14, <1>15, <1>16, <1>17 DEF Next

\* The steps other than a solve, an upload and the passing of time leave the decision and
\* the groups alone.
Quiet ==
  /\ now' = now /\ decided' = decided /\ opening' = opening /\ (next' = next \/ next' = Nothing)
  /\ hw'.groups = hw.groups
  /\ \/ rows' = rows /\ wipes' = wipes /\ (hw.on => hw'.on) /\ stops' \in {stops, stops + 1}
     \/ Wiped /\ (stops' = stops + 1 \/ (rows = <<>> /\ stops' = stops))

LEMMA QuietSteps ==
  ASSUME IInv, [Next]_vars
  PROVE  \/ \E p \in Plans : Solve(p)
         \/ \E negative \in BOOLEAN : Upload(negative)
         \/ Tick
         \/ Quiet
<1> USE DEF work, history
<1>1. TypeOK
  BY DEF IInv
<1>2. hw \in [on : BOOLEAN, groups : SUBSET Groups]
  BY <1>1 DEF TypeOK
<1>3. Wiped => hw'.groups = hw.groups
  BY <1>1, WipedType
<1>4. hw' = [hw EXCEPT !.on = TRUE] => hw'.groups = hw.groups /\ hw'.on
  BY <1>2
<1>5. ASSUME Fails PROVE Quiet
  <2>1. next' = Nothing /\ UNCHANGED <<now, hw, rows, sys, solves, stops, decided, opening, wipes>>
    BY <1>5 DEF Fails
  <2> QED BY <2>1 DEF Quiet
<1>6. ASSUME Stop PROVE Quiet
  <2>1. /\ stops' = stops + 1 /\ next' = Nothing /\ UNCHANGED <<now, decided, opening>>
        /\ Wiped \/ UNCHANGED <<hw, rows, wipes>>
    BY <1>6 DEF Stop
  <2>2. CASE Wiped
    BY <1>3, <2>1, <2>2 DEF Quiet
  <2>3. CASE UNCHANGED <<hw, rows, wipes>>
    BY <2>1, <2>3 DEF Quiet
  <2> QED BY <2>1, <2>2, <2>3
<1>7. ASSUME Boot PROVE Quiet
  <2>1. /\ UNCHANGED <<now, next, stops, decided, opening>>
        /\ \/ hw' = [hw EXCEPT !.on = TRUE] /\ UNCHANGED <<rows, wipes>>
           \/ rows = <<>> /\ Wiped
    BY <1>7 DEF Boot
  <2>2. CASE hw' = [hw EXCEPT !.on = TRUE] /\ UNCHANGED <<rows, wipes>>
    BY <1>4, <2>1, <2>2 DEF Quiet
  <2>3. CASE rows = <<>> /\ Wiped
    BY <1>3, <2>1, <2>3 DEF Quiet
  <2> QED BY <2>1, <2>2, <2>3
<1>8. ASSUME Repair PROVE Quiet
  <2>1. hw' = [hw EXCEPT !.on = TRUE] /\ UNCHANGED <<now, rows, sys, next, solves, stops, decided, opening, wipes>>
    BY <1>8 DEF Repair
  <2> QED BY <1>4, <2>1 DEF Quiet
<1>9. ASSUME UNCHANGED vars PROVE Quiet
  BY <1>9 DEF vars, Quiet
<1> QED BY <1>5, <1>6, <1>7, <1>8, <1>9 DEF Next

\* Time that passes by a minute stays in the half hour or begins another.
LEMMA TickShape ==
  ASSUME IInv, Tick
  PROVE  /\ now \in Nat /\ now' \in Nat /\ now' = now + 1
         /\ SlotOf(now) \in Nat /\ SlotOf(now') \in Nat /\ SlotOf(now) <= SlotOf(now')
         /\ hw' = hw /\ rows' = rows /\ next' = next /\ stops' = stops /\ decided' = decided
         /\ next # Nothing => SlotOf(now') <= next.from
         /\ \/ SlotOf(now') = SlotOf(now) /\ opening' = opening /\ wipes' = wipes
            \/ /\ opening' = Plays(hw, now')
               /\ wipes' = [count |-> wipes.count, before |-> wipes.count > 0]
<1> USE DEF work
<1>1. now \in Nat /\ now' \in Nat /\ now' = now + 1
  BY DEF IInv, TypeOK, Tick
<1>2. SlotOf(now) \in Nat /\ SlotOf(now') \in Nat /\ SlotOf(now) <= SlotOf(now')
  BY <1>1, SlotMonotone
<1>3. next # Nothing => SlotOf(now') <= next.from
  BY <1>1 DEF Tick
<1>4. wipes \in [count : 0..(MaxStops + 1), before : BOOLEAN]
  BY DEF IInv, TypeOK
<1>5. \/ SlotOf(now') = SlotOf(now) /\ opening' = opening /\ wipes' = wipes
      \/ opening' = Plays(hw, now') /\ wipes' = [wipes EXCEPT !.before = wipes.count > 0]
  BY DEF Tick
<1>6. [wipes EXCEPT !.before = wipes.count > 0] = [count |-> wipes.count, before |-> wipes.count > 0]
  BY <1>4
<1>7. UNCHANGED <<hw, rows, next, stops, decided>>
  BY DEF Tick
<1> QED BY <1>1, <1>2, <1>3, <1>5, <1>6, <1>7

\* What a solve does.
LEMMA SolveShape ==
  ASSUME IInv, NEW p \in Plans, Solve(p)
  PROVE  /\ SlotOf(now) \in Nat
         /\ next' = [from |-> SlotOf(now) + 1, plan |-> Dispatched(p),
                     groups |-> BuildGroups(SlotOf(now) + 1, Dispatched(p))]
         /\ IsPlan(Dispatched(p))
         /\ UNCHANGED <<now, hw, rows, stops, decided, opening, wipes>>
<1> USE DEF history
<1>1. SlotOf(now) \in Nat
  <2>1. now \in Nat
    BY DEF IInv, TypeOK
  <2> QED BY <2>1, ClockOf
<1>2. IsPlan(Dispatched(p))
  BY DispatchedPlan
<1> QED BY <1>1, <1>2 DEF Solve

LEMMA NextOKNext ==
  ASSUME IInv, [Next]_vars
  PROVE  NextOK'
<1>1. NextOK
  BY DEF IInv
<1>2. ASSUME NEW p \in Plans, Solve(p) PROVE NextOK'
  <2> DEFINE f == SlotOf(now) + 1
             d == Dispatched(p)
  <2>1. f \in Nat /\ next' = [from |-> f, plan |-> d, groups |-> BuildGroups(f, d)] /\ IsPlan(d)
        /\ now' = now /\ SlotOf(now) = f - 1
    BY <1>2, SolveShape
  <2> HIDE DEF f, d
  <2>2. next'.from = f /\ next'.plan = d /\ next'.groups = BuildGroups(f, d) /\ SlotOf(now') = f - 1
    BY <2>1
  <2> QED BY <2>1, <2>2 DEF NextOK
<1>3. ASSUME next' = Nothing PROVE NextOK'
  BY <1>3 DEF NextOK
<1>4. ASSUME Tick PROVE NextOK'
  <2>1. /\ SlotOf(now) \in Nat /\ SlotOf(now') \in Nat /\ SlotOf(now) <= SlotOf(now')
        /\ next' = next /\ (next # Nothing => SlotOf(now') <= next.from)
    BY <1>4, TickShape
  <2> SUFFICES ASSUME next # Nothing PROVE NextOK'
    BY <2>1 DEF NextOK
  <2>2. next.from \in Nat /\ SlotOf(now) \in {next.from - 1, next.from}
    BY <1>1 DEF NextOK
  <2>3. SlotOf(now') \in {next.from - 1, next.from}
    BY <2>1, <2>2
  <2> QED BY <1>1, <2>1, <2>3 DEF NextOK
<1>5. ASSUME Quiet PROVE NextOK'
  <2>1. now' = now /\ (next' = next \/ next' = Nothing)
    BY <1>5 DEF Quiet
  <2>2. CASE next' = next
    BY <1>1, <2>1, <2>2 DEF NextOK
  <2> QED BY <1>3, <2>1, <2>2
<1>6. ASSUME NEW negative \in BOOLEAN, Upload(negative) PROVE NextOK'
  BY <1>3, <1>6 DEF Upload
<1> QED BY <1>2, <1>4, <1>5, <1>6, QuietSteps

LEMMA WipesNext ==
  ASSUME IInv, [Next]_vars
  PROVE  WipesOK'
<1>1. WipesOK /\ TypeOK
  BY DEF IInv
<1>2. wipes.count \in Nat /\ stops \in Nat
  BY <1>1, ShapeAssumption DEF TypeOK
<1>3. ASSUME NEW p \in Plans, Solve(p) PROVE WipesOK'
  BY <1>1, <1>3, SolveShape DEF WipesOK
<1>4. ASSUME NEW negative \in BOOLEAN, Upload(negative) PROVE WipesOK'
  <2>1. wipes'.count = 0 /\ stops' = stops
    BY <1>4 DEF Upload, work
  <2> QED BY <1>2, <2>1 DEF WipesOK
<1>5. ASSUME Tick PROVE WipesOK'
  <2>1. wipes'.count = wipes.count /\ stops' = stops /\ rows' = rows
    BY <1>5, TickShape
  <2> QED BY <1>1, <2>1 DEF WipesOK
<1>6. ASSUME Quiet PROVE WipesOK'
  <2>1. CASE rows' = rows /\ wipes' = wipes /\ stops' \in {stops, stops + 1}
    BY <1>1, <1>2, <2>1 DEF WipesOK
  <2>2. CASE Wiped /\ (stops' = stops + 1 \/ (rows = <<>> /\ stops' = stops))
    <3>1. wipes'.count = wipes.count + 1 /\ rows' # <<>>
      <4>1. wipes' = [count |-> wipes.count + 1, before |-> wipes.before] /\ rows' # <<>>
        BY <1>1, <2>2, WipedType
      <4> QED BY <4>1
    <3> QED BY <1>1, <1>2, <2>2, <3>1 DEF WipesOK
  <2> QED BY <1>6, <2>1, <2>2 DEF Quiet
<1> QED BY <1>3, <1>4, <1>5, <1>6, QuietSteps

\* The first half hour of a plan, unless it is idle, is decided by a group of it.
LEMMA FirstDecided ==
  ASSUME now \in Nat, NEW f \in Nat, f = SlotOf(now), NEW p, IsPlan(p), p[1].mode # "SelfUse"
  PROVE  Decides(BuildGroups(f, p))
<1>1. f \in f..(f + Horizon - 1) /\ f \in Int
  BY Sizes
<1>2. PICK w \in Windows(f, p) : InWindow(f, w)
  BY <1>1, WindowOf
<1>3. /\ w.from \in Nat /\ w.from <= f
      /\ Agrees(w.key, p[f - f + 1])
  BY <1>1, <1>2, WindowShape DEF InWindow
<1>4. w.key.mode # "SelfUse"
  <2>1. f - f + 1 = 1
    OBVIOUS
  <2> QED BY <1>3, <2>1 DEF Agrees
<1>5. ReplanAt(f, p) \in Nat /\ f < ReplanAt(f, p)
  BY ReplanAtOf
<1>6. w.from < ReplanAt(f, p)
  BY <1>3, <1>5
<1>7. w \in Kept(Elided(Windows(f, p)))
  BY <1>4, <1>6, ReplanAtOf
<1> DEFINE u == f % Slots
<1>8. u \in 0..(Slots - 1) /\ Clock(Opens(now)) = u * Minutes
  <2>1. SelfUse \in Keys
    BY ShapeAssumption
  <2> QED BY <2>1, BridgeShape
<1>9. \E g \in BuildGroups(f, p) : g.start < u * Minutes + Minutes /\ u * Minutes < PastEnd(g.end)
  <2> HIDE DEF u
  <2>1. f % Slots = u
    BY DEF u
  <2> QED BY <1>1, <1>2, <1>7, <1>8, <2>1, BuildMeets
<1> QED BY <1>8, <1>9 DEF Decides

LEMMA SentNext ==
  ASSUME IInv, [Next]_vars
  PROVE  Sent'
<1>1. Sent /\ NextOK /\ TypeOK /\ now \in Nat
  BY DEF IInv, TypeOK
<1>2. ASSUME decided' = decided, hw'.groups = hw.groups PROVE Sent'
  BY <1>1, <1>2 DEF Sent
<1>3. ASSUME NEW p \in Plans, Solve(p) PROVE Sent'
  BY <1>2, <1>3, SolveShape
<1>4. ASSUME Tick PROVE Sent'
  BY <1>2, <1>4, TickShape
<1>5. ASSUME Quiet PROVE Sent'
  BY <1>2, <1>5 DEF Quiet
<1>6. ASSUME NEW negative \in BOOLEAN, Upload(negative) PROVE Sent'
  <2> DEFINE f == next.from
             p == next.plan
             G == BuildGroups(f, p)
             u == SlotOf(now)
  <2>1. /\ f \in Nat /\ IsPlan(p) /\ next.groups = G /\ u \in {f - 1, f}
    BY <1>1, <1>6 DEF NextOK, Upload
  <2>2. PICK B : /\ hw' = [on |-> TRUE, groups |-> next.groups \cup B]
                 /\ B = {} \/ \E k \in Keys : B = {BridgeOf(k)}
                 /\ B # {} => ~Decides(next.groups)
    BY <1>6, UploadShape
  <2>3. decided' = [from |-> f, plan |-> p, landed |-> u, tail |-> ReplanAt(f, p)]
    BY <1>6 DEF Upload
  <2>4. \A b \in B : \A m \in 0..(Day - 1) : Covers(b, m) => m \div Minutes = u % Slots
    BY <1>1, <2>2, BridgeShape
  <2>5. u = f /\ p[1].mode # "SelfUse" => B = {}
    <3> SUFFICES ASSUME u = f, p[1].mode # "SelfUse" PROVE B = {}
      OBVIOUS
    <3>1. Decides(G)
      <4> HIDE DEF f, p
      <4>1. f = SlotOf(now) /\ p[1].mode # "SelfUse"
        OBVIOUS
      <4> QED BY <1>1, <2>1, <4>1, FirstDecided
    <3> QED BY <2>1, <2>2, <3>1
  <2> HIDE DEF f, p, u
  <2>6. /\ decided'.from = f /\ decided'.plan = p /\ decided'.landed = u /\ decided'.tail = ReplanAt(f, p)
        /\ hw'.groups = G \cup B
    BY <2>1, <2>2, <2>3
  <2> HIDE DEF G
  <2>7. \A b \in (G \cup B) \ G : \A m \in 0..(Day - 1) : Covers(b, m) => m \div Minutes = u % Slots
    BY <2>4
  <2>8. G \subseteq G \cup B /\ (B = {} => G \cup B = G)
    OBVIOUS
  <2> QED BY <2>1, <2>5, <2>6, <2>7, <2>8 DEF Sent, G
<1> QED BY <1>3, <1>4, <1>5, <1>6, QuietSteps

LEMMA RowsNext ==
  ASSUME IInv, [Next]_vars
  PROVE  RowsOK'
<1>1. RowsOK /\ TypeOK /\ now \in Nat /\ Recent \in Nat
  BY ShapeAssumption DEF IInv, TypeOK
<1>2. wipes.count \in Nat /\ wipes.before \in BOOLEAN /\ Len(rows) \in Nat /\ rows \in Seq([on : BOOLEAN, groups : SUBSET Groups, at : 0..SlotOf(now)])
  BY <1>1, ShapeAssumption DEF TypeOK
<1>3. ASSUME rows' = rows, wipes' = wipes, hw'.groups = hw.groups, SlotOf(now') = SlotOf(now) PROVE RowsOK'
  BY <1>1, <1>3 DEF RowsOK
<1>4. ASSUME NEW p \in Plans, Solve(p) PROVE RowsOK'
  BY <1>3, <1>4, SolveShape
<1>5. ASSUME NEW negative \in BOOLEAN, Upload(negative) PROVE RowsOK'
  <2>1. PICK B : /\ hw' = [on |-> TRUE, groups |-> next.groups \cup B]
                 /\ rows' = <<Row(TRUE, next.groups \cup B)>>
    BY <1>5, UploadShape
  <2> DEFINE H == next.groups \cup B
  <2>2. hw'.groups = H /\ rows' = <<Row(TRUE, H)>>
    BY <2>1
  <2> HIDE DEF H
  <2>3. Len(rows') = 1 /\ rows'[1].on /\ rows'[1].groups = H
    BY <2>2 DEF Row
  <2>4. wipes'.count = 0
    BY <1>5 DEF Upload
  <2>5. Len(rows') = wipes'.count + 1 /\ rows'[Len(rows')].on /\ rows'[Len(rows')].groups = hw'.groups
    <3>1. Len(rows') = wipes'.count + 1
      BY <2>3, <2>4
    <3>2. rows'[Len(rows')] = rows'[1]
      BY <2>3
    <3>3. rows'[1].groups = hw'.groups
      BY <2>2, <2>3
    <3> QED BY <2>3, <3>1, <3>2, <3>3, Zenon
  <2>6. \A i \in 1..wipes'.count : FALSE
    BY <2>4
  <2> QED BY <2>5, <2>6 DEF RowsOK
<1>6. ASSUME Tick PROVE RowsOK'
  <2>1. /\ hw' = hw /\ rows' = rows
        /\ \/ SlotOf(now') = SlotOf(now) /\ wipes' = wipes
           \/ wipes' = [count |-> wipes.count, before |-> wipes.count > 0]
    BY <1>6, TickShape
  <2>2. CASE SlotOf(now') = SlotOf(now) /\ wipes' = wipes
    BY <1>3, <2>1, <2>2
  <2>3. CASE wipes' = [count |-> wipes.count, before |-> wipes.count > 0]
    <3>1. wipes'.count = wipes.count /\ (~wipes'.before => ~(wipes.count > 0))
      BY <2>3
    <3> SUFFICES ASSUME wipes.count < Recent PROVE RowsOK'
      BY <3>1 DEF RowsOK
    <3>2. \A i \in 1..wipes.count : wipes.count > 0
      BY <1>2
    <3>3. \/ hw.groups = {} /\ Len(rows) = wipes.count
          \/ /\ Len(rows) = wipes.count + 1
             /\ rows[Len(rows)].on /\ rows[Len(rows)].groups = hw.groups
      BY <1>1 DEF RowsOK
    <3>4. \A i \in 1..wipes.count : ~rows[i].on
      BY <1>1 DEF RowsOK
    <3>5. \A i \in 1..wipes'.count : ~rows'[i].on /\ (~wipes'.before => rows'[i].at = SlotOf(now'))
      BY <2>1, <3>1, <3>2, <3>4
    <3> QED BY <2>1, <3>1, <3>3, <3>5 DEF RowsOK
  <2> QED BY <2>1, <2>2, <2>3
<1>7. ASSUME Wiped, now' = now PROVE RowsOK'
  <2>1. /\ hw'.groups = hw.groups /\ rows'[1] = Row(FALSE, {})
        /\ wipes' = [count |-> wipes.count + 1, before |-> wipes.before]
        /\ Len(rows) < Recent => /\ Len(rows') = Len(rows) + 1
                                 /\ \A i \in 1..Len(rows) : rows'[i + 1] = rows[i]
    BY <1>1, <1>7, WipedType
  <2>2. wipes'.count = wipes.count + 1 /\ wipes'.before = wipes.before
    BY <2>1
  <2> SUFFICES ASSUME wipes.count + 1 < Recent PROVE RowsOK'
    BY <2>2 DEF RowsOK
  <2>3. /\ \/ hw.groups = {} /\ Len(rows) = wipes.count
           \/ /\ Len(rows) = wipes.count + 1
              /\ rows[Len(rows)].on /\ rows[Len(rows)].groups = hw.groups
        /\ \A i \in 1..wipes.count : ~rows[i].on /\ (~wipes.before => rows[i].at = SlotOf(now))
    BY <1>1, <1>2 DEF RowsOK
  <2>4. Len(rows) < Recent /\ wipes.count <= Len(rows)
    BY <1>1, <1>2, <2>3
  <2>5. Len(rows') = Len(rows) + 1 /\ \A i \in 1..Len(rows) : rows'[i + 1] = rows[i]
    BY <2>1, <2>4
  <2>6. \/ hw'.groups = {} /\ Len(rows') = wipes'.count
        \/ /\ Len(rows') = wipes'.count + 1
           /\ rows'[Len(rows')].on /\ rows'[Len(rows')].groups = hw'.groups
    <3>1. CASE hw.groups = {} /\ Len(rows) = wipes.count
      BY <2>1, <2>2, <2>5, <3>1
    <3>2. CASE Len(rows) = wipes.count + 1 /\ rows[Len(rows)].on /\ rows[Len(rows)].groups = hw.groups
      <4>1. Len(rows) \in 1..Len(rows)
        BY <1>2, <3>2
      <4>2. rows'[Len(rows')] = rows[Len(rows)]
        BY <2>5, <4>1
      <4> QED BY <2>1, <2>2, <2>5, <3>2, <4>2
    <3> QED BY <2>3, <3>1, <3>2
  <2>7. ASSUME NEW i \in 1..(wipes.count + 1)
        PROVE  ~rows'[i].on /\ (~wipes.before => rows'[i].at = SlotOf(now))
    <3>1. CASE i = 1
      <4>1. rows'[i] = [on |-> FALSE, groups |-> {}, at |-> SlotOf(now)]
        BY <2>1, <3>1 DEF Row
      <4> QED BY <4>1
    <3>2. CASE i # 1
      <4> DEFINE j == i - 1
      <4>1. j \in 1..wipes.count /\ j \in 1..Len(rows) /\ i = j + 1
        BY <1>2, <2>4, <3>2
      <4> HIDE DEF j
      <4>2. rows'[i] = rows[j]
        BY <2>5, <4>1
      <4> QED BY <2>3, <4>1, <4>2
    <3> QED BY <3>1, <3>2
  <2>8. SlotOf(now') = SlotOf(now)
    BY <1>7
  <2>9. \A i \in 1..wipes'.count : ~rows'[i].on /\ (~wipes'.before => rows'[i].at = SlotOf(now'))
    BY <2>2, <2>7, <2>8
  <2> QED BY <2>6, <2>9 DEF RowsOK
<1>8. ASSUME Quiet PROVE RowsOK'
  BY <1>3, <1>7, <1>8 DEF Quiet
<1> QED BY <1>4, <1>5, <1>6, <1>8, QuietSteps

LEMMA OpeningNext ==
  ASSUME IInv, [Next]_vars
  PROVE  OpeningOK'
<1>1. OpeningOK /\ TypeOK /\ NextOK /\ now \in Nat
  BY DEF IInv, TypeOK
<1>2. wipes.count \in Nat
  BY <1>1, ShapeAssumption DEF TypeOK
<1>3. ASSUME NEW p \in Plans, Solve(p) PROVE OpeningOK'
  BY <1>1, <1>3, SolveShape DEF OpeningOK
<1>4. ASSUME NEW negative \in BOOLEAN, Upload(negative) PROVE OpeningOK'
  <2>1. PICK B : /\ hw' = [on |-> TRUE, groups |-> next.groups \cup B]
                 /\ B = {} \/ \E k \in Keys : B = {BridgeOf(k)}
    BY <1>4, UploadShape
  <2>2. Whole(next.groups)
    BY <1>1, <1>4, BuildWhole DEF NextOK, Upload
  <2>3. Whole(B)
    BY <1>1, <2>1, BridgeShape DEF Whole
  <2> DEFINE H == next.groups \cup B
  <2>4. Whole(H)
    BY <2>2, <2>3 DEF Whole
  <2> HIDE DEF H
  <2>5. hw'.groups = H /\ hw'.on
    BY <2>1 DEF H
  <2>6. opening' = Playing(hw'.groups, Clock(now')) /\ wipes'.count = 0
    BY <1>4, <2>5 DEF Upload, Plays
  <2> QED BY <2>4, <2>5, <2>6 DEF OpeningOK
<1>5. ASSUME Tick PROVE OpeningOK'
  <2>1. /\ now' \in Nat /\ hw' = hw
        /\ \/ SlotOf(now') = SlotOf(now) /\ opening' = opening /\ wipes' = wipes
           \/ /\ opening' = Plays(hw, now')
              /\ wipes' = [count |-> wipes.count, before |-> wipes.count > 0]
    BY <1>5, TickShape
  <2>2. Whole(hw.groups) /\ (wipes.count = 0 => hw.on)
    BY <1>1 DEF OpeningOK
  <2>3. CASE SlotOf(now') = SlotOf(now) /\ opening' = opening /\ wipes' = wipes
    <3>1. /\ Clock(now) \in 0..(Day - 1) /\ Clock(now') \in 0..(Day - 1)
          /\ Clock(now) \div Minutes = SlotOf(now) % Slots /\ Clock(now') \div Minutes = SlotOf(now') % Slots
      BY <1>1, <2>1, ClockOf
    <3>2. Playing(hw.groups, Clock(now)) = Playing(hw.groups, Clock(now'))
      BY <2>2, <2>3, <3>1, PlayingWhole
    <3> QED BY <1>1, <2>1, <2>3, <3>2 DEF OpeningOK
  <2>4. CASE opening' = Plays(hw, now') /\ wipes' = [count |-> wipes.count, before |-> wipes.count > 0]
    <3>1. wipes'.count = wipes.count /\ (~wipes'.before => wipes.count = 0)
      <4>1. wipes'.count = wipes.count
        BY <2>4
      <4>2. wipes'.before = (wipes.count > 0)
        BY <2>4
      <4>3. ~(wipes.count > 0) => wipes.count = 0
        BY <1>2
      <4> QED BY <4>1, <4>2, <4>3, Zenon
    <3>2. ~wipes'.before => opening' = Playing(hw'.groups, Clock(now'))
      BY <2>1, <2>2, <2>4, <3>1 DEF Plays
    <3> QED BY <2>1, <2>2, <3>1, <3>2 DEF OpeningOK
  <2> QED BY <2>1, <2>3, <2>4
<1>6. ASSUME Quiet PROVE OpeningOK'
  <2>1. now' = now /\ opening' = opening /\ hw'.groups = hw.groups
    BY <1>6 DEF Quiet
  <2>2. CASE wipes' = wipes /\ (hw.on => hw'.on)
    BY <1>1, <2>1, <2>2 DEF OpeningOK
  <2>3. CASE Wiped
    <3>1. wipes' = [count |-> wipes.count + 1, before |-> wipes.before]
      BY <1>1, <2>3, WipedType
    <3>2. wipes'.count # 0 /\ wipes'.before = wipes.before
      BY <1>2, <3>1
    <3> QED BY <1>1, <2>1, <3>2 DEF OpeningOK
  <2> QED BY <1>6, <2>2, <2>3 DEF Quiet
<1> QED BY <1>3, <1>4, <1>5, <1>6, QuietSteps

\* The invariant is inductive.
LEMMA InvNext == IInv /\ [Next]_vars => IInv'
BY TypeNext, NextOKNext, SentNext, WipesNext, RowsNext, OpeningNext DEF IInv

LEMMA Invariance == Spec => []IInv
BY InvInit, InvNext, PTL DEF Spec

\* Clock, schedule, rows, plan and histories keep their types: the inverter is never sent more
\* groups than it takes, and the wipes are bounded by the stops.
THEOREM TypeCorrect == Spec => []TypeOK
<1>1. IInv => TypeOK
  BY DEF IInv
<1> QED BY <1>1, Invariance, PTL

\* What is played is what was decided: each half hour of the last plan sent is played in the
\* plan's mode, and charged or held as it says, as far as the groups reach.
THEOREM Decided == Spec => []AsDecided
<1>1. ASSUME IInv PROVE AsDecided
  <2> DEFINE s == SlotOf(now)
             m == Clock(now)
             f == decided.from
             p == decided.plan
             l == decided.landed
             G == BuildGroups(f, p)
  <2>1. now \in Nat /\ s \in Nat /\ m \in 0..(Day - 1) /\ m \div Minutes = s % Slots
    <3>1. now \in Nat
      BY <1>1 DEF IInv, TypeOK
    <3> QED BY <3>1, ClockOf
  <2> SUFFICES ASSUME hw.on, s \in f..(decided.tail - 1), ~Bridged(s)
               PROVE  Agrees(Plays(hw, now), p[s - f + 1])
    BY DEF AsDecided
  <2>2. f \in Nat /\ l \in Nat /\ decided.tail \in Nat
    BY <1>1 DEF IInv, TypeOK
  <2>3. /\ IsPlan(p) /\ decided.tail = ReplanAt(f, p) /\ l \in {f - 1, f} /\ G \subseteq hw.groups
        /\ \A b \in hw.groups \ G : \A n \in 0..(Day - 1) : Covers(b, n) => n \div Minutes = l % Slots
        /\ l = f /\ p[1].mode # "SelfUse" => hw.groups = G
    <3>1. ~(f = 0 /\ decided.tail = 0)
      BY <2>1, <2>2
    <3> QED BY <1>1, <3>1 DEF IInv, Sent
  <2>4. Plays(hw, now) = Playing(hw.groups, m)
    BY DEF Plays
  <2>5. ~Bridged(s) /\ Bridged(s) = (s = l /\ p[s - f + 1].mode = "SelfUse")
    BY DEF Bridged
  <2> HIDE DEF s, m, f, p, l, G
  <2> DEFINE B == hw.groups \ G
             T == ReplanAt(f, p)
  <2>6. T \in Nat /\ T <= f + Horizon /\ s \in f..(T - 1) /\ s \in Int /\ f <= s /\ s < f + Horizon
    <3>1. T \in Nat /\ T <= f + Horizon
      BY <2>2, <2>3, ReplanAtOf
    <3> QED BY <2>1, <2>2, <2>3, <3>1, Sizes
  <2>7. \A b \in B : ~Covers(b, m)
    <3> SUFFICES ASSUME NEW b \in B, Covers(b, m) PROVE FALSE
      OBVIOUS
    <3>1. s % Slots = l % Slots
      BY <2>1, <2>3
    <3>2. s - l < Slots /\ l - s < Slots /\ l \in Int /\ Slots \in Nat /\ Slots > 0
      BY <2>2, <2>3, <2>6, Sizes
    <3>3. s = l
      BY <2>6, <3>1, <3>2, Cyclic
    <3>4. s = f /\ l = f
      BY <2>2, <2>3, <2>6, <3>3
    <3>5. s - f + 1 = 1
      BY <2>2, <3>4
    <3>6. p[1].mode # "SelfUse"
      BY <2>5, <3>3, <3>5
    <3> QED BY <2>3, <3>4, <3>6
  <2>8. hw.groups = G \cup B
    BY <2>3
  <2> HIDE DEF B, T
  <2>9. hw.groups = BuildGroups(f, p) \cup B /\ s \in f..(ReplanAt(f, p) - 1)
    BY <2>6, <2>8 DEF G, T
  <2>10. Agrees(Playing(hw.groups, m), p[s - f + 1])
    BY <2>1, <2>2, <2>3, <2>7, <2>9, PlayingPlan
  <2> QED BY <2>4, <2>10
<1> QED BY <1>1, Invariance, PTL

\* Which row the bridge finds: none when nothing was ever sent, and otherwise that of the
\* last upload, with the groups the inverter has.
LEMMA InForceOf ==
  ASSUME IInv, ~wipes.before, wipes.count < Recent
  PROVE  \/ InForce = {} /\ hw.groups = {}
         \/ \E r : InForce = {r} /\ r.groups = hw.groups
<1>1. wipes.count \in Nat /\ DOMAIN rows = 1..Len(rows) /\ Len(rows) \in Nat
  BY ShapeAssumption DEF IInv, TypeOK
<1>2. /\ \/ hw.groups = {} /\ Len(rows) = wipes.count
         \/ /\ Len(rows) = wipes.count + 1
            /\ rows[Len(rows)].on /\ rows[Len(rows)].groups = hw.groups
      /\ \A i \in 1..wipes.count : ~rows[i].on /\ rows[i].at = SlotOf(now)
  BY DEF IInv, RowsOK
<1>3. \A i \in 1..wipes.count : i \notin Verdicts
  <2>1. now \in Nat
    BY DEF IInv, TypeOK
  <2>2. SlotOf(now) \in Nat
    BY <2>1, ClockOf
  <2>3. ~(SlotOf(now) < SlotOf(now))
    BY <2>2
  <2> QED BY <1>2, <2>3 DEF Verdicts
<1>4. CASE hw.groups = {} /\ Len(rows) = wipes.count
  <2>1. Verdicts = {}
    BY <1>1, <1>3, <1>4 DEF Verdicts
  <2> QED BY <1>4, <2>1 DEF InForce
<1>5. CASE Len(rows) = wipes.count + 1 /\ rows[Len(rows)].on /\ rows[Len(rows)].groups = hw.groups
  <2> DEFINE n == Len(rows)
  <2>1. n \in DOMAIN rows
    BY <1>1, <1>5
  <2>2. n \in Verdicts
    BY <1>5, <2>1 DEF Verdicts
  <2>3. \A i \in Verdicts : i = n
    <3> SUFFICES ASSUME NEW i \in Verdicts PROVE i = n
      OBVIOUS
    <3>1. i \in 1..Len(rows)
      BY <1>1 DEF Verdicts
    <3>2. i \notin 1..wipes.count
      BY <1>3
    <3> QED BY <1>1, <1>5, <3>1, <3>2
  <2>4. Verdicts = {n}
    BY <2>2, <2>3
  <2>5. n <= n
    BY <1>1
  <2> HIDE DEF n
  <2>6. (CHOOSE i \in Verdicts : \A j \in Verdicts : i <= j) = n
    BY <2>4, <2>5
  <2>7. rows[n].on /\ rows[n].groups = hw.groups
    BY <1>5 DEF n
  <2>8. InForce = {rows[n]}
    BY <2>4, <2>6, <2>7 DEF InForce
  <2> QED BY <2>7, <2>8
<1> QED BY <1>2, <1>4, <1>5

\* A bridge that is alone on its half hour, and only it, is played there.
LEMMA PlayingBridge ==
  ASSUME NEW G, NEW b, NEW m, \A g \in G : ~Covers(g, m), Covers(b, m)
  PROVE  Playing(G, m) = SelfUse /\ Playing(G \cup {b}, m) = b.key
<1>1. Playing(G, m) = SelfUse
  BY DEF Playing
<1> DEFINE H == G \cup {b}
<1>2. b \in H /\ Covers(b, m) /\ \A g \in H : Covers(g, m) => g = b
  OBVIOUS
<1> HIDE DEF H
<1>3. (CHOOSE g \in H : Covers(g, m)) = b
  BY <1>2
<1>4. Playing(H, m) = b.key
  BY <1>2, <1>3 DEF Playing
<1> QED BY <1>1, <1>4 DEF H

\* A plan that begins at the next half hour keeps off the one under way: it has no group that
\* decides it, covers it, or overlaps with a bridge over it.
LEMMA Ahead ==
  ASSUME now \in Nat, NEW f \in Nat, f = SlotOf(now) + 1, NEW p, IsPlan(p), NEW k \in Keys
  PROVE  /\ ~Decides(BuildGroups(f, p))
         /\ \A g \in BuildGroups(f, p) : ~Covers(g, Clock(now))
         /\ Covers(BridgeOf(k), Clock(now))
         /\ ~Overlapping(BuildGroups(f, p) \cup {BridgeOf(k)})
<1> DEFINE u == SlotOf(now) % Slots
           m == Clock(now)
           G == BuildGroups(f, p)
           b == BridgeOf(k)
           e == u * Minutes
<1>1. /\ u \in 0..(Slots - 1) /\ Clock(Opens(now)) = e /\ m \in 0..(Day - 1) /\ m \div Minutes = u
      /\ b.start = e /\ b.end = e + Minutes - 1
      /\ Covers(b, m)
  BY BridgeShape
<1>2. \A s \in f..(f + Horizon - 1) : s % Slots # u
  <2> SUFFICES ASSUME NEW s \in f..(f + Horizon - 1), s % Slots = u PROVE FALSE
    OBVIOUS
  <2>1. SlotOf(now) = f - 1 /\ f - 1 \in Int /\ s \in Int
    <3>1. SlotOf(now) \in Nat
      BY ClockOf
    <3>2. s \in Int
      OBVIOUS
    <3> QED BY <3>1, <3>2
  <2>2. s - (f - 1) < Slots /\ (f - 1) - s < Slots /\ Slots \in Nat /\ Slots > 0
    BY Sizes
  <2>3. s % Slots = (f - 1) % Slots
    BY <2>1
  <2>4. s = f - 1
    BY <2>1, <2>2, <2>3, Cyclic
  <2> QED BY <2>4
<1> HIDE DEF u
<1>3. \A g \in G : /\ ~(g.start < e + Minutes /\ e < PastEnd(g.end))
                   /\ ~(g.start < e + Minutes - 1 /\ e < g.end)
  BY <1>1, <1>2, BuildMeets
<1>4. ~Decides(G)
  BY <1>1, <1>3 DEF Decides
<1>5. \A g \in G : ~Covers(g, m)
  <2> SUFFICES ASSUME NEW g \in G, Covers(g, m) PROVE FALSE
    OBVIOUS
  <2>1. \E s \in f..(f + Horizon - 1) : s % Slots = m \div Minutes
    BY <1>1, BuildCovers
  <2> QED BY <1>1, <1>2, <2>1
<1>6. ~Overlapping(G)
  BY BuildSeparate
<1> HIDE DEF G, b, e, m
<1>7. ~Overlapping(G \cup {b})
  <2> SUFFICES ASSUME NEW g \in G \cup {b}, NEW h \in G \cup {b}, g # h, Overlap(g, h) PROVE FALSE
    BY DEF Overlapping
  <2>1. CASE g \in G /\ h \in G
    BY <1>6, <2>1 DEF Overlapping
  <2>2. CASE g = b /\ h \in G
    BY <1>1, <1>3, <2>2 DEF Overlap
  <2>3. CASE h = b /\ g \in G
    BY <1>1, <1>3, <2>3 DEF Overlap
  <2> QED BY <2>1, <2>2, <2>3
<1> QED BY <1>1, <1>4, <1>5, <1>7 DEF G, b, m

\* An upload within a half hour does not change what that half hour is played as, unless the
\* plan, the groups' limit, a hidden schedule or a negative price has it so.
LEMMA LiveStep ==
  ASSUME IInv, NEW negative \in BOOLEAN, Upload(negative), SlotOf(now) < next.from,
         Cardinality(next.groups) < Cap, ~wipes.before, wipes.count < Recent
  PROVE  Plays(hw', now) = opening \/ (opening = SelfUse /\ negative)
<1> DEFINE G == next.groups
           m == Clock(now)
           o == opening
<1>1. /\ now \in Nat /\ SlotOf(now) \in Nat /\ TypeOK
  <2>1. now \in Nat /\ TypeOK
    BY DEF IInv, TypeOK
  <2> QED BY <2>1, ClockOf
<1>2. /\ next.from \in Nat /\ IsPlan(next.plan) /\ G = BuildGroups(next.from, next.plan)
      /\ next.from = SlotOf(now) + 1
  <2>1. /\ next.from \in Nat /\ IsPlan(next.plan) /\ G = BuildGroups(next.from, next.plan)
        /\ SlotOf(now) \in {next.from - 1, next.from}
    BY DEF IInv, NextOK, Upload
  <2> QED BY <1>1, <2>1
<1>3. \A k \in Keys : /\ ~Decides(G)
                      /\ \A g \in G : ~Covers(g, m)
                      /\ Covers(BridgeOf(k), m)
                      /\ ~Overlapping(G \cup {BridgeOf(k)})
  <2> DEFINE f == next.from
             p == next.plan
  <2>1. f \in Nat /\ IsPlan(p) /\ G = BuildGroups(f, p) /\ f = SlotOf(now) + 1
    BY <1>2
  <2> HIDE DEF f, p, G, m
  <2> SUFFICES ASSUME NEW k \in Keys
               PROVE  /\ ~Decides(G)
                      /\ \A g \in G : ~Covers(g, m)
                      /\ Covers(BridgeOf(k), m)
                      /\ ~Overlapping(G \cup {BridgeOf(k)})
    OBVIOUS
  <2> QED BY <1>1, <2>1, Ahead DEF m
<1>4. o \in Keys /\ (o.mode = "SelfUse" => o = SelfUse) /\ SelfUse \in Keys
  BY <1>1, ShapeAssumption DEF TypeOK
<1>5. o = Playing(hw.groups, m)
  BY DEF IInv, OpeningOK
<1>6. Plays(hw', now) = Playing(Candidate(G, negative), m)
  <2>1. PICK B : /\ hw' = [on |-> TRUE, groups |-> G \cup B]
                 /\ Candidate(G, negative) = G \cup B
    BY UploadShape
  <2> DEFINE H == G \cup B
  <2>2. hw' = [on |-> TRUE, groups |-> H] /\ Candidate(G, negative) = H
    BY <2>1
  <2> HIDE DEF H
  <2>3. hw'.on /\ hw'.groups = H
    BY <2>2
  <2> QED BY <2>2, <2>3 DEF Plays
<1>7. ~(Cardinality(G) >= Cap)
  <2>1. Cardinality(G) \in Nat /\ Cap \in Nat
    BY <1>2, BuildSize, ShapeAssumption
  <2> QED BY <2>1
<1> HIDE DEF G, m, o
<1>8. Bridge(G, negative) = {BridgeOf(k) : k \in Carried \cup Advanced(G, negative)}
  BY <1>3, <1>4, <1>7 DEF Bridge
<1>9. Bridge(G, negative) = {} => Plays(hw', now) = SelfUse
  <2>1. Bridge(G, negative) = {} => Candidate(G, negative) = G
    BY DEF Candidate
  <2>2. Playing(G, m) = SelfUse
    BY <1>3, <1>4 DEF Playing
  <2> QED BY <1>6, <2>1, <2>2
<1>10. Bridge(G, negative) = {BridgeOf(o)} => Plays(hw', now) = o
  <2>1. Bridge(G, negative) = {BridgeOf(o)} => Candidate(G, negative) = G \cup {BridgeOf(o)}
    BY <1>3, <1>4 DEF Candidate
  <2>2. Playing(G \cup {BridgeOf(o)}, m) = BridgeOf(o).key
    BY <1>3, <1>4, PlayingBridge
  <2>3. BridgeOf(o).key = o
    BY DEF BridgeOf
  <2> QED BY <1>6, <2>1, <2>2, <2>3
<1>11. CASE InForce = {} /\ hw.groups = {}
  <2>1. o = SelfUse
    BY <1>5, <1>11 DEF Playing
  <2>2. Carried = {}
    BY <1>11 DEF Carried
  <2>3. ~negative => Advanced(G, negative) = {}
    BY DEF Advanced
  <2>4. ~negative => Bridge(G, negative) = {}
    BY <1>8, <2>2, <2>3
  <2> QED BY <1>9, <2>1, <2>4 DEF o
<1>12. CASE \E r : InForce = {r} /\ r.groups = hw.groups
  <2>1. PICK r : InForce = {r} /\ r.groups = hw.groups
    BY <1>12
  <2>2. Advanced(G, negative) = {}
    BY <2>1 DEF Advanced
  <2>3. {Playing(q.groups, Clock(now)) : q \in InForce} = {o}
    BY <1>5, <2>1 DEF m
  <2>4. Carried = {k \in {o} : k.mode # "SelfUse"}
    BY <2>3 DEF Carried
  <2>5. CASE o.mode = "SelfUse"
    <3>1. Carried = {}
      BY <2>4, <2>5
    <3>2. Bridge(G, negative) = {}
      BY <1>8, <2>2, <3>1
    <3> QED BY <1>4, <1>9, <2>5, <3>2 DEF o
  <2>6. CASE o.mode # "SelfUse"
    <3>1. Carried \cup Advanced(G, negative) = {o}
      BY <2>2, <2>4, <2>6
    <3>2. Bridge(G, negative) = {BridgeOf(o)}
      BY <1>8, <3>1
    <3> QED BY <1>10, <3>2 DEF o
  <2> QED BY <2>5, <2>6
<1> QED BY <1>11, <1>12, InForceOf

\* The half hour under way survives an upload: it is played as it was, unless the plan decides
\* it, there is no room for the bridge, what was in force is hidden, or the price is negative.
THEOREM Live == Spec => LiveSlot
<1>1. IInv /\ [Next]_vars =>
        [\A negative \in BOOLEAN :
           /\ Upload(negative)
           /\ SlotOf(now) < next.from
           /\ Cardinality(next.groups) < Cap
           /\ ~wipes.before /\ wipes.count < Recent
           => Plays(hw', now) = opening \/ (opening = SelfUse /\ negative)]_vars
  BY LiveStep
<1> QED BY <1>1, Invariance, PTL DEF Spec, LiveSlot

=============================================================================

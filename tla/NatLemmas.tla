------------------------------ MODULE NatLemmas ------------------------------
(***************************************************************************)
(* Facts about numbers that the proofs about several components need: the  *)
(* remainder, by which ring buffers and counters of C wrap around, and the *)
(* stretch of a ring buffer from one counter to another.                   *)
(***************************************************************************)
EXTENDS Integers, Sequences, TLAPS

\* Quotient and remainder.
LEMMA DivMod ==
  ASSUME NEW a \in Int, NEW d \in Nat \ {0}
  PROVE  /\ (a % d) \in 0..d - 1
         /\ (a \div d) \in Int
         /\ a = d * (a \div d) + (a % d)
OBVIOUS

\* A number has one remainder.
LEMMA ModUnique ==
  ASSUME NEW a \in Int, NEW d \in Nat \ {0}, NEW q \in Int, NEW r \in 0..d - 1,
         a = d * q + r
  PROVE  a % d = r
<1> DEFINE k == a \div d
           s == a % d
<1>1. k \in Int /\ s \in 0..d - 1 /\ a = d * k + s
  BY DivMod
<1> HIDE DEF k, s
<1>2. d * (k - q) = r - s
  BY <1>1
<1>3. CASE k - q >= 1
  <2>1. d * (k - q) >= d
    BY <1>1, <1>3
  <2> QED
    BY <2>1, <1>2, <1>1
<1>4. CASE k - q <= -1
  <2>1. d * (k - q) <= -d
    BY <1>1, <1>4
  <2> QED
    BY <2>1, <1>2, <1>1
<1>5. CASE k = q
  BY <1>1, <1>5, <1>2 DEF s
<1> QED
  BY <1>1, <1>3, <1>4, <1>5

\* A counter below its bound.
LEMMA ModBelow ==
  ASSUME NEW d \in Nat \ {0}, NEW a \in 0..d - 1
  PROVE  a % d = a
<1>1. a \in Int /\ a = d * 0 + a
  OBVIOUS
<1> QED
  BY <1>1, ModUnique

\* A counter that has just passed its bound.
LEMMA ModOver ==
  ASSUME NEW d \in Nat \ {0}, NEW a \in Int, a - d \in 0..d - 1
  PROVE  a % d = a - d
<1>1. a = d * 1 + (a - d)
  OBVIOUS
<1> QED
  BY <1>1, ModUnique

\* A difference of two counters one of which has wrapped.
LEMMA ModUnder ==
  ASSUME NEW d \in Nat \ {0}, NEW a \in Int, a + d \in 0..d - 1
  PROVE  a % d = a + d
<1>1. a = d * (-1) + (a + d)
  OBVIOUS
<1> QED
  BY <1>1, ModUnique

\* The next value of a counter that wraps at d.
LEMMA ModNext ==
  ASSUME NEW d \in Nat \ {0}, NEW a \in 0..d - 1
  PROVE  /\ a < d - 1 => (a + 1) % d = a + 1
         /\ a = d - 1 => (a + 1) % d = 0
<1>1. CASE a < d - 1
  <2>1. a + 1 \in 0..d - 1
    BY <1>1
  <2> QED
    BY <1>1, <2>1, ModBelow
<1>2. CASE a = d - 1
  <2>1. a + 1 \in Int /\ (a + 1) - d \in 0..d - 1 /\ (a + 1) - d = 0
    BY <1>2
  <2> QED
    BY <1>2, <2>1, ModOver
<1> QED
  BY <1>1, <1>2

\* Adding multiples of d does not change the remainder.
LEMMA ModShift ==
  ASSUME NEW d \in Nat \ {0}, NEW a \in Int, NEW k \in Int
  PROVE  (a + d * k) % d = a % d
<1> DEFINE q == a \div d
           r == a % d
<1>1. q \in Int /\ r \in 0..d - 1 /\ a = d * q + r
  BY DivMod
<1> HIDE DEF q, r
<1>2. a + d * k = d * (q + k) + r
  BY <1>1
<1>3. a + d * k \in Int /\ q + k \in Int
  BY <1>1
<1>4. (a + d * k) % d = r
  BY <1>1, <1>2, <1>3, ModUnique
<1> QED
  BY <1>4 DEF r

\* A counter that wraps at a multiple of d keeps its remainder by d.
LEMMA ModMod ==
  ASSUME NEW d \in Nat \ {0}, NEW m \in Nat \ {0}, m % d = 0, NEW a \in Int
  PROVE  (a % m) % d = a % d
<1> DEFINE k == m \div d
           q == a \div m
           r == a % m
<1>1. k \in Int /\ m = d * k
  BY DivMod
<1>2. q \in Int /\ r \in Int /\ a = m * q + r
  BY DivMod
<1> HIDE DEF k, q, r
<1>3. m * q = d * (k * q) /\ k * q \in Int
  BY <1>1, <1>2
<1>4. a = r + d * (k * q)
  BY <1>2, <1>3
<1>5. a % d = r % d
  BY <1>2, <1>3, <1>4, ModShift, Zenon
<1> QED
  BY <1>5 DEF r

\* Numbers less than d apart have different remainders.
LEMMA ModDistinct ==
  ASSUME NEW d \in Nat \ {0}, NEW a \in Int, NEW b \in Int, a < b, b < a + d
  PROVE  a % d # b % d
<1> DEFINE q == a \div d
           r == a % d
           k == b \div d
           s == b % d
<1>1. q \in Int /\ r \in 0..d - 1 /\ a = d * q + r
  BY DivMod
<1>2. k \in Int /\ s \in 0..d - 1 /\ b = d * k + s
  BY DivMod
<1> HIDE DEF q, r, k, s
<1>3. ASSUME r = s PROVE FALSE
  <2>1. d * (k - q) = b - a
    BY <1>1, <1>2, <1>3
  <2>2. CASE k - q >= 1
    <3>1. d * (k - q) >= d
      BY <1>1, <1>2, <2>2
    <3> QED
      BY <2>1, <3>1
  <2>3. CASE k - q <= 0
    <3>1. d * (k - q) <= 0
      BY <1>1, <1>2, <2>3
    <3> QED
      BY <2>1, <3>1
  <2> QED
    BY <1>1, <1>2, <2>2, <2>3
<1> QED
  BY <1>3 DEF r, s

-----------------------------------------------------------------------------
\* d is the array of a ring buffer of m slots with elements of S.
IsRing(d, m, S) == m \in Nat \ {0} /\ d \in [0..m - 1 -> S]

\* The k elements of a ring buffer d of m slots from position a on.
Window(d, m, a, k) == [i \in 1..k |-> d[(a + i - 1) % m]]

\* The ring d after a store of v at i.
Stored(d, i, v) == [d EXCEPT ![i] = v]

\* A window of k elements from a on leaves room for v.
CanStore(S, m, d, v, a, k) ==
  IsRing(d, m, S) /\ v \in S /\ a \in Nat /\ k \in Nat /\ k < m

\* A window has k elements, all from the buffer.
LEMMA WindowSeq ==
  ASSUME NEW S, NEW m, NEW d, IsRing(d, m, S), NEW a \in Nat, NEW k \in Nat
  PROVE  Window(d, m, a, k) \in Seq(S) /\ Len(Window(d, m, a, k)) = k
<1>1. ASSUME NEW i \in 1..k PROVE d[(a + i - 1) % m] \in S
  <2>1. a + i - 1 \in Int
    OBVIOUS
  <2>2. (a + i - 1) % m \in 0..m - 1
    BY <2>1, DivMod DEF IsRing
  <2> QED
    BY <2>2 DEF IsRing
<1>2. Window(d, m, a, k) \in [1..k -> S]
  BY <1>1, Zenon DEF Window
<1> QED
  BY <1>2

\* Head and tail of a sequence as a function.
LEMMA TailIs ==
  ASSUME NEW S, NEW s \in Seq(S), s # <<>>
  PROVE  /\ Head(s) = s[1]
         /\ Tail(s) = [i \in 1..Len(s) - 1 |-> s[i + 1]]
<1>1. Tail(s) \in Seq(S) /\ Len(Tail(s)) = Len(s) - 1 /\ Len(s) \in Nat
  OBVIOUS
<1>2. \A i \in 1..Len(s) - 1 : Tail(s)[i] = s[i + 1]
  OBVIOUS
<1>3. ASSUME NEW t \in Seq(S), Len(t) = Len(s) - 1,
             \A i \in 1..Len(s) - 1 : t[i] = s[i + 1]
      PROVE  t = [i \in 1..Len(s) - 1 |-> s[i + 1]]
  BY <1>3
<1>4. Tail(s) = [i \in 1..Len(s) - 1 |-> s[i + 1]]
  BY <1>1, <1>2, <1>3, Zenon
<1>5. Head(s) = s[1]
  OBVIOUS
<1> QED
  BY <1>4, <1>5

\* Append as a function.
LEMMA AppendIs ==
  ASSUME NEW S, NEW s \in Seq(S), NEW v \in S
  PROVE  Append(s, v) = [i \in 1..Len(s) + 1 |-> IF i = Len(s) + 1 THEN v
                                                 ELSE s[i]]
<1>1. Append(s, v) \in Seq(S) /\ Len(Append(s, v)) = Len(s) + 1
  OBVIOUS
<1>2. \A i \in 1..Len(s) + 1 :
        Append(s, v)[i] = IF i = Len(s) + 1 THEN v ELSE s[i]
  OBVIOUS
<1>3. ASSUME NEW t \in Seq(S), Len(t) = Len(s) + 1,
             \A i \in 1..Len(s) + 1 : t[i] = IF i = Len(s) + 1 THEN v ELSE s[i]
      PROVE  t = [i \in 1..Len(s) + 1 |-> IF i = Len(s) + 1 THEN v ELSE s[i]]
  BY <1>3
<1> QED
  BY <1>1, <1>2, <1>3, Zenon

\* Only the remainder of the position matters, also after it has wrapped.
LEMMA WindowWrap ==
  ASSUME NEW S, NEW m, NEW d, IsRing(d, m, S),
         NEW w \in Nat \ {0}, w % m = 0,
         NEW a \in Nat, NEW b, b = a % w, NEW k \in Nat
  PROVE  Window(d, m, b, k) = Window(d, m, a, k)
<1>0. m \in Nat \ {0}
  BY DEF IsRing
<1>1. PICK q \in Int : a = b + m * q /\ b \in Int
  <2> DEFINE u == w \div m
             t == a \div w
  <2>1. u \in Int /\ w = m * u
    BY <1>0, DivMod
  <2>2. t \in Int /\ b \in Int /\ a = w * t + b
    BY DivMod
  <2> HIDE DEF u, t
  <2>3. w * t = m * (u * t) /\ u * t \in Int
    BY <1>0, <2>1, <2>2
  <2>4. a = b + m * (u * t)
    BY <2>2, <2>3
  <2> QED
    BY <2>2, <2>3, <2>4
<1>2. ASSUME NEW i \in 1..k
      PROVE  (b + i - 1) % m = (a + i - 1) % m
  <2> DEFINE c == b + i - 1
  <2>1. c \in Int /\ a + i - 1 = c + m * q
    BY <1>1, <1>0
  <2> HIDE DEF c
  <2>2. (c + m * q) % m = c % m
    BY <1>0, <1>1, <2>1, ModShift, Zenon
  <2>3. (a + i - 1) % m = c % m
    BY <2>1, <2>2
  <2> QED
    BY <2>3 DEF c
<1> QED
  BY <1>2 DEF Window

\* Storing behind a window that leaves room appends to it.
LEMMA WindowAppend ==
  ASSUME NEW S, NEW m, NEW d, NEW v, NEW a, NEW k, CanStore(S, m, d, v, a, k)
  PROVE  Window(Stored(d, (a + k) % m, v), m, a, k + 1)
           = Append(Window(d, m, a, k), v)
<1> DEFINE at == (a + k) % m
           f == Stored(d, at, v)
<1>0. /\ m \in Nat \ {0} /\ d \in [0..m - 1 -> S] /\ IsRing(d, m, S)
      /\ v \in S /\ a \in Nat /\ k \in Nat /\ k < m
  BY DEF CanStore, IsRing
<1>1. at \in 0..m - 1
  <2>1. a + k \in Int
    BY <1>0
  <2> QED
    BY <1>0, <2>1, DivMod, Zenon
<1>2. f[at] = v /\ \A j \in 0..m - 1 : j # at => f[j] = d[j]
  BY <1>0, <1>1 DEF Stored
<1> HIDE DEF f
<1>3. ASSUME NEW i \in 1..k
      PROVE  f[(a + i - 1) % m] = d[(a + i - 1) % m]
  <2>1. a + i - 1 \in Int /\ a + k \in Int
        /\ a + i - 1 < a + k /\ a + k < (a + i - 1) + m
    BY <1>0
  <2>2. (a + i - 1) % m # at /\ (a + i - 1) % m \in 0..m - 1
    BY <1>0, <2>1, ModDistinct, DivMod, Zenon
  <2> QED
    BY <1>2, <2>2
<1>4. a + (k + 1) - 1 = a + k
  BY <1>0
<1> DEFINE s == Window(d, m, a, k)
<1>5. s \in Seq(S) /\ Len(s) = k
  BY <1>0, WindowSeq
<1>6. \A i \in 1..k : f[(a + i - 1) % m] = s[i]
  BY <1>3 DEF Window
<1>7. f[(a + (k + 1) - 1) % m] = v
  BY <1>2, <1>4
<1>8. Window(f, m, a, k + 1) = [i \in 1..k + 1 |-> f[(a + i - 1) % m]]
  BY DEF Window
<1> HIDE DEF s
<1>9. ASSUME NEW i \in 1..k + 1
      PROVE  f[(a + i - 1) % m] = IF i = k + 1 THEN v ELSE s[i]
  <2>1. i = k + 1 \/ i \in 1..k
    BY <1>0
  <2> QED
    BY <1>0, <1>6, <1>7, <2>1, Zenon
<1>10. Window(f, m, a, k + 1)
         = [i \in 1..k + 1 |-> IF i = k + 1 THEN v ELSE s[i]]
  BY <1>8, <1>9, Zenon
<1>11. Append(s, v) = [i \in 1..k + 1 |-> IF i = k + 1 THEN v ELSE s[i]]
  BY <1>0, <1>5, AppendIs
<1> QED
  BY <1>10, <1>11 DEF s, f

\* The first element.
LEMMA WindowHead ==
  ASSUME NEW S, NEW m, NEW d, IsRing(d, m, S), NEW a \in Nat,
         NEW k \in Nat, k > 0
  PROVE  Window(d, m, a, k) # <<>> /\ Head(Window(d, m, a, k)) = d[a % m]
<1>1. Window(d, m, a, k) \in Seq(S) /\ Len(Window(d, m, a, k)) = k
  BY WindowSeq
<1>2. Window(d, m, a, k) # <<>>
  BY <1>1
<1>3. Head(Window(d, m, a, k)) = Window(d, m, a, k)[1]
  BY <1>1, <1>2, TailIs
<1>4. a + 1 - 1 = a /\ 1 \in 1..k
  OBVIOUS
<1> QED
  BY <1>2, <1>3, <1>4 DEF Window

\* Moving the position by one drops the first element.
LEMMA WindowTail ==
  ASSUME NEW S, NEW m, NEW d, IsRing(d, m, S), NEW a \in Nat,
         NEW k \in Nat, k > 0
  PROVE  Tail(Window(d, m, a, k)) = Window(d, m, a + 1, k - 1)
<1> DEFINE s == Window(d, m, a, k)
<1>1. s \in Seq(S) /\ Len(s) = k
  BY WindowSeq
<1>2. \A i \in 1..k : s[i] = d[(a + i - 1) % m]
  BY DEF Window
<1>3. \A i \in 1..k - 1 : i + 1 \in 1..k /\ a + (i + 1) - 1 = (a + 1) + i - 1
  OBVIOUS
<1>4. \A i \in 1..k - 1 : s[i + 1] = d[((a + 1) + i - 1) % m]
  BY <1>2, <1>3
<1> HIDE DEF s
<1>5. Tail(s) = [i \in 1..k - 1 |-> s[i + 1]]
  BY <1>1, TailIs
<1>6. Tail(s) = Window(d, m, a + 1, k - 1)
  BY <1>4, <1>5 DEF Window
<1> QED
  BY <1>6 DEF s
\* Names for three operations on sequences: the provers find the instance of
\* a lemma that is stated with them, and not with the operations themselves.
Cat(s, t) == s \o t
Added(s, v) == Append(s, v)
Cut(s) == SubSeq(s, 1, Len(s) - 1)

\* A window of length 0.
LEMMA WindowEmpty ==
  ASSUME NEW m, NEW d, NEW a
  PROVE  Window(d, m, a, 0) = <<>>
BY DEF Window

\* Dropping the last element.
LEMMA WindowFront ==
  ASSUME NEW S, NEW m, NEW d, IsRing(d, m, S), NEW a \in Nat,
         NEW k \in Nat, k > 0
  PROVE  Cut(Window(d, m, a, k)) = Window(d, m, a, k - 1)
<1> DEFINE s == Window(d, m, a, k)
<1>1. s \in Seq(S) /\ Len(s) = k
  BY WindowSeq
<1>2. \A i \in 1..k - 1 : s[i] = d[(a + i - 1) % m]
  BY DEF Window
<1> HIDE DEF s
<1>3. SubSeq(s, 1, k - 1) = [i \in 1..k - 1 |-> s[i]]
  BY <1>1
<1>4. SubSeq(s, 1, k - 1) = Window(d, m, a, k - 1)
  BY <1>2, <1>3 DEF Window
<1> QED
  BY <1>1, <1>4 DEF s, Cut

\* Appending to the second of two sequences.
LEMMA ConcatAppend ==
  ASSUME NEW S, NEW s \in Seq(S), NEW t \in Seq(S), NEW v \in S
  PROVE  Added(Cat(s, t), v) = Cat(s, Added(t, v))
<1> DEFINE x == Append(s \o t, v)
           y == s \o Append(t, v)
<1>1. x \in Seq(S) /\ Len(x) = Len(s) + Len(t) + 1
  OBVIOUS
<1>2. y \in Seq(S) /\ Len(y) = Len(s) + Len(t) + 1
  OBVIOUS
<1>3. ASSUME NEW i \in 1..Len(s) + Len(t) + 1
      PROVE  x[i] = y[i]
  OBVIOUS
<1> HIDE DEF x, y
<1>4. x = y
  BY <1>1, <1>2, <1>3
<1> QED
  BY <1>4 DEF x, y, Cat, Added

\* Two windows, one behind the other.
LEMMA WindowConcat ==
  ASSUME NEW S, NEW m, NEW d, IsRing(d, m, S), NEW a \in Nat,
         NEW k \in Nat, NEW l \in Nat
  PROVE  Cat(Window(d, m, a, k), Window(d, m, a + k, l))
           = Window(d, m, a, k + l)
<1> DEFINE s == Window(d, m, a, k)
           t == Window(d, m, a + k, l)
<1>0. a + k \in Nat
  OBVIOUS
<1>1. s \in Seq(S) /\ Len(s) = k
  BY WindowSeq
<1>2. t \in Seq(S) /\ Len(t) = l
  BY <1>0, WindowSeq
<1>3. ASSUME NEW i \in 1..k + l
      PROVE  (IF i <= k THEN s[i] ELSE t[i - k]) = d[(a + i - 1) % m]
  <2>1. CASE i <= k
    BY <2>1 DEF Window
  <2>2. CASE i > k
    <3>1. i - k \in 1..l /\ (a + k) + (i - k) - 1 = a + i - 1 /\ ~(i <= k)
      BY <2>2
    <3>2. t[i - k] = d[((a + k) + (i - k) - 1) % m]
      BY <3>1 DEF Window
    <3> QED
      BY <3>1, <3>2
  <2> QED
    BY <2>1, <2>2
<1> HIDE DEF s, t
<1>4. /\ s \o t \in Seq(S) /\ Len(s \o t) = k + l
      /\ \A i \in 1..k + l : (s \o t)[i] = IF i <= k THEN s[i] ELSE t[i - k]
  BY <1>1, <1>2
<1>5. ASSUME NEW u \in Seq(S), Len(u) = k + l,
             \A i \in 1..k + l : u[i] = d[(a + i - 1) % m]
      PROVE  u = [i \in 1..k + l |-> d[(a + i - 1) % m]]
  BY <1>5
<1>6. s \o t = Window(d, m, a, k + l)
  BY <1>3, <1>4, <1>5, Zenon DEF Window
<1> QED
  BY <1>6 DEF s, t, Cat

\* Storing behind a window that leaves room, at a distance of l.
LEMMA WindowKeep ==
  ASSUME NEW S, NEW m, NEW d, NEW v, NEW a, NEW l, CanStore(S, m, d, v, a, l),
         NEW k \in 0..l
  PROVE  Window(Stored(d, (a + l) % m, v), m, a, k) = Window(d, m, a, k)
<1> DEFINE at == (a + l) % m
           f == Stored(d, at, v)
<1>0. /\ m \in Nat \ {0} /\ d \in [0..m - 1 -> S]
      /\ a \in Nat /\ l \in Nat /\ l < m
  BY DEF CanStore, IsRing
<1>1. \A j \in 0..m - 1 : j # at => f[j] = d[j]
  BY <1>0 DEF Stored
<1> HIDE DEF f
<1>2. ASSUME NEW i \in 1..k
      PROVE  f[(a + i - 1) % m] = d[(a + i - 1) % m]
  <2>1. a + i - 1 \in Int /\ a + l \in Int
        /\ a + i - 1 < a + l /\ a + l < (a + i - 1) + m
    BY <1>0
  <2>2. (a + i - 1) % m # at /\ (a + i - 1) % m \in 0..m - 1
    BY <1>0, <2>1, ModDistinct, DivMod, Zenon
  <2> QED
    BY <1>1, <2>2
<1>3. Window(f, m, a, k) = Window(d, m, a, k)
  BY <1>2 DEF Window
<1> QED
  BY <1>3 DEF f
=============================================================================

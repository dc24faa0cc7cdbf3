----------------------------- MODULE PebbleProofs -----------------------------
(***************************************************************************)
(* Proofs about module PebbleStore: big-endian keys sort as the indexes    *)
(* they hold, the store has no gap, and on byte keys it does what module   *)
(* RaftStore says, for every byte size, index width, batch and crash.      *)
(*                                                                         *)
(* Induction takes the least counterexample: WFMin on the order of Nat.    *)
(***************************************************************************)
EXTENDS PebbleStore, TLAPS, WellFoundedInduction

(* The order of the natural numbers as a relation. *)
LEMMA LessThan ==
  ASSUME NEW m \in Nat, NEW n \in Nat, m < n
  PROVE  <<m, n>> \in OpToRel(<, Nat)
  BY DEF OpToRel

(* A set of natural numbers has a least element. *)
LEMMA Smallest ==
  ASSUME NEW S \in SUBSET Nat, S # {}
  PROVE  \E n \in S : \A m \in S : n <= m
<1>1. PICK n \in S : \A m \in S : ~(<<m, n>> \in OpToRel(<, Nat))
  BY NatLessThanWellFounded, WFMin
<1>2. \A m \in S : ~(m < n)
  BY <1>1, LessThan
<1>3. QED
  BY <1>2

(* A bounded set of natural numbers has a greatest element. *)
LEMMA Largest ==
  ASSUME NEW S \in SUBSET Nat, S # {}, NEW b \in Nat, \A m \in S : m <= b
  PROVE  \E n \in S : \A m \in S : m <= n
<1> DEFINE T == {b - m : m \in S}
<1>1. T \in SUBSET Nat /\ T # {}
  <2>1. PICK m : m \in S
    OBVIOUS
  <2>2. b - m \in T
    BY <2>1
  <2>3. \A x \in S : b - x \in Nat
    OBVIOUS
  <2>4. QED
    BY <2>2, <2>3
<1>2. PICK t \in T : \A x \in T : t <= x
  BY <1>1, Smallest
<1>3. PICK n \in S : t = b - n
  OBVIOUS
<1>4. \A m \in S : b - n <= b - m
  BY <1>2, <1>3
<1>5. QED
  BY <1>4

-----------------------------------------------------------------------------
(* The elements of a sequence. *)
LEMMA Elements ==
  ASSUME NEW S, NEW s \in Seq(S)
  PROVE  /\ Len(s) \in Nat /\ DOMAIN s = 1 .. Len(s) /\ s \in [1 .. Len(s) -> S]
         /\ \A i \in 1 .. Len(s) : s[i] \in S
  OBVIOUS

(* A sequence is its elements. *)
LEMMA SameElements ==
  ASSUME NEW S, NEW s \in Seq(S), NEW t \in Seq(S), Len(s) = Len(t),
         \A i \in 1 .. Len(s) : s[i] = t[i]
  PROVE  s = t
<1>1. s \in [1 .. Len(s) -> S] /\ t \in [1 .. Len(s) -> S]
  BY Elements
<1>2. QED
  BY <1>1

(* A sequence behind a first element. *)
LEMMA Prefixed ==
  ASSUME NEW S, NEW x \in S, NEW s \in Seq(S)
  PROVE  /\ <<x>> \o s \in Seq(S)
         /\ Len(<<x>> \o s) = Len(s) + 1 /\ Len(s) \in Nat
         /\ DOMAIN (<<x>> \o s) = 1 .. Len(s) + 1
         /\ (<<x>> \o s)[1] = x
         /\ \A i \in 1 .. Len(s) : (<<x>> \o s)[i + 1] = s[i]
  OBVIOUS

(* What is behind the first element. *)
LEMMA Unprefixed ==
  ASSUME NEW S, NEW x \in S, NEW s \in Seq(S)
  PROVE  SubSeq(<<x>> \o s, 2, Len(<<x>> \o s)) = s
<1> DEFINE t == <<x>> \o s
<1>1. t \in Seq(S) /\ Len(t) = Len(s) + 1 /\ Len(s) \in Nat
      /\ \A i \in 1 .. Len(s) : t[i + 1] = s[i]
  BY Prefixed
<1> HIDE DEF t
<1> DEFINE r == SubSeq(t, 2, Len(t))
<1>2. r \in Seq(S) /\ Len(r) = Len(s) /\ \A i \in 1 .. Len(s) : r[i] = t[i + 1]
  BY <1>1
<1> HIDE DEF r
<1>3. r = s
  BY <1>1, <1>2, SameElements
<1>4. QED
  BY <1>3 DEF r, t

(* Quotient and remainder. *)
LEMMA Division ==
  ASSUME NEW p \in Nat \ {0}, NEW u \in Nat
  PROVE  u \div p \in Nat /\ u % p \in 0 .. p - 1 /\ u = p * (u \div p) + (u % p)
  OBVIOUS

(* Division twice is division by the product. *)
LEMMA DivisionTwice ==
  ASSUME NEW b \in Nat \ {0}, NEW p \in Nat \ {0}, NEW u \in Nat
  PROVE  u \div (b * p) = (u \div p) \div b
  OBVIOUS

(* Division keeps the order. *)
LEMMA DivisionOrder ==
  ASSUME NEW p \in Nat \ {0}, NEW u \in Nat, NEW v \in Nat, u <= v
  PROVE  u \div p <= v \div p
  OBVIOUS

(* What is below p has no quotient by p. *)
LEMMA DivisionSmall ==
  ASSUME NEW p \in Nat \ {0}, NEW u \in 0 .. p - 1
  PROVE  u \div p = 0 /\ u % p = u
  OBVIOUS

(* Division by 1. *)
LEMMA DivisionOne ==
  ASSUME NEW u \in Nat
  PROVE  u \div 1 = u
  OBVIOUS

(* Products are positive. *)
LEMMA Product ==
  ASSUME NEW a \in Nat \ {0}, NEW b \in Nat \ {0}
  PROVE  a * b \in Nat \ {0}
  OBVIOUS

-----------------------------------------------------------------------------
USE PebbleAssumption

(* The powers of Base up to the n-th. *)
Powers(n, g) ==
    /\ g \in [0 .. n -> Nat \ {0}]
    /\ g[0] = 1
    /\ \A i \in 1 .. n : g[i] = Base * g[i - 1]

(* The powers up to the n-th exist, for every n. *)
LEMMA PowersExist == \A n \in Nat : \E g : Powers(n, g)
<1> DEFINE S == {n \in Nat : ~ \E g : Powers(n, g)}
<1> SUFFICES ASSUME S # {} PROVE FALSE
  OBVIOUS
<1>1. PICK n \in S : \A m \in S : n <= m
  BY Smallest
<1>2. n # 0
  <2>1. Powers(0, [i \in 0 .. 0 |-> 1])
    BY DEF Powers
  <2>2. QED
    BY <2>1
<1>3. PICK g : Powers(n - 1, g)
  BY <1>1, <1>2
<1> DEFINE h == [i \in 0 .. n |-> IF i = n THEN Base * g[n - 1] ELSE g[i]]
<1>4. g[n - 1] \in Nat \ {0} /\ Base * g[n - 1] \in Nat \ {0}
  BY <1>2, <1>3 DEF Powers
<1>5. h \in [0 .. n -> Nat \ {0}]
  BY <1>2, <1>3, <1>4 DEF Powers
<1>6. h[0] = 1 /\ \A i \in 1 .. n : h[i] = Base * h[i - 1]
  BY <1>2, <1>3 DEF Powers
<1>7. Powers(n, h)
  BY <1>5, <1>6 DEF Powers
<1>8. QED
  BY <1>7

(* The powers up to the n-th are the powers up to a later one. *)
LEMMA PowersAgree ==
  ASSUME NEW n \in Nat, NEW m \in Nat, n <= m, NEW g, NEW h, Powers(n, g), Powers(m, h)
  PROVE  \A i \in 0 .. n : g[i] = h[i]
<1> DEFINE S == {i \in 0 .. n : g[i] # h[i]}
<1> SUFFICES ASSUME S # {} PROVE FALSE
  OBVIOUS
<1>1. PICK i \in S : \A j \in S : i <= j
  <2>1. S \in SUBSET Nat
    OBVIOUS
  <2>2. QED
    BY <2>1, Smallest
<1>2. i # 0
  <2>1. g[0] = 1 /\ h[0] = 1
    BY DEF Powers
  <2>2. QED
    BY <2>1
<1>3. g[i - 1] = h[i - 1]
  BY <1>1, <1>2
<1>4. i \in 1 .. n /\ i \in 1 .. m
  BY <1>2
<1>5. g[i] = Base * g[i - 1] /\ h[i] = Base * h[i - 1]
  BY <1>4 DEF Powers
<1>6. QED
  BY <1>3, <1>5

(* What the recursive definition of the powers says. *)
LEMMA PowFacts ==
  /\ Pow[0] = 1
  /\ \A n \in Nat : Pow[n] \in Nat \ {0} /\ Pow[n + 1] = Base * Pow[n]
<1> DEFINE G(n) == CHOOSE g : Powers(n, g)
           P == [n \in Nat |-> G(n)[n]]
<1>1. \A n \in Nat : Powers(n, G(n))
  BY PowersExist
<1> HIDE DEF G
<1>2. \A n \in Nat : P[n] \in Nat \ {0}
  BY <1>1 DEF Powers
<1>3. P[0] = 1
  BY <1>1 DEF Powers
<1>4. ASSUME NEW n \in Nat \ {0} PROVE P[n] = Base * P[n - 1]
  <2>1. Powers(n, G(n)) /\ Powers(n - 1, G(n - 1))
    BY <1>1
  <2>2. G(n - 1)[n - 1] = G(n)[n - 1]
    BY <2>1, PowersAgree
  <2>3. QED
    BY <2>1, <2>2 DEF Powers
<1>5. P = [n \in Nat |-> IF n = 0 THEN 1 ELSE Base * P[n - 1]]
  <2> DEFINE D == [n \in Nat |-> IF n = 0 THEN 1 ELSE Base * P[n - 1]]
  <2>1. \A n \in Nat : P[n] = D[n]
    BY <1>3, <1>4
  <2>2. DOMAIN P = Nat /\ P = [n \in DOMAIN P |-> P[n]] /\ D = [n \in Nat |-> D[n]]
    OBVIOUS
  <2> HIDE DEF P, D
  <2>3. P = D
    BY <2>1, <2>2
  <2>4. QED
    BY <2>3 DEF D
<1> HIDE DEF P
<1>6. \E f : f = [n \in Nat |-> IF n = 0 THEN 1 ELSE Base * f[n - 1]]
  BY <1>5
<1>7. Pow = [n \in Nat |-> IF n = 0 THEN 1 ELSE Base * Pow[n - 1]]
  BY <1>6 DEF Pow
<1>8. \A n \in Nat : Pow[n] = IF n = 0 THEN 1 ELSE Base * Pow[n - 1]
  BY <1>7
<1>9. \A n \in Nat : Pow[n + 1] = Base * Pow[n]
  BY <1>8
<1>10. \A n \in Nat : Pow[n] \in Nat \ {0}
  <2> DEFINE S == {n \in Nat : Pow[n] \notin Nat \ {0}}
  <2> SUFFICES ASSUME S # {} PROVE FALSE
    OBVIOUS
  <2>1. PICK n \in S : \A m \in S : n <= m
    BY Smallest
  <2>2. n # 0
    BY <1>8
  <2>3. Pow[n - 1] \in Nat \ {0}
    BY <2>1, <2>2
  <2>4. Pow[n] = Base * Pow[n - 1]
    BY <1>8, <2>2
  <2>5. QED
    BY <2>3, <2>4, Product
<1>11. QED
  BY <1>8, <1>9, <1>10

-----------------------------------------------------------------------------
Words == 0 .. Pow[Width] - 1

(* The integer in the first i bytes of u, and byte i. *)
Leading(u, i) == u \div Pow[Width - i]
Byte(u, i) == Leading(u, i) % Base

(* The bytes of an integer. *)
LEMMA Bytes ==
  ASSUME NEW u \in Words
  PROVE  /\ u \in Nat
         /\ Leading(u, 0) = 0 /\ Leading(u, Width) = u
         /\ \A i \in 0 .. Width : Leading(u, i) \in Nat
         /\ \A i \in 1 .. Width : /\ Byte(u, i) \in 0 .. Base - 1
                                  /\ Leading(u, i) = Base * Leading(u, i - 1) + Byte(u, i)
<1>1. Pow[Width] \in Nat \ {0} /\ u \in Nat
  BY PowFacts DEF Words
<1>2. Leading(u, 0) = 0
  <2>1. Width - 0 = Width
    OBVIOUS
  <2>2. QED
    BY <1>1, <2>1, DivisionSmall DEF Words, Leading
<1>3. Leading(u, Width) = u
  <2>1. Width - Width = 0 /\ Pow[0] = 1
    BY PowFacts
  <2>2. QED
    BY <1>1, <2>1, DivisionOne DEF Leading
<1>4. ASSUME NEW i \in 0 .. Width PROVE Leading(u, i) \in Nat
  <2>1. Width - i \in Nat
    OBVIOUS
  <2>2. QED
    BY <1>1, <2>1, PowFacts, Division DEF Leading
<1>5. ASSUME NEW i \in 1 .. Width
      PROVE  Byte(u, i) \in 0 .. Base - 1 /\ Leading(u, i) = Base * Leading(u, i - 1) + Byte(u, i)
  <2>1. Width - i \in Nat /\ Width - (i - 1) = (Width - i) + 1
    OBVIOUS
  <2>2. Pow[Width - i] \in Nat \ {0} /\ Pow[Width - (i - 1)] = Base * Pow[Width - i]
    BY <2>1, PowFacts
  <2>3. Leading(u, i - 1) = Leading(u, i) \div Base
    BY <1>1, <2>2, DivisionTwice DEF Leading
  <2>4. Leading(u, i) \in Nat
    BY <1>4
  <2>5. QED
    BY <2>3, <2>4, Division DEF Byte
<1>6. QED
  BY <1>1, <1>2, <1>3, <1>4, <1>5

(* The first byte that differs tells the order of two integers. *)
LEMMA FirstDifference ==
  ASSUME NEW u \in Words, NEW v \in Words, u < v
  PROVE  \E i \in 1 .. Width : /\ Byte(u, i) < Byte(v, i)
                               /\ \A j \in 1 .. i - 1 : Byte(u, j) = Byte(v, j)
<1> DEFINE S == {i \in 0 .. Width : Leading(u, i) # Leading(v, i)}
<1>1. PICK i \in S : \A j \in S : i <= j
  <2>1. u # v
    BY Bytes
  <2>2. Width \in S
    BY <2>1, Bytes
  <2>3. S \in SUBSET Nat /\ S # {}
    BY <2>2
  <2>4. QED
    BY <2>3, Smallest
<1>2. i \in 1 .. Width
  BY Bytes
<1>3. \A j \in 0 .. i - 1 : Leading(u, j) = Leading(v, j)
  BY <1>1, <1>2
<1>4. Leading(u, i) < Leading(v, i)
  <2>1. Width - i \in Nat /\ u \in Nat /\ v \in Nat
    BY <1>2, Bytes
  <2>2. Leading(u, i) <= Leading(v, i)
    <3>1. Pow[Width - i] \in Nat \ {0} /\ u <= v
      BY <2>1, PowFacts
    <3>2. QED
      BY <2>1, <3>1, DivisionOrder DEF Leading
  <2>3. Leading(u, i) \in Nat /\ Leading(v, i) \in Nat
    BY Bytes
  <2>4. QED
    BY <2>2, <2>3
<1>5. Byte(u, i) < Byte(v, i)
  <2>1. /\ Leading(u, i) = Base * Leading(u, i - 1) + Byte(u, i)
        /\ Leading(v, i) = Base * Leading(v, i - 1) + Byte(v, i)
        /\ Byte(u, i) \in Nat /\ Byte(v, i) \in Nat
    BY <1>2, Bytes
  <2>2. Leading(u, i - 1) = Leading(v, i - 1) /\ Base * Leading(u, i - 1) \in Nat
    <3>1. Leading(u, i - 1) = Leading(v, i - 1) /\ Leading(u, i - 1) \in Nat
      BY <1>2, <1>3, Bytes
    <3>2. QED
      BY <3>1
  <2>3. QED
    BY <1>4, <2>1, <2>2
<1>6. \A j \in 1 .. i - 1 : Byte(u, j) = Byte(v, j)
  BY <1>2, <1>3 DEF Byte
<1>7. QED
  BY <1>2, <1>5, <1>6

(* The bytes of a key of the log. *)
LEMMA LogKeyBytes ==
  ASSUME NEW u \in Words
  PROVE  /\ uint64ToBytes(u) \in Seq(0 .. Base - 1) /\ Len(uint64ToBytes(u)) = Width
         /\ \A i \in 1 .. Width : uint64ToBytes(u)[i] = Byte(u, i)
         /\ LogKey(u) \in Seq(Nat) /\ Len(LogKey(u)) = Width + 1
         /\ DOMAIN LogKey(u) = 1 .. Width + 1
         /\ LogKey(u)[1] = 0 /\ \A i \in 2 .. Width + 1 : LogKey(u)[i] = Byte(u, i - 1)
<1>1. uint64ToBytes(u) = [i \in 1 .. Width |-> Byte(u, i)]
  BY DEF uint64ToBytes, Byte, Leading
<1>2. \A i \in 1 .. Width : Byte(u, i) \in 0 .. Base - 1
  BY Bytes
<1>3. /\ uint64ToBytes(u) \in Seq(0 .. Base - 1) /\ Len(uint64ToBytes(u)) = Width
      /\ \A i \in 1 .. Width : uint64ToBytes(u)[i] = Byte(u, i)
  BY <1>1, <1>2
<1> DEFINE b == uint64ToBytes(u)
<1> HIDE DEF b
<1>4. b \in Seq(Nat) /\ Len(b) = Width
  BY <1>3 DEF b
<1>5. /\ <<0>> \o b \in Seq(Nat) /\ Len(<<0>> \o b) = Width + 1
      /\ DOMAIN (<<0>> \o b) = 1 .. Width + 1
      /\ (<<0>> \o b)[1] = 0 /\ \A i \in 2 .. Width + 1 : (<<0>> \o b)[i] = b[i - 1]
  BY <1>4
<1>6. QED
  BY <1>3, <1>5 DEF LogKey, prefixLog, b

(* Keys of the log sort as the indexes they hold. *)
LEMMA LogKeyOrder ==
  ASSUME NEW u \in Words, NEW v \in Words
  PROVE  Before(LogKey(u), LogKey(v)) <=> u < v
<1> DEFINE a == LogKey(u)
           b == LogKey(v)
<1>1. /\ Len(a) = Width + 1 /\ Len(b) = Width + 1
      /\ DOMAIN a = 1 .. Width + 1 /\ DOMAIN b = 1 .. Width + 1
      /\ a[1] = 0 /\ b[1] = 0 /\ a \in Seq(Nat) /\ b \in Seq(Nat)
      /\ \A i \in 2 .. Width + 1 : a[i] = Byte(u, i - 1) /\ b[i] = Byte(v, i - 1)
  BY LogKeyBytes
<1>2. ASSUME NEW x \in Words, NEW y \in Words, x < y
      PROVE  \E i \in 1 .. Width + 1 : /\ LogKey(x)[i] < LogKey(y)[i]
                                       /\ \A j \in 1 .. i - 1 : LogKey(x)[j] = LogKey(y)[j]
  <2>1. PICK i \in 1 .. Width : /\ Byte(x, i) < Byte(y, i)
                                /\ \A j \in 1 .. i - 1 : Byte(x, j) = Byte(y, j)
    BY <1>2, FirstDifference
  <2>2. /\ LogKey(x)[1] = 0 /\ LogKey(y)[1] = 0
        /\ \A j \in 2 .. Width + 1 : LogKey(x)[j] = Byte(x, j - 1) /\ LogKey(y)[j] = Byte(y, j - 1)
    BY LogKeyBytes
  <2>3. LogKey(x)[i + 1] < LogKey(y)[i + 1]
    <3>1. i + 1 \in 2 .. Width + 1 /\ (i + 1) - 1 = i
      OBVIOUS
    <3>2. QED
      BY <2>1, <2>2, <3>1
  <2>4. ASSUME NEW j \in 1 .. i PROVE LogKey(x)[j] = LogKey(y)[j]
    <3>1. CASE j = 1
      BY <2>2, <3>1
    <3>2. CASE j # 1
      <4>1. j \in 2 .. Width + 1 /\ j - 1 \in 1 .. i - 1
        BY <3>2
      <4>2. QED
        BY <2>1, <2>2, <4>1
    <3>3. QED
      BY <3>1, <3>2
  <2>5. i + 1 \in 1 .. Width + 1 /\ (i + 1) - 1 = i
    OBVIOUS
  <2>6. QED
    BY <2>3, <2>4, <2>5
<1> HIDE DEF a, b
<1>3. u \in Nat /\ v \in Nat
  BY Bytes
<1>4. Before(a, b) <=> \E i \in 1 .. Width + 1 : a[i] < b[i] /\ \A j \in 1 .. i - 1 : a[j] = b[j]
  <2>1. ~(Len(a) < Len(b)) /\ DOMAIN a \cap DOMAIN b = 1 .. Width + 1
    BY <1>1
  <2>2. QED
    BY <2>1 DEF Before
<1>5. \A i \in 1 .. Width + 1 : a[i] \in Nat /\ b[i] \in Nat
  BY <1>1, Elements
<1>6. CASE u < v
  <2>1. \E i \in 1 .. Width + 1 : a[i] < b[i] /\ \A j \in 1 .. i - 1 : a[j] = b[j]
    BY <1>2, <1>6 DEF a, b
  <2>2. Before(a, b)
    BY <1>4, <2>1
  <2>3. QED
    BY <1>6, <2>2 DEF a, b
<1>7. CASE u = v
  <2>1. a = b
    BY <1>7 DEF a, b
  <2>2. ~Before(a, b)
    BY <1>4, <1>5, <2>1
  <2>3. QED
    BY <1>3, <1>7, <2>2 DEF a, b
<1>8. CASE v < u
  <2>1. PICK k \in 1 .. Width + 1 : b[k] < a[k] /\ \A j \in 1 .. k - 1 : b[j] = a[j]
    BY <1>2, <1>8 DEF a, b
  <2>2. ASSUME NEW i \in 1 .. Width + 1, a[i] < b[i], \A j \in 1 .. i - 1 : a[j] = b[j]
        PROVE  FALSE
    <3>1. a[i] \in Nat /\ b[i] \in Nat /\ a[k] \in Nat /\ b[k] \in Nat
      BY <1>5
    <3>2. CASE i < k
      <4>1. i \in 1 .. k - 1
        BY <3>2
      <4>2. QED
        BY <2>1, <2>2, <3>1, <4>1
    <3>3. CASE k < i
      <4>1. k \in 1 .. i - 1
        BY <3>3
      <4>2. QED
        BY <2>1, <2>2, <3>1, <4>1
    <3>4. CASE k = i
      BY <2>1, <2>2, <3>1, <3>4
    <3>5. QED
      BY <3>2, <3>3, <3>4
  <2>3. ~Before(a, b)
    BY <1>4, <2>2
  <2>4. QED
    BY <1>3, <1>8, <2>3 DEF a, b
<1>9. QED
  BY <1>3, <1>6, <1>7, <1>8

(* Different indexes have different keys, and different bytes. *)
LEMMA LogKeyInjective ==
  ASSUME NEW u \in Words, NEW v \in Words,
         LogKey(u) = LogKey(v) \/ uint64ToBytes(u) = uint64ToBytes(v)
  PROVE  u = v
<1>1. LogKey(u) = LogKey(v)
  BY DEF LogKey
<1>2. u \in Nat /\ v \in Nat
  BY Bytes
<1>3. (Before(LogKey(u), LogKey(v)) <=> u < v) /\ (Before(LogKey(v), LogKey(u)) <=> v < u)
      /\ (Before(LogKey(u), LogKey(u)) <=> u < u)
  BY LogKeyOrder
<1>4. QED
  BY <1>1, <1>2, <1>3

(* An iterator reads the index back from its key. *)
LEMMA IndexOfLogKey ==
  ASSUME NEW u \in Words
  PROVE  IndexOf(LogKey(u)) = u
<1> DEFINE b == uint64ToBytes(u)
           s == <<0>> \o b
<1>1. b \in Seq(0 .. Base - 1) /\ Len(b) = Width
  BY LogKeyBytes
<1> HIDE DEF b
<1>2. SubSeq(s, 2, Len(s)) = b
  BY <1>1, Unprefixed
<1>3. Len(<<0>>) + 1 = 2
  OBVIOUS
<1>4. IndexOf(LogKey(u)) = bytesToUint64(b)
  BY <1>2, <1>3 DEF IndexOf, LogKey, prefixLog, b
<1>5. bytesToUint64(b) \in Words /\ uint64ToBytes(bytesToUint64(b)) = uint64ToBytes(u)
  BY DEF bytesToUint64, b, Words
<1>6. QED
  BY <1>4, <1>5, LogKeyInjective

-----------------------------------------------------------------------------
(* A key of the stable store. *)
ConfKey(k) == prefixConf \o k

(* What a database holds: keys of the two kinds. *)
DataOK(d) ==
    /\ DOMAIN d \subseteq {LogKey(i) : i \in 1 .. MaxIndex} \cup {ConfKey(k) : k \in Key}
    /\ \A k \in DOMAIN d : d[k] \in Entry \cup Val

(* Raft's indexes, and the one behind the last, fit into a key. *)
LEMMA IndexWords ==
  /\ MaxIndex \in Nat /\ 0 .. MaxIndex + 1 \subseteq Words /\ Words \subseteq Nat
  /\ \A u \in Words : Word(u) = u
<1>1. Pow[Width] \in Nat \ {0}
  BY PowFacts
<1>2. \A u \in Words : Word(u) = u
  BY <1>1, DivisionSmall DEF Words, Word
<1>3. QED
  BY <1>1, <1>2 DEF Words

(* The keys of the stable store. *)
LEMMA ConfKeyBytes ==
  ASSUME NEW k \in Key
  PROVE  /\ ConfKey(k) \in Seq(Nat) /\ Len(ConfKey(k)) \in Nat \ {0}
         /\ DOMAIN ConfKey(k) = 1 .. Len(ConfKey(k))
         /\ ConfKey(k)[1] = 1
         /\ SubSeq(ConfKey(k), 2, Len(ConfKey(k))) = k
<1>1. k \in Seq(Nat)
  <2>1. k \in Seq(0 .. Base - 1)
    OBVIOUS
  <2>2. QED
    BY <2>1
<1>2. /\ <<1>> \o k \in Seq(Nat)
      /\ Len(<<1>> \o k) = Len(k) + 1 /\ Len(k) \in Nat
      /\ DOMAIN (<<1>> \o k) = 1 .. Len(k) + 1
      /\ (<<1>> \o k)[1] = 1
  BY <1>1, Prefixed
<1>3. SubSeq(<<1>> \o k, 2, Len(<<1>> \o k)) = k
  BY <1>1, Unprefixed
<1>4. QED
  BY <1>2, <1>3 DEF ConfKey, prefixConf

(* Different keys of the stable store stay different behind the prefix. *)
LEMMA ConfKeyInjective ==
  ASSUME NEW k \in Key, NEW l \in Key, ConfKey(k) = ConfKey(l)
  PROVE  k = l
<1>1. SubSeq(ConfKey(k), 2, Len(ConfKey(k))) = k /\ SubSeq(ConfKey(l), 2, Len(ConfKey(l))) = l
  BY ConfKeyBytes
<1>2. QED
  BY <1>1

(* A key that begins with 0 is between the prefixes, one that begins with 1 is
   above all keys that begin with 0. *)
LEMMA PrefixOrder ==
  ASSUME NEW a \in Seq(Nat), Len(a) \in Nat \ {0}, a[1] = 0,
         NEW c \in Seq(Nat), Len(c) \in Nat \ {0}, c[1] = 1
  PROVE  /\ ~Before(a, prefixLog) /\ Before(a, prefixConf)
         /\ ~Before(c, prefixConf) /\ ~Before(c, a) /\ a # c
<1>1. /\ DOMAIN a = 1 .. Len(a) /\ DOMAIN c = 1 .. Len(c)
      /\ DOMAIN <<0>> = {1} /\ <<0>>[1] = 0 /\ Len(<<0>>) = 1
      /\ DOMAIN <<1>> = {1} /\ <<1>>[1] = 1 /\ Len(<<1>>) = 1
  OBVIOUS
<1>2. ~Before(a, prefixLog)
  BY <1>1 DEF Before, prefixLog
<1>3. Before(a, prefixConf)
  <2>1. 1 \in DOMAIN a \cap DOMAIN <<1>> /\ a[1] < <<1>>[1] /\ 1 .. 1 - 1 = {}
    BY <1>1
  <2>2. QED
    BY <2>1 DEF Before, prefixConf
<1>4. ~Before(c, prefixConf)
  BY <1>1 DEF Before, prefixConf
<1>5. ~Before(c, a)
  <2>1. ASSUME Len(c) < Len(a), SubSeq(a, 1, Len(c)) = c PROVE FALSE
    <3>1. SubSeq(a, 1, Len(c))[1] = a[1]
      BY <2>1
    <3>2. QED
      BY <2>1, <3>1
  <2>2. ASSUME NEW i \in DOMAIN c \cap DOMAIN a, c[i] < a[i], \A j \in 1 .. i - 1 : c[j] = a[j]
        PROVE  FALSE
    <3>1. CASE i = 1
      BY <2>2, <3>1
    <3>2. CASE i # 1
      <4>1. 1 \in 1 .. i - 1
        BY <1>1, <3>2
      <4>2. QED
        BY <2>2, <4>1
    <3>3. QED
      BY <3>1, <3>2
  <2>3. QED
    BY <2>1, <2>2 DEF Before
<1>6. QED
  BY <1>2, <1>3, <1>4, <1>5

(* The two kinds of keys. *)
LEMMA KeyOrder ==
  ASSUME NEW u \in Words
  PROVE  /\ ~Before(LogKey(u), prefixLog) /\ Before(LogKey(u), prefixConf)
         /\ \A k \in Key : /\ ~Before(ConfKey(k), prefixConf)
                           /\ ~Before(ConfKey(k), LogKey(u))
                           /\ ConfKey(k) # LogKey(u)
<1>1. LogKey(u) \in Seq(Nat) /\ Len(LogKey(u)) \in Nat \ {0} /\ LogKey(u)[1] = 0
  BY LogKeyBytes
<1>2. <<1>> \in Seq(Nat) /\ Len(<<1>>) \in Nat \ {0} /\ <<1>>[1] = 1
  OBVIOUS
<1>3. ~Before(LogKey(u), prefixLog) /\ Before(LogKey(u), prefixConf)
  BY <1>1, <1>2, PrefixOrder
<1>4. ASSUME NEW k \in Key
      PROVE  /\ ~Before(ConfKey(k), prefixConf) /\ ~Before(ConfKey(k), LogKey(u))
             /\ ConfKey(k) # LogKey(u)
  BY <1>1, ConfKeyBytes, PrefixOrder
<1>5. QED
  BY <1>3, <1>4

(* The indexes a database holds, and its keys. *)
LEMMA Holds ==
  ASSUME NEW d, DataOK(d)
  PROVE  /\ Indexes(d) \subseteq 1 .. MaxIndex
         /\ \A i \in Words \ {0} : i \in Indexes(d) <=> LogKey(i) \in DOMAIN d
         /\ \A x \in DOMAIN d : \/ \E i \in Indexes(d) : x = LogKey(i)
                                \/ \E k \in Key : x = ConfKey(k)
<1>1. Indexes(d) = {i \in Words \ {0} : LogKey(i) \in DOMAIN d}
  <2>1. 1 .. Pow[Width] - 1 = Words \ {0}
    <3>1. \A p \in Nat \ {0} : 1 .. p - 1 = (0 .. p - 1) \ {0}
      OBVIOUS
    <3>2. QED
      BY <3>1, PowFacts DEF Words
  <2>2. QED
    BY <2>1 DEF Indexes
<1>2. 1 .. MaxIndex \subseteq Words \ {0}
  BY IndexWords
<1>3. ASSUME NEW i \in Indexes(d) PROVE i \in 1 .. MaxIndex
  <2>1. i \in Words /\ LogKey(i) \in DOMAIN d
    BY <1>1
  <2>2. CASE \E j \in 1 .. MaxIndex : LogKey(i) = LogKey(j)
    <3>1. PICK j \in 1 .. MaxIndex : LogKey(i) = LogKey(j)
      BY <2>2
    <3>2. j \in Words
      BY <1>2
    <3>3. i = j
      BY <2>1, <3>1, <3>2, LogKeyInjective
    <3>4. QED
      BY <3>3
  <2>3. CASE \E k \in Key : LogKey(i) = ConfKey(k)
    BY <2>1, <2>3, KeyOrder
  <2>4. QED
    BY <2>1, <2>2, <2>3 DEF DataOK
<1>4. ASSUME NEW x \in DOMAIN d
      PROVE  (\E i \in Indexes(d) : x = LogKey(i)) \/ (\E k \in Key : x = ConfKey(k))
  BY <1>1, <1>2 DEF DataOK
<1>5. QED
  BY <1>1, <1>3, <1>4

(* An iterator with the bounds of the log's keys finds them all, and no
   other. *)
LEMMA LogRange ==
  ASSUME NEW d, DataOK(d)
  PROVE  Within(d, prefixLog, prefixConf) = {LogKey(i) : i \in Indexes(d)}
<1>1. \A i \in Indexes(d) : i \in Words /\ LogKey(i) \in DOMAIN d
  BY Holds, IndexWords DEF Indexes
<1>2. \A i \in Indexes(d) : ~Before(LogKey(i), prefixLog) /\ Before(LogKey(i), prefixConf)
  BY <1>1, KeyOrder
<1>3. \A k \in Key : ~Before(ConfKey(k), prefixConf)
  <2>1. 0 \in Words
    BY IndexWords
  <2>2. QED
    BY <2>1, KeyOrder
<1>4. QED
  BY <1>1, <1>2, <1>3, Holds DEF Within

(* The range from one index up to another holds the keys of the indexes in
   between, and no stable key. *)
LEMMA DeletedRange ==
  ASSUME NEW d, DataOK(d), NEW lo \in Words, NEW hi \in Words
  PROVE  Within(d, LogKey(lo), LogKey(hi)) = {LogKey(i) : i \in {j \in Indexes(d) : lo <= j /\ j < hi}}
<1>1. \A i \in Indexes(d) : i \in Words /\ LogKey(i) \in DOMAIN d /\ i \in Nat
  BY Holds, IndexWords DEF Indexes
<1>2. \A i \in Indexes(d) : (~Before(LogKey(i), LogKey(lo)) <=> lo <= i)
                            /\ (Before(LogKey(i), LogKey(hi)) <=> i < hi)
  <2>1. lo \in Nat
    BY IndexWords
  <2>2. QED
    BY <1>1, <2>1, LogKeyOrder
<1>3. \A k \in Key : ~Before(ConfKey(k), LogKey(hi))
  BY KeyOrder
<1>4. QED
  BY <1>1, <1>2, <1>3, Holds DEF Within

(* FirstIndex and LastIndex are the least and the greatest index stored, and 0
   when there is none. *)
LEMMA Ends ==
  ASSUME DataOK(db)
  PROVE  \/ Indexes(db) = {} /\ FirstIndex = 0 /\ LastIndex = 0
         \/ /\ FirstIndex \in Indexes(db) /\ LastIndex \in Indexes(db)
            /\ \A i \in Indexes(db) : FirstIndex <= i /\ i <= LastIndex
<1> DEFINE keys == {LogKey(i) : i \in Indexes(db)}
<1>1. Within(db, prefixLog, prefixConf) = keys
  BY LogRange
<1>2. CASE Indexes(db) = {}
  <2>1. keys = {}
    BY <1>2
  <2>2. QED
    BY <1>1, <1>2, <2>1 DEF FirstIndex, LastIndex
<1>3. CASE Indexes(db) # {}
  <2>1. /\ Indexes(db) \in SUBSET Nat /\ MaxIndex \in Nat
        /\ \A i \in Indexes(db) : i <= MaxIndex /\ i \in Words
    BY Holds, IndexWords
  <2>2. keys # {}
    BY <1>3
  <2>3. \A i, j \in Indexes(db) : Before(LogKey(i), LogKey(j)) <=> i < j
    BY <2>1, LogKeyOrder
  <2>4. \A i \in Indexes(db) : IndexOf(LogKey(i)) = i
    BY <2>1, IndexOfLogKey
  <2>5. PICK m \in Indexes(db) : \A i \in Indexes(db) : m <= i
    BY <1>3, <2>1, Smallest
  <2>6. PICK n \in Indexes(db) : \A i \in Indexes(db) : i <= n
    BY <1>3, <2>1, Largest
  <2>7. FirstIndex = m
    <3> DEFINE k == CHOOSE k \in keys : \A x \in keys : ~Before(x, k)
    <3>1. LogKey(m) \in keys /\ \A x \in keys : ~Before(x, LogKey(m))
      BY <2>1, <2>3, <2>5
    <3>2. k \in keys /\ \A x \in keys : ~Before(x, k)
      BY <3>1
    <3>3. FirstIndex = IndexOf(k)
      BY <1>1, <2>2 DEF FirstIndex
    <3> HIDE DEF k
    <3>4. PICK i \in Indexes(db) : k = LogKey(i)
      BY <3>2
    <3>5. ~(m < i)
      BY <2>3, <3>2, <3>4
    <3>6. i = m
      BY <2>1, <2>5, <3>5
    <3>7. QED
      BY <2>4, <3>3, <3>4, <3>6
  <2>8. LastIndex = n
    <3> DEFINE k == CHOOSE k \in keys : \A x \in keys : ~Before(k, x)
    <3>1. LogKey(n) \in keys /\ \A x \in keys : ~Before(LogKey(n), x)
      BY <2>1, <2>3, <2>6
    <3>2. k \in keys /\ \A x \in keys : ~Before(k, x)
      BY <3>1
    <3>3. LastIndex = IndexOf(k)
      BY <1>1, <2>2 DEF LastIndex
    <3> HIDE DEF k
    <3>4. PICK i \in Indexes(db) : k = LogKey(i)
      BY <3>2
    <3>5. ~(i < n)
      BY <2>3, <3>2, <3>4
    <3>6. i = n
      BY <2>1, <2>6, <3>5
    <3>7. QED
      BY <2>4, <3>3, <3>4, <3>6
  <2>9. QED
    BY <2>5, <2>6, <2>7, <2>8
<1>4. QED
  BY <1>2, <1>3

-----------------------------------------------------------------------------
(* Entries that are put into a database. *)
LEMMA PutLogs ==
  ASSUME NEW d, DataOK(d), NEW I \in SUBSET (1 .. MaxIndex), NEW e \in Entry
  PROVE  LET p == Put(d, {LogKey(i) : i \in I}, e)
         IN  /\ DataOK(p) /\ Indexes(p) = Indexes(d) \cup I
             /\ LogsOf(p) = [i \in DOMAIN LogsOf(d) \cup I |-> IF i \in I THEN e ELSE LogsOf(d)[i]]
             /\ StableOf(p) = StableOf(d)
<1> DEFINE keys == {LogKey(i) : i \in I}
           p == Put(d, keys, e)
<1>1. DOMAIN p = DOMAIN d \cup keys
      /\ \A k \in DOMAIN p : p[k] = IF k \in keys THEN e ELSE d[k]
  BY DEF Put
<1> HIDE DEF p
<1>2. 1 .. MaxIndex \subseteq Words \ {0}
  BY IndexWords
<1>3. DataOK(p)
  BY <1>1 DEF DataOK
<1>4. \A i \in Words : LogKey(i) \in keys <=> i \in I
  BY <1>2, LogKeyInjective
<1>5. \A k \in Key : ConfKey(k) \notin keys
  BY <1>2, KeyOrder
<1> HIDE DEF keys
<1>6. Indexes(p) \subseteq 1 .. MaxIndex /\ Indexes(d) \subseteq 1 .. MaxIndex
  BY <1>3, Holds
<1>7. ASSUME NEW i \in 1 .. MaxIndex PROVE i \in Indexes(p) <=> i \in Indexes(d) \cup I
  BY <1>1, <1>2, <1>3, <1>4, Holds
<1>8. Indexes(p) = Indexes(d) \cup I
  BY <1>6, <1>7
<1>9. \A i \in Indexes(p) : p[LogKey(i)] = IF i \in I THEN e ELSE d[LogKey(i)]
  BY <1>1, <1>2, <1>3, <1>4, <1>6, Holds
<1>10. LogsOf(p) = [i \in DOMAIN LogsOf(d) \cup I |-> IF i \in I THEN e ELSE LogsOf(d)[i]]
  BY <1>8, <1>9 DEF LogsOf
<1>11. \A k \in Key : (ConfKey(k) \in DOMAIN p <=> ConfKey(k) \in DOMAIN d)
                      /\ (ConfKey(k) \in DOMAIN d => p[ConfKey(k)] = d[ConfKey(k)])
  BY <1>1, <1>5
<1>12. StableOf(p) = StableOf(d)
  BY <1>11 DEF StableOf, ConfKey
<1>13. QED
  BY <1>3, <1>8, <1>10, <1>12 DEF p, keys

(* Entries that are deleted from a database. *)
LEMMA RestrictLogs ==
  ASSUME NEW d, DataOK(d), NEW J \in SUBSET Words
  PROVE  LET p == Restrict(d, DOMAIN d \ {LogKey(i) : i \in J})
         IN  /\ DataOK(p) /\ Indexes(p) = Indexes(d) \ J
             /\ LogsOf(p) = Restrict(LogsOf(d), DOMAIN LogsOf(d) \ J)
             /\ StableOf(p) = StableOf(d)
<1> DEFINE keys == {LogKey(i) : i \in J}
           p == Restrict(d, DOMAIN d \ keys)
<1>1. DOMAIN p = DOMAIN d \ keys /\ \A k \in DOMAIN p : p[k] = d[k]
  BY DEF Restrict
<1> HIDE DEF p
<1>2. 1 .. MaxIndex \subseteq Words \ {0}
  BY IndexWords
<1>3. DataOK(p)
  BY <1>1 DEF DataOK
<1>4. \A i \in Words : LogKey(i) \in keys <=> i \in J
  BY LogKeyInjective
<1>5. \A k \in Key : ConfKey(k) \notin keys
  BY KeyOrder
<1> HIDE DEF keys
<1>6. Indexes(p) \subseteq 1 .. MaxIndex /\ Indexes(d) \subseteq 1 .. MaxIndex
  BY <1>3, Holds
<1>7. ASSUME NEW i \in 1 .. MaxIndex PROVE i \in Indexes(p) <=> i \in Indexes(d) \ J
  BY <1>1, <1>2, <1>3, <1>4, Holds
<1>8. Indexes(p) = Indexes(d) \ J
  BY <1>6, <1>7
<1>9. \A i \in Indexes(p) : p[LogKey(i)] = d[LogKey(i)]
  BY <1>1, <1>2, <1>3, <1>6, Holds
<1>10. LogsOf(p) = Restrict(LogsOf(d), DOMAIN LogsOf(d) \ J)
  BY <1>8, <1>9 DEF LogsOf, Restrict
<1>11. \A k \in Key : (ConfKey(k) \in DOMAIN p <=> ConfKey(k) \in DOMAIN d)
                      /\ (ConfKey(k) \in DOMAIN d => p[ConfKey(k)] = d[ConfKey(k)])
  BY <1>1, <1>5
<1>12. StableOf(p) = StableOf(d)
  BY <1>11 DEF StableOf, ConfKey
<1>13. QED
  BY <1>3, <1>8, <1>10, <1>12 DEF p, keys

-----------------------------------------------------------------------------
(* Between two indexes that are stored, all are. *)
Convex(d) ==
    \A i, j \in Indexes(d) : \A k \in Nat : i <= k /\ k <= j => k \in Indexes(d)

Whole(d) == DataOK(d) /\ Convex(d)

(* The workers; the one that New starts comes on top of the others. *)
LifeOK ==
    /\ phase \in {"opening", "open", "stopping", "closing"}
    /\ workers \in 0 .. MaxWorkers + 1
    /\ phase = "opening" => workers <= MaxWorkers
    /\ told \in BOOLEAN

(* The inductive invariant: what a crash may fall back to is whole as well. *)
PInv == LifeOK /\ \A d \in {db} \cup older : Whole(d)

(* What raft sees of a database. *)
View(d) == <<LogsOf(d), StableOf(d)>>
Views == {View(d) : d \in older}

(* A step of the abstract store. *)
StoreStep == [R!Next]_<<LogsOf(db), StableOf(db), Views>>

(* A write of the abstract store. *)
WriteStep ==
    \/ \E first \in 1 .. MaxIndex, e \in Entry :
          \E n \in 1 .. MaxIndex + 1 - first : R!StoreLogs(first, n, e)
    \/ \E min, max \in 1 .. MaxIndex : R!DeleteRange(min, max)
    \/ \E k \in Key, v \in Val : R!Set(k, v)

(* A write keeps what the database was, as a state to fall back to. *)
LEMMA WriteFacts ==
  ASSUME PInv, NEW d, Write(d), Whole(d), WriteStep
  PROVE  PInv' /\ StoreStep
<1>1. db' = d /\ older' = older \cup {db} /\ UNCHANGED <<phase, workers, told>>
  BY DEF Write, life
<1>2. LifeOK'
  BY <1>1 DEF PInv, LifeOK
<1>3. PInv'
  BY <1>1, <1>2 DEF PInv
<1>4. Views' = Views \cup {<<LogsOf(db), StableOf(db)>>}
  BY <1>1 DEF Views, View
<1>5. R!Next
  BY <1>4, Zenon DEF WriteStep, Views, View, R!Next, R!State, R!Index
<1>6. QED
  BY <1>3, <1>5 DEF StoreStep

(* StoreLogs. *)
LEMMA StoreLogsStep ==
  ASSUME PInv, NEW first \in 1 .. MaxIndex, NEW n \in 1 .. MaxBatch, NEW e \in Entry,
         LastIndex # 0 => first = LastIndex + 1, first + n - 1 <= MaxIndex,
         StoreLogs(first, n, e)
  PROVE  PInv' /\ StoreStep
<1> DEFINE I == first .. first + n - 1
           d == Put(db, {LogKey(i) : i \in I}, e)
<1>1. DataOK(db) /\ Convex(db) /\ MaxIndex \in Nat
  BY IndexWords DEF PInv, Whole
<1>2. I \in SUBSET (1 .. MaxIndex) /\ n \in 1 .. MaxIndex + 1 - first
  BY <1>1
<1>3. /\ DataOK(d) /\ Indexes(d) = Indexes(db) \cup I
      /\ LogsOf(d) = [i \in DOMAIN LogsOf(db) \cup I |-> IF i \in I THEN e ELSE LogsOf(db)[i]]
      /\ StableOf(d) = StableOf(db)
  BY <1>1, <1>2, PutLogs
<1>4. Write(d)
  BY DEF StoreLogs
<1> HIDE DEF d
<1>5. Convex(d)
  <2>1. CASE Indexes(db) = {}
    BY <1>2, <1>3, <2>1, SMTT(30) DEF Convex
  <2>2. CASE Indexes(db) # {}
    <3>1. LastIndex \in Indexes(db) /\ \A i \in Indexes(db) : i <= LastIndex
      BY <1>1, <2>2, Ends
    <3>2. Indexes(db) \subseteq 1 .. MaxIndex
      BY <1>1, Holds
    <3>3. LastIndex \in Nat /\ first = LastIndex + 1
      BY <1>1, <3>1, <3>2
    <3>4. ASSUME NEW i \in Indexes(db) \cup I, NEW j \in Indexes(db) \cup I, NEW k \in Nat,
                 i <= k, k <= j
          PROVE  k \in Indexes(db) \cup I
      <4>1. i \in Nat /\ j \in Nat
        BY <1>1, <1>2, <3>2
      <4>2. CASE k <= LastIndex
        <5>1. i \in Indexes(db)
          BY <1>1, <3>3, <3>4, <4>1, <4>2
        <5>2. QED
          BY <1>1, <3>1, <3>4, <4>2, <5>1 DEF Convex
      <4>3. CASE k > LastIndex
        <5>1. j \in I
          BY <3>1, <3>2, <3>3, <3>4, <4>1, <4>3
        <5>2. QED
          BY <1>1, <3>3, <3>4, <4>1, <4>3, <5>1
      <4>4. QED
        BY <3>3, <4>2, <4>3
    <3>5. QED
      BY <1>3, <3>4 DEF Convex
  <2>3. QED
    BY <2>1, <2>2
<1>6. R!StoreLogs(first, n, e)
  BY <1>3, <1>4 DEF Write, R!StoreLogs
<1>7. WriteStep
  BY <1>2, <1>6 DEF WriteStep
<1>8. QED
  BY <1>3, <1>4, <1>5, <1>7, WriteFacts DEF Whole

(* DeleteRange, of a prefix or of a suffix of the log. *)
LEMMA DeleteRangeStep ==
  ASSUME PInv, NEW min \in FirstIndex .. LastIndex, NEW max \in FirstIndex .. LastIndex,
         FirstIndex # 0, min = FirstIndex \/ max = LastIndex, DeleteRange(min, max)
  PROVE  PInv' /\ StoreStep
<1> DEFINE J == {j \in Indexes(db) : min <= j /\ j < max + 1}
           d == Restrict(db, DOMAIN db \ {LogKey(i) : i \in J})
<1>1. DataOK(db) /\ Convex(db) /\ MaxIndex \in Nat
  BY IndexWords DEF PInv, Whole
<1>2. /\ FirstIndex \in Indexes(db) /\ LastIndex \in Indexes(db)
      /\ \A i \in Indexes(db) : FirstIndex <= i /\ i <= LastIndex
      /\ Indexes(db) \subseteq 1 .. MaxIndex
  BY <1>1, Ends, Holds
<1>3. FirstIndex \in 1 .. MaxIndex /\ LastIndex \in 1 .. MaxIndex
  BY <1>2
<1>4. min \in 1 .. MaxIndex /\ max \in 1 .. MaxIndex
  BY <1>1, <1>3
<1>5. min \in Words /\ max + 1 \in Words /\ Word(max + 1) = max + 1
  <2>1. min \in 0 .. MaxIndex + 1 /\ max + 1 \in 0 .. MaxIndex + 1
    BY <1>1, <1>4
  <2>2. QED
    BY <2>1, IndexWords
<1>6. Write(d)
  <2>1. Within(db, LogKey(min), LogKey(max + 1)) = {LogKey(i) : i \in J}
    BY <1>1, <1>5, DeletedRange
  <2>2. Write(Restrict(db, DOMAIN db \ Within(db, LogKey(min), LogKey(max + 1))))
    BY <1>5 DEF DeleteRange
  <2>3. QED
    BY <2>1, <2>2
<1>7. J \in SUBSET Words
  BY <1>2, IndexWords
<1>8. /\ DataOK(d) /\ Indexes(d) = Indexes(db) \ J
      /\ LogsOf(d) = Restrict(LogsOf(db), DOMAIN LogsOf(db) \ J)
      /\ StableOf(d) = StableOf(db)
  BY <1>1, <1>7, RestrictLogs
<1> HIDE DEF d
<1>9. Convex(d)
  <2>1. ASSUME NEW i \in Indexes(db) \ J, NEW j \in Indexes(db) \ J, NEW k \in Nat,
               i <= k, k <= j
        PROVE  k \in Indexes(db) \ J
    <3>1. k \in Indexes(db)
      BY <1>1, <2>1 DEF Convex
    <3>2. i \in Nat /\ j \in Nat /\ ~(min <= i /\ i < max + 1) /\ ~(min <= j /\ j < max + 1)
      BY <1>2
    <3>3. ~(min <= k /\ k < max + 1)
      BY <1>2, <1>3, <1>4, <2>1, <3>2
    <3>4. QED
      BY <3>1, <3>3
  <2>2. QED
    BY <1>8, <2>1 DEF Convex
<1>10. R!DeleteRange(min, max)
  <2>1. DOMAIN LogsOf(db) \ J = DOMAIN LogsOf(db) \ (min .. max)
    <3>1. DOMAIN LogsOf(db) = Indexes(db)
      BY DEF LogsOf
    <3>2. \A j \in Indexes(db) : j \in J <=> j \in min .. max
      BY <1>2, <1>4
    <3>3. QED
      BY <3>1, <3>2
  <2>2. LogsOf(d) = Restrict(LogsOf(db), DOMAIN LogsOf(db) \ (min .. max))
    BY <1>8, <2>1
  <2>3. QED
    BY <1>6, <1>8, <2>2 DEF Write, R!DeleteRange, R!Restrict, Restrict
<1>11. WriteStep
  BY <1>4, <1>10 DEF WriteStep
<1>12. QED
  BY <1>6, <1>8, <1>9, <1>11, WriteFacts DEF Whole

(* Set. *)
LEMMA SetStep ==
  ASSUME PInv, NEW k \in Key, NEW v \in Val, Write(Put(db, {ConfKey(k)}, v))
  PROVE  PInv' /\ StoreStep
<1> DEFINE d == Put(db, {ConfKey(k)}, v)
<1>1. DataOK(db) /\ Convex(db)
  BY DEF PInv, Whole
<1>2. DOMAIN d = DOMAIN db \cup {ConfKey(k)}
      /\ \A x \in DOMAIN d : d[x] = IF x = ConfKey(k) THEN v ELSE db[x]
  BY DEF Put
<1>3. Write(d)
  OBVIOUS
<1> HIDE DEF d
<1>4. 1 .. MaxIndex \subseteq Words \ {0}
  BY IndexWords
<1>5. DataOK(d)
  BY <1>1, <1>2 DEF DataOK
<1>6. \A i \in Words : LogKey(i) # ConfKey(k)
  BY KeyOrder
<1>7. Indexes(d) = Indexes(db)
  <2>1. Indexes(d) \subseteq 1 .. MaxIndex /\ Indexes(db) \subseteq 1 .. MaxIndex
    BY <1>1, <1>5, Holds
  <2>2. \A i \in 1 .. MaxIndex : i \in Indexes(d) <=> i \in Indexes(db)
    BY <1>1, <1>2, <1>4, <1>5, <1>6, Holds
  <2>3. QED
    BY <2>1, <2>2
<1>8. Whole(d)
  BY <1>1, <1>5, <1>7 DEF Whole, Convex
<1>9. LogsOf(d) = LogsOf(db)
  <2>1. \A i \in Indexes(d) : d[LogKey(i)] = db[LogKey(i)]
    BY <1>2, <1>4, <1>5, <1>6, Holds
  <2>2. QED
    BY <1>7, <2>1 DEF LogsOf
<1>10. StableOf(d) = [x \in DOMAIN StableOf(db) \cup {k} |-> IF x = k THEN v ELSE StableOf(db)[x]]
  <2>1. \A x \in Key : /\ ConfKey(x) \in DOMAIN d <=> ConfKey(x) \in DOMAIN db \/ x = k
                       /\ ConfKey(x) \in DOMAIN d => d[ConfKey(x)] = IF x = k THEN v ELSE db[ConfKey(x)]
    BY <1>2, ConfKeyInjective
  <2>2. QED
    BY <2>1 DEF StableOf, ConfKey
<1>11. R!Set(k, v)
  BY <1>3, <1>9, <1>10 DEF Write, R!Set
<1>12. WriteStep
  BY <1>11 DEF WriteStep
<1>13. QED
  BY <1>3, <1>8, <1>12, WriteFacts

(* A sync, also the one of a database that is closed. *)
LEMMA SyncStep ==
  ASSUME PInv, older' = {}, db' = db, LifeOK'
  PROVE  PInv' /\ StoreStep
<1>1. PInv'
  BY DEF PInv
<1>2. Views' = {} /\ LogsOf(db)' = LogsOf(db) /\ StableOf(db)' = StableOf(db)
  BY DEF Views, LogsOf, StableOf, Indexes
<1>3. R!Next
  BY <1>2 DEF Views, View, R!Next, R!Sync
<1>4. QED
  BY <1>1, <1>3 DEF StoreStep

(* The workers stay within their bound. *)
LEMMA LifeKept ==
  ASSUME LifeOK, \/ notify \/ Worker \/ New \/ Close \/ Stopped \/ Closed \/ Sync \/ Crash
                 \/ UNCHANGED vars
  PROVE  LifeOK'
<1> USE DEF notify, Worker, New, Close, Stopped, Closed, Sync, Crash, vars, life
<1>1. told' \in BOOLEAN
  BY Zenon DEF LifeOK
<1>2. phase' \in {"opening", "open", "stopping", "closing"}
  BY Zenon DEF LifeOK
<1>3. workers' \in 0 .. MaxWorkers + 1 /\ (phase' = "opening" => workers' <= MaxWorkers)
  <2>1. workers \in 0 .. MaxWorkers + 1 /\ (phase = "opening" => workers <= MaxWorkers)
    BY DEF LifeOK
  <2>2. CASE notify \/ Worker
    BY <2>1, <2>2
  <2>3. CASE New \/ Close \/ Stopped
    BY <2>1, <2>3
  <2>4. CASE Closed \/ Sync \/ Crash \/ UNCHANGED vars
    BY <2>1, <2>4
  <2>5. QED
    BY <2>2, <2>3, <2>4
<1>4. QED
  BY <1>1, <1>2, <1>3 DEF LifeOK

(* A crash loses the writes since some point after the last sync. *)
LEMMA CrashStep ==
  ASSUME PInv, Crash
  PROVE  PInv' /\ StoreStep
<1>1. older' = {} /\ LifeOK'
  BY LifeKept DEF Crash, PInv
<1>2. CASE db' = db
  BY <1>1, <1>2, SyncStep
<1>3. CASE db' \in older
  <2>1. PInv'
    BY <1>1, <1>3 DEF PInv
  <2>2. View(db') \in Views /\ LogsOf(db)' = View(db')[1] /\ StableOf(db)' = View(db')[2]
    BY <1>3 DEF Views, View, LogsOf, StableOf, Indexes
  <2>3. Views' = {}
    BY <1>1 DEF Views
  <2>4. R!Next
    BY <2>2, <2>3 DEF Views, View, R!Next, R!Crash
  <2>5. QED
    BY <2>1, <2>4 DEF StoreStep
<1>4. QED
  BY <1>2, <1>3 DEF Crash

(* The steps of the workers and of opening and closing leave the data alone. *)
LEMMA LifeStep ==
  ASSUME PInv, UNCHANGED <<db, older>>, LifeOK'
  PROVE  PInv' /\ StoreStep
  BY DEF PInv, StoreStep, Views, View, LogsOf, StableOf, Indexes

(* Every step keeps the invariant and is a step of the abstract store. *)
LEMMA EveryStep == PInv /\ [Next]_vars => PInv' /\ StoreStep
<1> SUFFICES ASSUME PInv, [Next]_vars PROVE PInv' /\ StoreStep
  OBVIOUS
<1>1. LifeOK /\ FirstIndex \in Nat /\ LastIndex \in Nat
  BY Ends, Holds, IndexWords DEF PInv, Whole
<1>2. ASSUME notify \/ Worker \/ New \/ Close \/ Stopped \/ UNCHANGED vars
      PROVE  PInv' /\ StoreStep
  <2>1. UNCHANGED <<db, older>>
    BY <1>2 DEF notify, Worker, New, Close, Stopped, vars
  <2>2. LifeOK'
    BY <1>1, <1>2, LifeKept
  <2>3. QED
    BY <2>1, <2>2, LifeStep
<1>3. ASSUME Sync \/ Closed PROVE PInv' /\ StoreStep
  <2>1. older' = {} /\ db' = db
    BY <1>3 DEF Sync, Closed
  <2>2. LifeOK'
    BY <1>1, <1>3, LifeKept
  <2>3. QED
    BY <2>1, <2>2, SyncStep
<1>4. ASSUME NEW max \in FirstIndex .. LastIndex, FirstIndex # 0, DeleteRange(FirstIndex, max)
      PROVE  PInv' /\ StoreStep
  <2>1. FirstIndex \in FirstIndex .. LastIndex
    BY <1>1, <1>4
  <2>2. QED
    BY <1>4, <2>1, DeleteRangeStep
<1>5. ASSUME NEW min \in FirstIndex .. LastIndex, FirstIndex # 0, DeleteRange(min, LastIndex)
      PROVE  PInv' /\ StoreStep
  <2>1. LastIndex \in FirstIndex .. LastIndex
    BY <1>1, <1>5
  <2>2. QED
    BY <1>5, <2>1, DeleteRangeStep
<1>6. QED
  BY <1>2, <1>3, <1>4, <1>5, StoreLogsStep, SetStep, CrashStep DEF Next, Set, ConfKey

(* The store starts empty. *)
LEMMA InitPebble == Init => PInv /\ R!Init
<1> SUFFICES ASSUME Init PROVE PInv /\ R!Init
  OBVIOUS
<1>1. LifeOK
  <2>1. told \in BOOLEAN
    BY Zenon DEF Init
  <2>2. QED
    BY <2>1 DEF Init, LifeOK
<1>2. DOMAIN db = {} /\ older = {}
  BY DEF Init
<1>3. Indexes(db) = {} /\ {x \in Key : prefixConf \o x \in DOMAIN db} = {}
  BY <1>2 DEF Indexes
<1>4. Whole(db)
  BY <1>2, <1>3 DEF Whole, DataOK, Convex
<1>5. LogsOf(db) = <<>> /\ StableOf(db) = <<>>
  BY <1>3 DEF LogsOf, StableOf
<1>6. QED
  BY <1>1, <1>2, <1>4, <1>5 DEF PInv, R!Init

(* Every database that is, or that a crash may fall back to, holds keys of the
   two kinds and no gap, whatever raft calls. *)
THEOREM PebbleInvariance == Spec => []PInv
  BY InitPebble, EveryStep, PTL DEF Spec

(* No key is outside the two ranges of the store, at whatever point it
   crashes; the workers stay within their bound. *)
THEOREM PebbleTypes == Spec => []TypeOK
<1>1. PInv => TypeOK
  BY DEF PInv, LifeOK, Whole, DataOK, ConfKey, TypeOK
<1>2. QED
  BY <1>1, PebbleInvariance, PTL

(* FirstIndex .. LastIndex are the indexes stored, for every sequence of raft's
   calls with crashes in between and for every width of an index. *)
THEOREM NoGapAlways == Spec => []NoGap
<1>1. PInv => NoGap
  <2> SUFFICES ASSUME PInv PROVE NoGap
    OBVIOUS
  <2>1. DataOK(db) /\ Convex(db)
    BY DEF PInv, Whole
  <2>2. CASE Indexes(db) = {} /\ FirstIndex = 0 /\ LastIndex = 0
    BY <2>2 DEF NoGap
  <2>3. CASE /\ FirstIndex \in Indexes(db) /\ LastIndex \in Indexes(db)
             /\ \A i \in Indexes(db) : FirstIndex <= i /\ i <= LastIndex
    <3>1. Indexes(db) \subseteq 1 .. MaxIndex /\ MaxIndex \in Nat
      BY <2>1, Holds, IndexWords
    <3>2. Indexes(db) = FirstIndex .. LastIndex
      <4>1. FirstIndex \in Nat /\ LastIndex \in Nat /\ Indexes(db) \subseteq Nat
        BY <2>3, <3>1
      <4>2. ASSUME NEW i \in FirstIndex .. LastIndex PROVE i \in Indexes(db)
        <5>1. i \in Nat /\ FirstIndex <= i /\ i <= LastIndex
          BY <4>1
        <5>2. QED
          BY <2>1, <2>3, <5>1 DEF Convex
      <4>3. ASSUME NEW i \in Indexes(db) PROVE i \in FirstIndex .. LastIndex
        BY <2>3, <4>1
      <4>4. QED
        BY <4>2, <4>3
    <3>3. LastIndex # 0
      BY <2>3, <3>1
    <3>4. QED
      BY <3>2, <3>3 DEF NoGap
  <2>4. QED
    BY <2>1, <2>2, <2>3, Ends
<1>2. QED
  BY <1>1, PebbleInvariance, PTL

(* Byte keys in one database implement the entry store and the value store
   that raft expects, for every width of an index and every stable key. *)
THEOREM ImplementsRaftStoreAlways == Spec => ImplementsRaftStore
<1>1. Init => R!Init
  BY InitPebble
<1>2. PInv /\ [Next]_vars => [R!Next]_<<LogsOf(db), StableOf(db), Views>>
  BY EveryStep DEF StoreStep
<1>3. QED
  BY <1>1, <1>2, PebbleInvariance, PTL DEF Spec, ImplementsRaftStore, R!Spec, R!vars, Views, View
===============================================================================

--------------------------- MODULE BytePathProofs ---------------------------
(***************************************************************************)
(* Theorems about BytePath, for every size of byte, queue, counter, message*)
(* and buffer.  Induction over the length of a sequence comes from the     *)
(* library's well-foundedness of the naturals, by way of sets: what holds  *)
(* of 0, and of n + 1 when it holds of n, is a set that contains 0..N.     *)
(***************************************************************************)
EXTENDS BytePath, TLAPS, WellFoundedInduction

-----------------------------------------------------------------------------
(* Induction.                                                              *)

\* A set of naturals with an element has a least one.
LEMMA Least ==
  ASSUME NEW T \in SUBSET Nat, T # {}
  PROVE  \E n \in T : \A m \in T : n <= m
<1> DEFINE R == OpToRel(<, Nat)
<1>1. IsWellFoundedOn(R, Nat)
  BY NatLessThanWellFounded
<1>2. PICK n \in T : \A m \in T : <<m, n>> \notin R
  <2> HIDE DEF R
  <2> QED BY <1>1, WFMin
<1>3. ASSUME NEW m \in T, m < n
      PROVE  FALSE
  <2>1. <<m, n>> \in R
    BY <1>3 DEF OpToRel
  <2> QED BY <1>2, <2>1
<1>4. \A m \in T : ~(m < n)
  BY <1>3
<1> QED BY <1>4

\* A set that has 0, and n + 1 with every n below N, has all of 0..N.
LEMMA UpTo ==
  ASSUME NEW N \in Nat, NEW T, 0 \in T,
         \A n \in 0..N - 1 : n \in T => n + 1 \in T
  PROVE  0..N \subseteq T
<1> SUFFICES ASSUME ~(0..N \subseteq T)
             PROVE  FALSE
  OBVIOUS
<1> DEFINE B == {n \in 0..N : n \notin T}
<1>1. PICK n \in B : \A m \in B : n <= m
  <2>1. B \in SUBSET Nat /\ B # {}
    OBVIOUS
  <2> HIDE DEF B
  <2> QED BY <2>1, Least
<1>2. n \in 1..N /\ n - 1 \in 0..N - 1 /\ n - 1 \in T
  BY <1>1
<1>3. (n - 1) + 1 = n
  BY <1>2
<1> QED BY <1>1, <1>2, <1>3

-----------------------------------------------------------------------------
(* Numbers.                                                                *)

\* The constants are numbers.
LEMMA Sizes ==
  /\ DataBits \in Nat \ {0} /\ FrameBits \in Nat \ {0} /\ FrameBits = DataBits + 2
  /\ QueueSize \in Nat \ {0} /\ Wrap \in Nat \ {0} /\ QueueSize < Wrap
  /\ Wrap % QueueSize = 0 /\ OutSize \in Nat \ {0}
  BY AsyncAssumption DEF FrameBits

\* Quotient and remainder.
LEMMA Div ==
  ASSUME NEW a \in Int, NEW n \in Nat \ {0}
  PROVE  /\ a \div n \in Int /\ a % n \in 0..n - 1
         /\ a = n * (a \div n) + (a % n)
  BY SMT

\* Two numbers below n that differ by a multiple of n are equal.
LEMMA OneMultiple ==
  ASSUME NEW n \in Nat \ {0}, NEW k \in Int, n * k < n, n * k > -n
  PROVE  k = 0
<1>1. CASE k >= 1
  <2>1. n * k >= n * 1
    BY <1>1
  <2> QED BY <2>1
<1>2. CASE k <= -1
  <2>1. n * k <= n * (-1)
    BY <1>2
  <2> QED BY <2>1
<1> QED BY <1>1, <1>2

\* A remainder and a quotient are known by what they add up to.
LEMMA DivUnique ==
  ASSUME NEW n \in Nat \ {0}, NEW q \in Int, NEW r \in 0..n - 1
  PROVE  (n * q + r) % n = r /\ (n * q + r) \div n = q
<1> DEFINE a == n * q + r
           p == a \div n
           s == a % n
<1>1. a \in Int /\ n * q \in Int
  OBVIOUS
<1>2. p \in Int /\ s \in 0..n - 1 /\ a = n * p + s
  <2> HIDE DEF a
  <2> QED BY <1>1, Div
<1>3. n * q + r = n * p + s
  BY <1>2
<1> HIDE DEF a, p, s
<1>4. n * (q - p) = n * q - n * p /\ n * p \in Int
  BY <1>2
<1>5. n * (q - p) = s - r
  BY <1>1, <1>2, <1>3, <1>4
<1>6. q - p = 0
  BY <1>2, <1>5, OneMultiple
<1>7. p = q
  BY <1>2, <1>6
<1>8. s = r
  BY <1>1, <1>2, <1>3, <1>7
<1> QED BY <1>7, <1>8 DEF a, p, s

\* A multiple of n does not change the remainder.
LEMMA AddMultiple ==
  ASSUME NEW n \in Nat \ {0}, NEW a \in Int, NEW k \in Int
  PROVE  (a + n * k) % n = a % n
<1> DEFINE q == a \div n
           r == a % n
<1>1. q \in Int /\ r \in 0..n - 1 /\ a = n * q + r
  BY Div
<1> HIDE DEF q, r
<1>2. n * (q + k) = n * q + n * k /\ n * q \in Int /\ n * k \in Int
  BY <1>1
<1>3. a + n * k = n * (q + k) + r
  BY <1>1, <1>2
<1>4. q + k \in Int
  BY <1>1
<1>5. (n * (q + k) + r) % n = r
  BY <1>1, <1>4, DivUnique
<1> QED BY <1>3, <1>5 DEF r

\* A number that is small enough is its own remainder.
LEMMA SmallMod ==
  ASSUME NEW n \in Nat \ {0}, NEW a \in 0..n - 1
  PROVE  a % n = a
<1>1. (n * 0 + a) % n = a
  BY DivUnique
<1> QED BY <1>1

\* The remainder of a remainder, when one divisor divides the other.
LEMMA ModMod ==
  ASSUME NEW n \in Nat \ {0}, NEW w \in Nat \ {0}, w % n = 0, NEW a \in Int, NEW b \in Int
  PROVE  /\ (a + (b % w)) % n = (a + b) % n
         /\ (a - (b % w)) % n = (a - b) % n
<1> DEFINE q == b \div w
           r == b % w
           m == w \div n
<1>1. q \in Int /\ r \in Int /\ b = w * q + r
  BY Div
<1>2. m \in Int /\ w = n * m
  BY Div
<1> HIDE DEF q, r, m
<1>3. w * q = n * (m * q) /\ m * q \in Int
  BY <1>1, <1>2
<1> DEFINE k == m * q
<1>4. k \in Int /\ b = n * k + r
  BY <1>1, <1>3
<1> HIDE DEF k
<1>5. n * k \in Int /\ n * (-k) = -(n * k) /\ -k \in Int
  BY <1>4
<1>6. a + b = (a + r) + n * k /\ a - b = (a - r) + n * (-k)
  BY <1>1, <1>4, <1>5
<1>7. ((a + r) + n * k) % n = (a + r) % n
  <2>1. a + r \in Int
    BY <1>1
  <2> QED BY <1>4, <2>1, AddMultiple
<1>8. ((a - r) + n * (-k)) % n = (a - r) % n
  <2>1. a - r \in Int
    BY <1>1
  <2> QED BY <1>5, <2>1, AddMultiple
<1> QED BY <1>6, <1>7, <1>8 DEF r

-----------------------------------------------------------------------------
(* Framing.                                                                *)

\* Sequences are equal when their elements are.
LEMMA SameSeq ==
  ASSUME NEW S, NEW s \in Seq(S), NEW t \in Seq(S), Len(s) = Len(t),
         \A i \in 1..Len(s) : s[i] = t[i]
  PROVE  s = t
  OBVIOUS

\* What a sequence and another behind it are.
LEMMA Joined ==
  ASSUME NEW S, NEW s \in Seq(S), NEW t \in Seq(S)
  PROVE  /\ s \o t \in Seq(S) /\ Len(s \o t) = Len(s) + Len(t)
         /\ \A i \in 1..Len(s) : (s \o t)[i] = s[i]
         /\ \A i \in 1..Len(t) : (s \o t)[Len(s) + i] = t[i]
  OBVIOUS

\* A byte is a sequence of bits, and a frame is one with a bit at either end.
LEMMA FrameIs ==
  ASSUME NEW byte \in Byte
  PROVE  /\ byte \in Seq(Bit) /\ Len(byte) = DataBits
         /\ Frame(byte) \in Seq(Bit) /\ Len(Frame(byte)) = FrameBits
         /\ Frame(byte)[1] = 0 /\ Frame(byte)[FrameBits] = 1
         /\ \A k \in 1..DataBits : Frame(byte)[k + 1] = byte[k] /\ byte[k] \in Bit
<1>1. byte \in Seq(Bit) /\ Len(byte) = DataBits
  BY Sizes DEF Byte
<1>2. <<0>> \in Seq(Bit) /\ <<1>> \in Seq(Bit) /\ Len(<<0>>) = 1 /\ Len(<<1>>) = 1
  BY DEF Bit
<1>3. /\ <<0>> \o byte \in Seq(Bit) /\ Len(<<0>> \o byte) = DataBits + 1
      /\ (<<0>> \o byte)[1] = 0
      /\ \A k \in 1..DataBits : (<<0>> \o byte)[k + 1] = byte[k]
  BY <1>1, <1>2, Sizes
<1>4. \A k \in 1..DataBits : byte[k] \in Bit
  BY DEF Byte
<1> QED BY <1>2, <1>3, <1>4, Sizes DEF Frame

\* A place is a frame and a place in it.
LEMMA DivFrame ==
  ASSUME NEW p \in Int
  PROVE  /\ p \div FrameBits \in Int /\ p % FrameBits \in 0..FrameBits - 1
         /\ p = FrameBits * (p \div FrameBits) + (p % FrameBits)
<1>1. \A n \in Nat \ {0} : /\ p \div n \in Int /\ p % n \in 0..n - 1
                            /\ p = n * (p \div n) + (p % n)
  BY Div
<1>2. FrameBits \in Nat \ {0}
  BY Sizes
<1> QED BY <1>1, <1>2

\* The frames of some bytes are as many bits as there are.
LEMMA FramesAre ==
  ASSUME NEW bytes \in Seq(Byte)
  PROVE  /\ Frames(bytes) \in Seq(Bit) /\ Len(Frames(bytes)) = FrameBits * Len(bytes)
         /\ FrameBits * Len(bytes) \in Nat
         /\ \A m \in 0..Len(bytes) - 1, r \in 0..FrameBits - 1 :
               /\ FrameBits * m + r \in 0..FrameBits * Len(bytes) - 1
               /\ Frames(bytes)[FrameBits * m + r + 1] = Frame(bytes[m + 1])[r + 1]
<1> DEFINE n == FrameBits * Len(bytes)
<1>1. n \in Nat /\ Len(bytes) * FrameBits = n
  BY Sizes
<1>2. ASSUME NEW i \in 1..n
      PROVE  /\ (i - 1) % FrameBits \in 0..FrameBits - 1
             /\ (i - 1) \div FrameBits \in 0..Len(bytes) - 1
  <2> DEFINE q == (i - 1) \div FrameBits
             r == (i - 1) % FrameBits
  <2>1. q \in Int /\ r \in 0..FrameBits - 1 /\ i - 1 = FrameBits * q + r
    <3>1. i - 1 \in Int
      BY <1>1
    <3> QED BY <3>1, DivFrame
  <2> HIDE DEF q, r
  <2>2. q >= 0
    <3>1. CASE q <= -1
      <4>1. FrameBits * q <= FrameBits * (-1)
        BY <2>1, <3>1, Sizes
      <4> QED BY <1>1, <2>1, <4>1, Sizes
    <3> QED BY <2>1, <3>1
  <2>3. q < Len(bytes)
    <3>1. CASE q >= Len(bytes)
      <4>1. FrameBits * q >= FrameBits * Len(bytes)
        BY <2>1, <3>1, Sizes
      <4> QED BY <1>1, <2>1, <4>1, Sizes
    <3> QED BY <2>1, <3>1
  <2> QED BY <2>1, <2>2, <2>3 DEF q, r
<1>3. ASSUME NEW i \in 1..n
      PROVE  Frame(bytes[((i - 1) \div FrameBits) + 1])[((i - 1) % FrameBits) + 1] \in Bit
  <2> DEFINE q == (i - 1) \div FrameBits
             r == (i - 1) % FrameBits
  <2>1. r \in 0..FrameBits - 1 /\ q \in 0..Len(bytes) - 1
    BY <1>2
  <2> HIDE DEF q, r
  <2>2. bytes[q + 1] \in Byte
    BY <2>1
  <2>3. Frame(bytes[q + 1]) \in Seq(Bit) /\ Len(Frame(bytes[q + 1])) = FrameBits
    BY <2>2, FrameIs
  <2>4. r + 1 \in 1..FrameBits
    BY <2>1, Sizes
  <2>5. Frame(bytes[q + 1])[r + 1] \in Bit
    BY <2>3, <2>4
  <2> QED BY <2>5 DEF q, r
<1>4. Frames(bytes) = [i \in 1..n |->
          Frame(bytes[((i - 1) \div FrameBits) + 1])[((i - 1) % FrameBits) + 1]]
  BY <1>1 DEF Frames
<1>5. Frames(bytes) \in [1..n -> Bit]
  BY <1>3, <1>4
<1> HIDE DEF n
<1>6. Frames(bytes) \in Seq(Bit) /\ Len(Frames(bytes)) = n
  BY <1>1, <1>5
<1>7. ASSUME NEW m \in 0..Len(bytes) - 1, NEW r \in 0..FrameBits - 1
      PROVE  /\ FrameBits * m + r \in 0..n - 1
             /\ Frames(bytes)[FrameBits * m + r + 1] = Frame(bytes[m + 1])[r + 1]
  <2>1. FrameBits * m \in Nat /\ FrameBits * (m + 1) = FrameBits * m + FrameBits
    BY Sizes
  <2>2. FrameBits * (m + 1) <= FrameBits * Len(bytes)
    BY Sizes
  <2> DEFINE i == FrameBits * m + r + 1
  <2>3. i \in 1..n /\ i - 1 = FrameBits * m + r
    BY <1>1, <2>1, <2>2, Sizes DEF n
  <2>4. (FrameBits * m + r) % FrameBits = r /\ (FrameBits * m + r) \div FrameBits = m
    BY Sizes, DivUnique
  <2> HIDE DEF i
  <2>5. (i - 1) % FrameBits = r /\ (i - 1) \div FrameBits = m
    BY <2>3, <2>4
  <2>6. Frames(bytes)[i] = Frame(bytes[m + 1])[r + 1]
    BY <1>4, <2>3, <2>5
  <2>7. FrameBits * m + r \in 0..n - 1
    BY <2>3, <2>1, <1>1 DEF i
  <2> QED BY <2>6, <2>7 DEF i
<1> QED BY <1>1, <1>6, <1>7 DEF n

\* A place in the frames is a place in one of them.
LEMMA PlaceIn ==
  ASSUME NEW k \in Nat, NEW p \in 0..FrameBits * k - 1
  PROVE  \E m \in 0..k - 1, r \in 0..FrameBits - 1 : p = FrameBits * m + r
<1> DEFINE q == p \div FrameBits
           r == p % FrameBits
<1>1. FrameBits * k \in Nat
  BY Sizes
<1>2. q \in Int /\ r \in 0..FrameBits - 1 /\ p = FrameBits * q + r
  <2>1. p \in Int
    BY <1>1
  <2> QED BY <2>1, DivFrame
<1> HIDE DEF q, r
<1>3. q >= 0
  <2>1. CASE q <= -1
    <3>1. FrameBits * q <= FrameBits * (-1)
      BY <1>2, <2>1, Sizes
    <3> QED BY <1>1, <1>2, <3>1, Sizes
  <2> QED BY <1>2, <2>1
<1>4. q < k
  <2>1. CASE q >= k
    <3>1. FrameBits * q >= FrameBits * k
      BY <1>2, <2>1, Sizes
    <3> QED BY <1>1, <1>2, <3>1, Sizes
  <2> QED BY <1>2, <2>1
<1> QED BY <1>2, <1>3, <1>4

\* Bytes that are added are framed behind those that were there.
LEMMA FramesPlus ==
  ASSUME NEW a \in Seq(Byte), NEW b \in Seq(Byte)
  PROVE  Frames(a \o b) = Frames(a) \o Frames(b)
<1> DEFINE la == Len(a)  lb == Len(b)
           fa == Frames(a)  fb == Frames(b)  fc == Frames(a \o b)
<1>1. /\ a \o b \in Seq(Byte) /\ Len(a \o b) = la + lb /\ la \in Nat /\ lb \in Nat
      /\ \A i \in 1..la : (a \o b)[i] = a[i]
      /\ \A i \in 1..lb : (a \o b)[la + i] = b[i]
  OBVIOUS
<1>2. /\ fa \in Seq(Bit) /\ Len(fa) = FrameBits * la /\ FrameBits * la \in Nat
      /\ fb \in Seq(Bit) /\ Len(fb) = FrameBits * lb /\ FrameBits * lb \in Nat
      /\ fc \in Seq(Bit) /\ Len(fc) = FrameBits * (la + lb)
  BY <1>1, FramesAre
<1>3. FrameBits * (la + lb) = FrameBits * la + FrameBits * lb
  BY <1>1, Sizes
<1>4. Len(fc) = Len(fa \o fb) /\ fa \o fb \in Seq(Bit)
  <2>1. Len(fa) \in Nat /\ Len(fb) \in Nat /\ Len(fc) = Len(fa) + Len(fb)
    BY <1>2, <1>3
  <2> HIDE DEF fa, fb, fc
  <2>2. Len(fa \o fb) = Len(fa) + Len(fb) /\ fa \o fb \in Seq(Bit)
    BY <1>2, Joined
  <2> QED BY <2>1, <2>2
<1>5. ASSUME NEW j \in 1..FrameBits * la
      PROVE  fc[j] = fa[j]
  <2>1. PICK m \in 0..la - 1, r \in 0..FrameBits - 1 : j - 1 = FrameBits * m + r
    <3>1. j - 1 \in 0..FrameBits * la - 1
      BY <1>2
    <3> QED BY <1>1, <3>1, PlaceIn
  <2>2. FrameBits * m \in Int /\ j = FrameBits * m + r + 1
    BY <2>1, <1>2, Sizes
  <2>3. m \in 0..(la + lb) - 1 /\ (a \o b)[m + 1] = a[m + 1]
    BY <1>1
  <2>4. fa[FrameBits * m + r + 1] = Frame(a[m + 1])[r + 1]
    BY FramesAre
  <2>5. m \in 0..Len(a \o b) - 1
    BY <1>1, <2>3
  <2>6. fc[FrameBits * m + r + 1] = Frame((a \o b)[m + 1])[r + 1]
    BY <1>1, <2>5, FramesAre
  <2> QED BY <2>2, <2>3, <2>4, <2>6
<1>6. ASSUME NEW j \in 1..FrameBits * lb
      PROVE  fc[FrameBits * la + j] = fb[j]
  <2>1. PICK m \in 0..lb - 1, r \in 0..FrameBits - 1 : j - 1 = FrameBits * m + r
    <3>1. j - 1 \in 0..FrameBits * lb - 1
      BY <1>2
    <3> QED BY <1>1, <3>1, PlaceIn
  <2>2. FrameBits * m \in Int /\ j = FrameBits * m + r + 1
    BY <2>1, <1>2, Sizes
  <2>3. la + m \in 0..Len(a \o b) - 1 /\ (a \o b)[(la + m) + 1] = b[m + 1]
    <3>1. la + (m + 1) = (la + m) + 1 /\ m + 1 \in 1..lb
      BY <1>1
    <3> QED BY <1>1, <3>1
  <2>4. fb[FrameBits * m + r + 1] = Frame(b[m + 1])[r + 1]
    BY FramesAre
  <2>5. fc[FrameBits * (la + m) + r + 1] = Frame((a \o b)[(la + m) + 1])[r + 1]
    BY <1>1, <2>3, FramesAre
  <2>6. FrameBits * (la + m) = FrameBits * la + FrameBits * m
    BY <1>1, Sizes
  <2>7. FrameBits * la + j = FrameBits * (la + m) + r + 1
    <3> DEFINE u == FrameBits * la   v == FrameBits * m   w == FrameBits * (la + m)
    <3>1. u \in Int /\ v \in Int /\ w = u + v /\ j = v + r + 1 /\ r \in Int
      BY <1>2, <2>2, <2>6
    <3> HIDE DEF u, v, w
    <3>2. u + j = w + r + 1
      BY <3>1
    <3> QED BY <3>2 DEF u, w
  <2>8. fc[FrameBits * la + j] = Frame((a \o b)[(la + m) + 1])[r + 1]
    BY <2>5, <2>7, Zenon
  <2>9. fb[j] = Frame(b[m + 1])[r + 1]
    BY <2>2, <2>4, Zenon
  <2> QED BY <2>3, <2>8, <2>9, Zenon
<1> HIDE DEF fa, fb, fc
<1>7. ASSUME NEW j \in 1..Len(fc)
      PROVE  fc[j] = (fa \o fb)[j]
  <2>0. j \in 1..FrameBits * la + FrameBits * lb
    BY <1>2, <1>3
  <2>1. CASE j <= FrameBits * la
    <3>1. j \in 1..FrameBits * la
      BY <2>0, <2>1
    <3>2. (fa \o fb)[j] = fa[j]
      BY <1>2, <2>0, <3>1
    <3> QED BY <3>1, <3>2, <1>5
  <2>2. CASE j > FrameBits * la
    <3>1. j - FrameBits * la \in 1..FrameBits * lb
      BY <2>0, <2>2, <1>2
    <3>2. fc[FrameBits * la + (j - FrameBits * la)] = fb[j - FrameBits * la]
      BY <3>1, <1>6
    <3>3. FrameBits * la + (j - FrameBits * la) = j
      BY <1>2
    <3>4. (fa \o fb)[j] = fb[j - FrameBits * la]
      <4>1. j \in Len(fa) + 1..Len(fa) + Len(fb)
        BY <1>2, <2>0, <2>2
      <4>2. (fa \o fb)[j] = fb[j - Len(fa)]
        <5>1. j - Len(fa) \in 1..Len(fb) /\ Len(fa) + (j - Len(fa)) = j
          BY <1>2, <4>1
        <5> QED BY <1>2, <5>1, Joined
      <4> QED BY <1>2, <4>2
    <3> QED BY <3>2, <3>3, <3>4
  <2> QED BY <2>0, <2>1, <2>2, <1>2
<1>8. fc = fa \o fb
  BY <1>2, <1>4, <1>7, SameSeq
<1> QED BY <1>8 DEF fa, fb, fc

-----------------------------------------------------------------------------
(* The bit queue.                                                          *)

\* q holds what is left of the bits s once the first p of them are popped: the
\* counters are the places of the ends of that, and the ring has each bit at its
\* place, both as far as they can count.
Holds(q, s, p) ==
    /\ q \in Bitq /\ s \in Seq(Bit) /\ p \in 0..Len(s) /\ Len(s) - p <= QueueSize
    /\ q.head = Len(s) % Wrap /\ q.tail = p % Wrap
    /\ \A j \in p..Len(s) - 1 : q.bits[j % QueueSize] = s[j + 1]

\* An empty queue holds nothing of nothing.
LEMMA EmptyHolds == Holds(BitqEmpty, <<>>, 0)
<1>1. BitqEmpty \in Bitq
  BY Sizes DEF BitqEmpty, Bitq, Bit
<1>2. 0 % Wrap = 0
  BY Sizes, SmallMod
<1>3. <<>> \in Seq(Bit) /\ Len(<<>>) = 0
  OBVIOUS
<1> QED BY <1>1, <1>2, <1>3, Sizes DEF Holds, BitqEmpty

\* The counters' difference is what the queue holds, however often they wrapped.
LEMMA CountIs ==
  ASSUME NEW q, NEW s, NEW p, Holds(q, s, p)
  PROVE  BitqCount(q) = Len(s) - p
<1>1. Len(s) \in Nat /\ p \in 0..Len(s) /\ Len(s) - p \in 0..Wrap - 1 /\ Wrap \in Nat \ {0}
  BY Sizes DEF Holds
<1>2. Wrap % Wrap = 0
  <2>1. (Wrap * 1 + 0) % Wrap = 0
    BY <1>1, DivUnique
  <2> QED BY <1>1, <2>1
<1>3. (Len(s) % Wrap) \in Int
  BY <1>1, Div
<1>4. ((Len(s) % Wrap) - (p % Wrap)) % Wrap = ((Len(s) % Wrap) - p) % Wrap
  <2> DEFINE a == Len(s) % Wrap
  <2>1. p \in Int /\ a \in Int /\ Wrap \in Nat \ {0} /\ Wrap % Wrap = 0
    BY <1>1, <1>2, <1>3
  <2> HIDE DEF a
  <2>2. (a - (p % Wrap)) % Wrap = (a - p) % Wrap
    BY <2>1, ModMod
  <2> QED BY <2>2 DEF a
<1>5. (-p + (Len(s) % Wrap)) % Wrap = (-p + Len(s)) % Wrap
  <2> DEFINE a == -p   l == Len(s)
  <2>1. a \in Int /\ l \in Int /\ Wrap \in Nat \ {0} /\ Wrap % Wrap = 0
    BY <1>1, <1>2
  <2> HIDE DEF a, l
  <2>2. (a + (l % Wrap)) % Wrap = (a + l) % Wrap
    BY <2>1, ModMod
  <2> QED BY <2>2 DEF a, l
<1>6. (Len(s) % Wrap) - p = -p + (Len(s) % Wrap) /\ -p + Len(s) = Len(s) - p
  BY <1>1, <1>3
<1>7. (Len(s) - p) % Wrap = Len(s) - p
  BY <1>1, SmallMod
<1> QED BY <1>4, <1>5, <1>6, <1>7 DEF Holds, BitqCount

\* Where a bit is in the ring: places less than a ring apart are different, and
\* the counter's value modulo its own size gives the same place.
LEMMA RingPlace ==
  ASSUME NEW h \in Nat, NEW j \in Int, j - h < QueueSize, h - j <= QueueSize
  PROVE  ((j % QueueSize) - (h % Wrap)) % QueueSize
            = IF j >= h THEN j - h ELSE j - h + QueueSize
<1>1. QueueSize \in Nat \ {0} /\ Wrap \in Nat \ {0} /\ Wrap % QueueSize = 0
      /\ QueueSize % QueueSize = 0
  <2>1. (QueueSize * 1 + 0) % QueueSize = 0
    BY Sizes, DivUnique
  <2> QED BY <2>1, Sizes
<1>2. (j % QueueSize) \in Int /\ (h % Wrap) \in Int
  BY <1>1, Div
<1>3. ((j % QueueSize) - (h % Wrap)) % QueueSize = ((j % QueueSize) - h) % QueueSize
  <2>1. h \in Int
    OBVIOUS
  <2> QED BY <1>1, <1>2, <2>1, ModMod
<1>4. (-h + (j % QueueSize)) % QueueSize = (-h + j) % QueueSize
  <2>1. -h \in Int
    OBVIOUS
  <2> QED BY <1>1, <2>1, ModMod
<1>5. (j % QueueSize) - h = -h + (j % QueueSize) /\ -h + j = j - h
  BY <1>2
<1>6. CASE j >= h
  <2>1. j - h \in 0..QueueSize - 1
    BY <1>6, <1>1
  <2>2. (j - h) % QueueSize = j - h
    BY <1>1, <2>1, SmallMod
  <2> QED BY <1>3, <1>4, <1>5, <1>6, <2>2
<1>7. CASE j < h
  <2>1. j - h + QueueSize \in 0..QueueSize - 1
    BY <1>7, <1>1
  <2>2. (j - h + QueueSize) % QueueSize = j - h + QueueSize
    BY <1>1, <2>1, SmallMod
  <2>3. (j - h + QueueSize * 1) % QueueSize = (j - h) % QueueSize
    <3>1. j - h \in Int /\ 1 \in Int
      OBVIOUS
    <3> QED BY <1>1, <3>1, AddMultiple
  <2>4. j - h + QueueSize * 1 = j - h + QueueSize
    BY <1>1
  <2> QED BY <1>3, <1>4, <1>5, <1>7, <2>2, <2>3, <2>4
<1> QED BY <1>6, <1>7

\* Bits that fit are held behind those that were there.
LEMMA PushHolds ==
  ASSUME NEW q, NEW s, NEW p, Holds(q, s, p), NEW b \in Seq(Bit),
         Len(s) - p + Len(b) <= QueueSize
  PROVE  Holds(BitqPush(q, b), s \o b, p)
<1> DEFINE h == Len(s)
           ring == [i \in 0..QueueSize - 1 |->
                       IF (i - q.head) % QueueSize < Len(b)
                       THEN b[((i - q.head) % QueueSize) + 1] ELSE q.bits[i]]
           top == (q.head + Len(b)) % Wrap
<1>1. /\ h \in Nat /\ p \in 0..h /\ Len(b) \in Nat /\ s \in Seq(Bit)
      /\ q.head = h % Wrap /\ q.tail = p % Wrap
      /\ \A j \in p..h - 1 : q.bits[j % QueueSize] = s[j + 1]
  <2> HIDE DEF ring, top
  <2>1. /\ s \in Seq(Bit) /\ p \in 0..Len(s) /\ q.head = Len(s) % Wrap /\ q.tail = p % Wrap
        /\ \A j \in p..Len(s) - 1 : q.bits[j % QueueSize] = s[j + 1]
    BY DEF Holds
  <2>2. Len(s) \in Nat /\ Len(b) \in Nat
    BY <2>1
  <2> QED BY <2>1, <2>2
<1>2. /\ q = [bits |-> q.bits, head |-> q.head, tail |-> q.tail]
      /\ q.bits \in [0..QueueSize - 1 -> Bit] /\ q.head \in 0..Wrap - 1 /\ q.tail \in 0..Wrap - 1
  BY DEF Holds, Bitq
<1>3. BitqPush(q, b) = [bits |-> ring, head |-> top, tail |-> q.tail]
  <2>1. BitqPush(q, b) = [q EXCEPT !.bits = ring, !.head = top]
    BY DEF BitqPush
  <2> HIDE DEF ring, top
  <2> QED BY <1>2, <2>1
<1>4. ring \in [0..QueueSize - 1 -> Bit]
  <2>1. ASSUME NEW i \in 0..QueueSize - 1
        PROVE  ring[i] \in Bit
    <3> DEFINE k == (i - q.head) % QueueSize
    <3>1. k \in 0..QueueSize - 1
      <4>1. i - q.head \in Int /\ QueueSize \in Nat \ {0}
        BY <1>2, Sizes
      <4> QED BY <4>1, Div
    <3> HIDE DEF k
    <3>2. ring[i] = IF k < Len(b) THEN b[k + 1] ELSE q.bits[i]
      BY DEF k
    <3>3. k < Len(b) => b[k + 1] \in Bit
      BY <3>1, <1>1
    <3>4. q.bits[i] \in Bit
      BY <1>2
    <3> HIDE DEF ring
    <3> QED BY <3>2, <3>3, <3>4
  <2> QED BY <2>1
<1>5. top \in 0..Wrap - 1 /\ top = (h + Len(b)) % Wrap
  <2>1. Wrap \in Nat \ {0} /\ Wrap % Wrap = 0
    <3>1. (Wrap * 1 + 0) % Wrap = 0
      BY Sizes, DivUnique
    <3> QED BY <3>1, Sizes
  <2>2. q.head + Len(b) \in Int
    BY <1>1, <1>2
  <2>3. top \in 0..Wrap - 1
    BY <2>1, <2>2, Div
  <2>4. (Len(b) + (h % Wrap)) % Wrap = (Len(b) + h) % Wrap
    <3>1. Len(b) \in Int /\ h \in Int
      BY <1>1
    <3> QED BY <2>1, <3>1, ModMod
  <2>5. q.head + Len(b) = Len(b) + (h % Wrap) /\ Len(b) + h = h + Len(b)
    BY <1>1, <1>2
  <2> QED BY <2>3, <2>4, <2>5
<1> HIDE DEF top
<1>6. /\ s \o b \in Seq(Bit) /\ Len(s \o b) = h + Len(b)
      /\ \A i \in 1..h : (s \o b)[i] = s[i]
      /\ \A i \in 1..Len(b) : (s \o b)[h + i] = b[i]
  BY <1>1, Joined
<1>7. ASSUME NEW j \in p..h + Len(b) - 1
      PROVE  ring[j % QueueSize] = (s \o b)[j + 1]
  <2> DEFINE i == j % QueueSize
             k == (i - q.head) % QueueSize
  <2>1. i \in 0..QueueSize - 1
    <3>1. j \in Int /\ QueueSize \in Nat \ {0}
      BY <1>1, Sizes
    <3> QED BY <3>1, Div
  <2>2. k = IF j >= h THEN j - h ELSE j - h + QueueSize
    <3>1. j \in Int /\ j - h < QueueSize /\ h - j <= QueueSize
      BY <1>1, Sizes DEF Holds
    <3>2. ((j % QueueSize) - (h % Wrap)) % QueueSize
            = IF j >= h THEN j - h ELSE j - h + QueueSize
      BY <1>1, <3>1, RingPlace
    <3> QED BY <1>1, <3>2
  <2>3. ring[i] = IF k < Len(b) THEN b[k + 1] ELSE q.bits[i]
    BY <2>1
  <2> HIDE DEF ring, k
  <2>4. CASE j >= h
    <3>1. k = j - h /\ k < Len(b) /\ k + 1 \in 1..Len(b) /\ h + (k + 1) = j + 1
      BY <1>1, <2>2, <2>4
    <3>2. (s \o b)[h + (k + 1)] = b[k + 1]
      BY <1>6, <3>1
    <3> HIDE DEF i
    <3> QED BY <2>3, <3>1, <3>2 DEF i
  <2>5. CASE j < h
    <3>1. k = j - h + QueueSize /\ ~(k < Len(b)) /\ j \in p..h - 1 /\ j + 1 \in 1..h
      BY <1>1, <2>2, <2>5, Sizes
    <3>2. (s \o b)[j + 1] = s[j + 1]
      BY <1>6, <3>1
    <3>3. q.bits[i] = s[j + 1]
      BY <1>1, <3>1
    <3> HIDE DEF i
    <3> QED BY <2>3, <3>1, <3>2, <3>3 DEF i
  <2> QED BY <2>4, <2>5, <1>1
<1> DEFINE r == [bits |-> ring, head |-> top, tail |-> q.tail]
<1>8. r.bits = ring /\ r.head = top /\ r.tail = q.tail
  OBVIOUS
<1>9. r \in Bitq
  BY <1>2, <1>4, <1>5 DEF Bitq
<1> HIDE DEF r, ring, h
<1>10. Holds(r, s \o b, p)
  <2>1. p \in 0..Len(s \o b) /\ Len(s \o b) - p <= QueueSize
    BY <1>1, <1>6 DEF h
  <2>2. r.head = Len(s \o b) % Wrap /\ r.tail = p % Wrap
    BY <1>1, <1>5, <1>6, <1>8
  <2>3. \A j \in p..Len(s \o b) - 1 : r.bits[j % QueueSize] = (s \o b)[j + 1]
    <3> TAKE j \in p..Len(s \o b) - 1
    <3>1. j \in p..h + Len(b) - 1
      BY <1>1, <1>6
    <3> QED BY <1>7, <1>8, <3>1
  <2> QED BY <1>6, <1>9, <2>1, <2>2, <2>3 DEF Holds
<1> QED BY <1>3, <1>10 DEF r

\* The bit that is popped is the oldest one, or a one when there is none.
LEMMA PopHolds ==
  ASSUME NEW q, NEW s, NEW p, Holds(q, s, p)
  PROVE  /\ p < Len(s) => /\ Holds(BitqPop(q, 1).q, s, p + 1)
                          /\ BitqPop(q, 1).line[1] = s[p + 1]
         /\ p = Len(s) => /\ Holds(BitqPop(q, 1).q, s, p)
                          /\ BitqPop(q, 1).line[1] = 1
<1> DEFINE h == Len(s)
<1>1. /\ h \in Nat /\ p \in 0..h /\ s \in Seq(Bit) /\ h - p <= QueueSize
      /\ q.head = h % Wrap /\ q.tail = p % Wrap
      /\ \A j \in p..h - 1 : q.bits[j % QueueSize] = s[j + 1]
  BY DEF Holds
<1>2. /\ q = [bits |-> q.bits, head |-> q.head, tail |-> q.tail]
      /\ q.bits \in [0..QueueSize - 1 -> Bit] /\ q.head \in 0..Wrap - 1 /\ q.tail \in 0..Wrap - 1
  BY DEF Holds, Bitq
<1>3. BitqCount(q) = h - p
  BY CountIs
<1>4. Wrap \in Nat \ {0} /\ Wrap % Wrap = 0 /\ Wrap % QueueSize = 0 /\ QueueSize \in Nat \ {0}
  <2>1. (Wrap * 1 + 0) % Wrap = 0
    BY Sizes, DivUnique
  <2> QED BY <2>1, Sizes
<1> DEFINE k == IF 1 < BitqCount(q) THEN 1 ELSE BitqCount(q)
           r == [bits |-> q.bits, head |-> q.head, tail |-> (q.tail + k) % Wrap]
<1>5. /\ BitqPop(q, 1).q = r
      /\ BitqPop(q, 1).line[1] = IF 1 <= k THEN q.bits[(q.tail + 1 - 1) % QueueSize] ELSE 1
  BY <1>2 DEF BitqPop
<1>6. k = IF p < h THEN 1 ELSE 0
  BY <1>1, <1>3
<1> HIDE DEF k
<1>7. ASSUME NEW n \in {0, 1}
      PROVE  (q.tail + n) % Wrap = (p + n) % Wrap
  <2>1. n \in Int /\ p \in Int
    BY <1>1
  <2>2. (n + (p % Wrap)) % Wrap = (n + p) % Wrap
    BY <1>4, <2>1, ModMod
  <2>3. q.tail + n = n + (p % Wrap) /\ n + p = p + n
    BY <1>1, <1>2, <2>1
  <2> QED BY <2>2, <2>3
<1>8. r.bits = q.bits /\ r.head = q.head /\ r.tail = (q.tail + k) % Wrap
  OBVIOUS
<1>9. r \in Bitq
  <2>1. q.tail + k \in Int
    BY <1>2, <1>6
  <2>2. (q.tail + k) % Wrap \in 0..Wrap - 1
    BY <1>4, <2>1, Div
  <2> QED BY <1>2, <2>2 DEF Bitq
<1> HIDE DEF r
<1>10. ASSUME p < h
       PROVE  Holds(r, s, p + 1) /\ BitqPop(q, 1).line[1] = s[p + 1]
  <2>1. k = 1 /\ r.tail = (p + 1) % Wrap
    BY <1>6, <1>7, <1>8, <1>10
  <2>2. Holds(r, s, p + 1)
    <3>1. p + 1 \in 0..Len(s) /\ Len(s) - (p + 1) <= QueueSize
      <4>1. QueueSize \in Nat
        BY <1>4
      <4>2. h \in Nat /\ p \in 0..h /\ h - p <= QueueSize
        BY <1>1
      <4> QED BY <1>10, <4>1, <4>2
    <3>2. \A j \in p + 1..Len(s) - 1 : r.bits[j % QueueSize] = s[j + 1]
      <4> TAKE j \in p + 1..Len(s) - 1
      <4>1. j \in p..h - 1
        BY <1>1
      <4> QED BY <1>1, <1>8, <4>1
    <3> QED BY <1>1, <1>8, <1>9, <2>1, <3>1, <3>2 DEF Holds
  <2>3. (q.tail + 1 - 1) % QueueSize = p % QueueSize
    <3>1. (0 + (p % Wrap)) % QueueSize = (0 + p) % QueueSize
      <4>1. p \in Int /\ 0 \in Int
        BY <1>1
      <4> QED BY <1>4, <4>1, ModMod
    <3>2. q.tail + 1 - 1 = 0 + (p % Wrap) /\ 0 + p = p
      BY <1>1, <1>2
    <3> QED BY <3>1, <3>2
  <2>4. q.bits[p % QueueSize] = s[p + 1]
    BY <1>1, <1>10
  <2>5. BitqPop(q, 1).line[1] = q.bits[p % QueueSize]
    BY <1>5, <2>1, <2>3
  <2> QED BY <2>2, <2>4, <2>5
<1>11. ASSUME p = h
       PROVE  Holds(r, s, p) /\ BitqPop(q, 1).line[1] = 1
  <2>1. k = 0 /\ r.tail = (p + 0) % Wrap /\ p + 0 = p
    BY <1>1, <1>6, <1>7, <1>8, <1>11
  <2>2. Holds(r, s, p)
    BY <1>1, <1>8, <1>9, <2>1 DEF Holds
  <2> QED BY <1>5, <2>1, <2>2
<1> QED BY <1>5, <1>10, <1>11

\* What waits is what was pushed and has not been popped, in its order.
LEMMA ContentsAre ==
  ASSUME NEW q, NEW s, NEW p, Holds(q, s, p)
  PROVE  /\ BitqContents(q) \in Seq(Bit) /\ Len(BitqContents(q)) = Len(s) - p
         /\ \A i \in 1..Len(s) - p : BitqContents(q)[i] = s[p + i]
<1> DEFINE n == Len(s) - p
<1>1. /\ n \in Nat /\ Len(s) \in Nat /\ p \in 0..Len(s) /\ s \in Seq(Bit)
      /\ q.tail = p % Wrap /\ q.tail \in Int
      /\ \A j \in p..Len(s) - 1 : q.bits[j % QueueSize] = s[j + 1]
  BY DEF Holds, Bitq
<1>2. BitqCount(q) = n
  BY CountIs
<1> HIDE DEF n
<1>3. BitqContents(q) = [i \in 1..n |-> IF i <= n THEN q.bits[(q.tail + i - 1) % QueueSize] ELSE 1]
  BY <1>1, <1>2 DEF BitqContents, BitqPop
<1>4. ASSUME NEW i \in 1..n
      PROVE  BitqContents(q)[i] = s[p + i] /\ s[p + i] \in Bit
  <2>1. BitqContents(q)[i] = q.bits[(q.tail + i - 1) % QueueSize]
    BY <1>1, <1>3
  <2>2. (i - 1 + (p % Wrap)) % QueueSize = (i - 1 + p) % QueueSize
    <3> DEFINE a == i - 1
    <3>1. a \in Int /\ p \in Int
      BY <1>1
    <3>2. QueueSize \in Nat \ {0} /\ Wrap \in Nat \ {0} /\ Wrap % QueueSize = 0
      BY Sizes
    <3> HIDE DEF a
    <3>3. (a + (p % Wrap)) % QueueSize = (a + p) % QueueSize
      BY <3>1, <3>2, ModMod
    <3> QED BY <3>3 DEF a
  <2>3. q.tail + i - 1 = i - 1 + (p % Wrap) /\ i - 1 + p = p + i - 1
    BY <1>1
  <2>4. p + i - 1 \in p..Len(s) - 1 /\ (p + i - 1) + 1 = p + i /\ p + i \in 1..Len(s)
    BY <1>1 DEF n
  <2>5. q.bits[(p + i - 1) % QueueSize] = s[p + i]
    BY <1>1, <2>4
  <2>6. s[p + i] \in Bit
    BY <1>1, <2>4
  <2> QED BY <2>1, <2>2, <2>3, <2>5, <2>6
<1>5. BitqContents(q) \in [1..n -> Bit]
  BY <1>3, <1>4
<1>6. BitqContents(q) \in Seq(Bit) /\ Len(BitqContents(q)) = n
  BY <1>1, <1>5
<1> QED BY <1>4, <1>6 DEF n

-----------------------------------------------------------------------------
(* The deframer.                                                           *)

\* A sequence no longer than N.
LEMMA AtMost ==
  ASSUME NEW S, NEW N \in Nat
  PROVE  UNION {[1..n -> S] : n \in 0..N} = {s \in Seq(S) : Len(s) <= N}
<1>1. ASSUME NEW n \in 0..N, NEW s \in [1..n -> S]
      PROVE  s \in Seq(S) /\ Len(s) <= N
  OBVIOUS
<1>2. ASSUME NEW s \in Seq(S), Len(s) <= N
      PROVE  \E n \in 0..N : s \in [1..n -> S]
  <2>1. Len(s) \in 0..N /\ s \in [1..Len(s) -> S]
    BY <1>2
  <2> QED BY <2>1
<1>3. UNION {[1..n -> S] : n \in 0..N} \subseteq {s \in Seq(S) : Len(s) <= N}
  BY <1>1
<1>4. {s \in Seq(S) : Len(s) <= N} \subseteq UNION {[1..n -> S] : n \in 0..N}
  BY <1>2
<1> QED BY <1>3, <1>4

\* A deframer between two bits: it has part of a byte while it collects one,
\* and all of it when it waits for the stop bit.
Shape(d) ==
    /\ d \in Deframer
    /\ d.state = "data" => Len(d.byte) < DataBits
    /\ d.state = "stop" => d.byte \in Byte

\* The fields of a deframer.
LEMMA ShapeIs ==
  ASSUME NEW d, Shape(d)
  PROVE  /\ d = [state |-> d.state, byte |-> d.byte, prev |-> d.prev, out |-> d.out]
         /\ d.state \in {"hunt", "data", "stop"} /\ d.prev \in Bit
         /\ d.byte \in Seq(Bit) /\ Len(d.byte) \in 0..DataBits
         /\ d.out \in Seq(Byte) /\ Len(d.out) \in 0..OutSize
         /\ d.state = "data" => Len(d.byte) < DataBits
         /\ d.state = "stop" => d.byte \in Byte /\ Len(d.byte) = DataBits
<1>1. /\ d = [state |-> d.state, byte |-> d.byte, prev |-> d.prev, out |-> d.out]
      /\ d.state \in {"hunt", "data", "stop"} /\ d.prev \in Bit
      /\ d.byte \in UNION {[1..n -> Bit] : n \in 0..DataBits}
      /\ d.out \in UNION {[1..n -> Byte] : n \in 0..OutSize}
  BY DEF Shape, Deframer
<1>2. d.byte \in {s \in Seq(Bit) : Len(s) <= DataBits}
  BY <1>1, AtMost, Sizes
<1>3. d.out \in {s \in Seq(Byte) : Len(s) <= OutSize}
  BY <1>1, AtMost, Sizes
<1>4. Len(d.byte) \in Nat /\ Len(d.out) \in Nat
  BY <1>2, <1>3
<1>5. d.state = "stop" => d.byte \in Byte /\ Len(d.byte) = DataBits
  BY FrameIs DEF Shape
<1> QED BY <1>1, <1>2, <1>3, <1>4, <1>5, Sizes DEF Shape

\* A deframer made of such fields.
LEMMA ShapeOf ==
  ASSUME NEW st \in {"hunt", "data", "stop"}, NEW by \in Seq(Bit), NEW pr \in Bit,
         NEW out \in Seq(Byte), Len(by) <= DataBits, Len(out) <= OutSize,
         st = "data" => Len(by) < DataBits, st = "stop" => Len(by) = DataBits
  PROVE  Shape([state |-> st, byte |-> by, prev |-> pr, out |-> out])
<1>1. by \in UNION {[1..n -> Bit] : n \in 0..DataBits}
  BY AtMost, Sizes
<1>2. out \in UNION {[1..n -> Byte] : n \in 0..OutSize}
  BY AtMost, Sizes
<1>3. st = "stop" => by \in Byte
  BY DEF Byte
<1> DEFINE d == [state |-> st, byte |-> by, prev |-> pr, out |-> out]
<1>4. d.state = st /\ d.byte = by /\ d.prev = pr /\ d.out = out
  OBVIOUS
<1>5. d \in Deframer
  BY <1>1, <1>2 DEF Deframer
<1> HIDE DEF d
<1>6. Shape(d)
  BY <1>3, <1>4, <1>5 DEF Shape
<1> QED BY <1>6 DEF d

\* What a bit does to a deframer that has room: it hunts, collects or completes.
LEMMA BitDoes ==
  ASSUME NEW d, Shape(d), Len(d.out) < OutSize, NEW bit \in Bit
  PROVE  /\ Shape(DeframerBit(d, bit))
         /\ DeframerBit(d, bit).prev = bit
         /\ DeframerBit(d, bit).out = IF d.state = "stop" /\ bit = 1
                                      THEN Append(d.out, d.byte) ELSE d.out
         /\ d.state = "hunt" => DeframerBit(d, bit).state
                                   = IF d.prev = 1 /\ bit = 0 THEN "data" ELSE "hunt"
         /\ d.state = "hunt" /\ d.prev = 1 /\ bit = 0 => DeframerBit(d, bit).byte = <<>>
         /\ d.state = "data" => /\ DeframerBit(d, bit).byte = Append(d.byte, bit)
                                /\ DeframerBit(d, bit).state
                                     = IF Len(d.byte) + 1 >= DataBits THEN "stop" ELSE "data"
         /\ d.state = "stop" => DeframerBit(d, bit).state = "hunt"
<1> DEFINE e == DeframerBit(d, bit)
<1>1. /\ d = [state |-> d.state, byte |-> d.byte, prev |-> d.prev, out |-> d.out]
      /\ d.state \in {"hunt", "data", "stop"} /\ d.prev \in Bit
      /\ d.byte \in Seq(Bit) /\ Len(d.byte) \in 0..DataBits
      /\ d.out \in Seq(Byte) /\ Len(d.out) \in 0..OutSize
      /\ d.state = "data" => Len(d.byte) < DataBits
      /\ d.state = "stop" => d.byte \in Byte /\ Len(d.byte) = DataBits
  BY ShapeIs
<1>2. DeframerFlush(d) = d
  BY <1>1, Sizes DEF DeframerFlush
<1>3. <<>> \in Seq(Bit) /\ Len(<<>>) = 0
  OBVIOUS
<1>4. CASE d.state = "hunt"
  <2>1. e = Hunt(d, bit)
    BY <1>2, <1>4 DEF DeframerBit
  <2>2. CASE d.prev = 1 /\ bit = 0
    <3>1. e = [state |-> "data", byte |-> <<>>, prev |-> bit, out |-> d.out]
      BY <1>1, <2>1, <2>2 DEF Hunt
    <3>2. Shape([state |-> "data", byte |-> <<>>, prev |-> bit, out |-> d.out])
      <4>1. Len(<<>>) <= DataBits /\ Len(<<>>) < DataBits /\ Len(d.out) <= OutSize
        BY <1>1, <1>3, Sizes
      <4>2. "data" \in {"hunt", "data", "stop"} /\ "data" # "stop"
        OBVIOUS
      <4> QED BY <1>1, <1>3, <4>1, <4>2, ShapeOf
    <3> QED BY <1>4, <2>2, <3>1, <3>2
  <2>3. CASE ~(d.prev = 1 /\ bit = 0)
    <3>1. e = [state |-> "hunt", byte |-> d.byte, prev |-> bit, out |-> d.out]
      BY <1>1, <1>4, <2>1, <2>3 DEF Hunt
    <3>2. Shape([state |-> "hunt", byte |-> d.byte, prev |-> bit, out |-> d.out])
      <4>1. Len(d.byte) <= DataBits /\ Len(d.out) <= OutSize
        BY <1>1, Sizes
      <4>2. "hunt" \in {"hunt", "data", "stop"} /\ "hunt" # "stop" /\ "hunt" # "data"
        OBVIOUS
      <4> QED BY <1>1, <4>1, <4>2, ShapeOf
    <3> QED BY <1>4, <2>3, <3>1, <3>2
  <2> QED BY <2>2, <2>3
<1>5. CASE d.state = "data"
  <2> DEFINE st == IF Len(d.byte) + 1 >= DataBits THEN "stop" ELSE "data"
             by == Append(d.byte, bit)
  <2>1. e = Collect(d, bit)
    BY <1>2, <1>5 DEF DeframerBit
  <2>2. e = [state |-> st, byte |-> by, prev |-> bit, out |-> d.out]
    BY <1>1, <2>1 DEF Collect
  <2>3. by \in Seq(Bit) /\ Len(by) = Len(d.byte) + 1
    BY <1>1
  <2>4. st \in {"data", "stop"} /\ (st = "data" => Len(by) < DataBits)
        /\ (st = "stop" => Len(by) = DataBits) /\ Len(by) <= DataBits
    BY <1>1, <1>5, <2>3, Sizes
  <2> HIDE DEF st, by
  <2>5. Shape([state |-> st, byte |-> by, prev |-> bit, out |-> d.out])
    <3>1. st \in {"hunt", "data", "stop"} /\ Len(d.out) <= OutSize
      BY <1>1, <2>4, Sizes
    <3> QED BY <1>1, <2>3, <2>4, <3>1, ShapeOf
  <2> QED BY <1>5, <2>2, <2>5 DEF st, by
<1>6. CASE d.state = "stop"
  <2> DEFINE out == IF bit = 1 THEN Append(d.out, d.byte) ELSE d.out
  <2>1. e = Stop(d, bit)
    BY <1>2, <1>6 DEF DeframerBit
  <2>2. e = [state |-> "hunt", byte |-> <<>>, prev |-> bit, out |-> out]
    BY <1>1, <2>1 DEF Stop
  <2>3. out \in Seq(Byte) /\ Len(out) <= OutSize
    <3>1. Append(d.out, d.byte) \in Seq(Byte) /\ Len(Append(d.out, d.byte)) = Len(d.out) + 1
      BY <1>1, <1>6
    <3> QED BY <1>1, <3>1, Sizes
  <2> HIDE DEF out
  <2>4. Shape([state |-> "hunt", byte |-> <<>>, prev |-> bit, out |-> out])
    <3>1. Len(<<>>) <= DataBits
      BY <1>3, Sizes
    <3>2. "hunt" \in {"hunt", "data", "stop"} /\ "hunt" # "stop" /\ "hunt" # "data"
      OBVIOUS
    <3> QED BY <1>3, <2>3, <3>1, <3>2, ShapeOf
  <2> QED BY <1>6, <2>2, <2>4 DEF out
<1> QED BY <1>1, <1>4, <1>5, <1>6

\* How many bits of a frame a deframer has heard.
Heard(d) == IF d.state = "hunt" THEN 0 ELSE Len(d.byte) + 1

\* A bit brings a deframer one further at most, and never so far that it has
\* heard a whole frame without completing it.
LEMMA BitIsHeard ==
  ASSUME NEW d, Shape(d), Len(d.out) < OutSize, NEW bit \in Bit
  PROVE  /\ Heard(d) \in 0..FrameBits - 1 /\ Heard(DeframerBit(d, bit)) \in 0..FrameBits - 1
         /\ \/ /\ DeframerBit(d, bit).out = d.out
               /\ Heard(DeframerBit(d, bit)) <= Heard(d) + 1
            \/ /\ Len(DeframerBit(d, bit).out) = Len(d.out) + 1
               /\ Heard(d) = FrameBits - 1 /\ Heard(DeframerBit(d, bit)) = 0
         /\ Heard(d) = 0 /\ bit = 1 => Heard(DeframerBit(d, bit)) = 0
<1> DEFINE e == DeframerBit(d, bit)
<1> HIDE DEF e
<1> SUFFICES /\ Heard(d) \in 0..FrameBits - 1 /\ Heard(e) \in 0..FrameBits - 1
             /\ \/ e.out = d.out /\ Heard(e) <= Heard(d) + 1
                \/ Len(e.out) = Len(d.out) + 1 /\ Heard(d) = FrameBits - 1 /\ Heard(e) = 0
             /\ Heard(d) = 0 /\ bit = 1 => Heard(e) = 0
  BY DEF e
<1>1. /\ d.state \in {"hunt", "data", "stop"} /\ d.byte \in Seq(Bit) /\ d.out \in Seq(Byte)
      /\ Len(d.byte) \in 0..DataBits /\ (d.state = "data" => Len(d.byte) < DataBits)
      /\ d.state = "stop" => d.byte \in Byte /\ Len(d.byte) = DataBits
  BY ShapeIs
<1>2. /\ Shape(e)
      /\ e.out = IF d.state = "stop" /\ bit = 1 THEN Append(d.out, d.byte) ELSE d.out
      /\ d.state = "hunt" => e.state = IF d.prev = 1 /\ bit = 0 THEN "data" ELSE "hunt"
      /\ d.state = "hunt" /\ d.prev = 1 /\ bit = 0 => e.byte = <<>>
      /\ d.state = "data" => e.byte = Append(d.byte, bit)
      /\ d.state = "data" => e.state = IF Len(d.byte) + 1 >= DataBits THEN "stop" ELSE "data"
      /\ d.state = "stop" => e.state = "hunt"
  BY BitDoes DEF e
<1>3. /\ Len(e.byte) \in 0..DataBits /\ (e.state = "data" => Len(e.byte) < DataBits)
      /\ (e.state = "stop" => Len(e.byte) = DataBits)
      /\ e.state \in {"hunt", "data", "stop"}
  BY <1>2, ShapeIs
<1>4. Len(<<>>) = 0
  OBVIOUS
<1>5. /\ Heard(d) = IF d.state = "hunt" THEN 0 ELSE Len(d.byte) + 1
      /\ Heard(e) = IF e.state = "hunt" THEN 0 ELSE Len(e.byte) + 1
      /\ Heard(d) \in 0..FrameBits - 1 /\ Heard(e) \in 0..FrameBits - 1
  BY <1>1, <1>3, Sizes DEF Heard
<1>6. CASE d.state = "hunt"
  <2>1. e.out = d.out /\ Heard(d) = 0
    BY <1>2, <1>5, <1>6
  <2>2. CASE d.prev = 1 /\ bit = 0
    <3>1. Len(e.byte) = 0
      BY <1>2, <1>4, <1>6, <2>2
    <3> QED BY <1>5, <2>1, <2>2, <3>1
  <2>3. CASE ~(d.prev = 1 /\ bit = 0)
    <3>1. Heard(e) = 0
      BY <1>2, <1>5, <1>6, <2>3
    <3> QED BY <1>5, <2>1, <3>1
  <2> QED BY <2>2, <2>3
<1>7. CASE d.state = "data"
  <2>1. Len(e.byte) = Len(d.byte) + 1
    BY <1>1, <1>2, <1>7
  <2>2. e.out = d.out /\ Heard(d) = Len(d.byte) + 1
    BY <1>2, <1>5, <1>7
  <2> QED BY <1>1, <1>5, <2>1, <2>2
<1>8. CASE d.state = "stop"
  <2>1. Len(Append(d.out, d.byte)) = Len(d.out) + 1
    BY <1>1, <1>8
  <2>2. Heard(d) = DataBits + 1 /\ Heard(e) = 0
    BY <1>1, <1>2, <1>5, <1>8
  <2>3. CASE bit = 1
    BY <1>2, <1>5, <1>8, <2>1, <2>2, <2>3, Sizes
  <2>4. CASE bit # 1
    BY <1>2, <1>5, <1>8, <2>2, <2>4, Sizes
  <2> QED BY <2>3, <2>4
<1> QED BY <1>1, <1>6, <1>7, <1>8

\* The deframer has heard the first r bits of the byte's frame.
At(d, byte, r) ==
    /\ r = 0 => Hunting(d)
    /\ r \in 1..DataBits => d.state = "data" /\ d.byte = SubSeq(byte, 1, r - 1)
    /\ r = DataBits + 1 => d.state = "stop" /\ d.byte = byte

\* The frame's next bit brings it to the next place, and the last one completes
\* the byte.
LEMMA AtNext ==
  ASSUME NEW d, Shape(d), Len(d.out) < OutSize, NEW byte \in Byte,
         NEW r \in 0..FrameBits - 1, At(d, byte, r), NEW bit, bit = Frame(byte)[r + 1]
  PROVE  /\ bit \in Bit
         /\ r < FrameBits - 1 => /\ At(DeframerBit(d, bit), byte, r + 1)
                                 /\ DeframerBit(d, bit).out = d.out
         /\ r = FrameBits - 1 => /\ Hunting(DeframerBit(d, bit))
                                 /\ DeframerBit(d, bit).out = Append(d.out, byte)
<1> DEFINE e == DeframerBit(d, bit)
<1>1. /\ byte \in Seq(Bit) /\ Len(byte) = DataBits
      /\ Frame(byte)[1] = 0 /\ Frame(byte)[FrameBits] = 1
      /\ \A k \in 1..DataBits : Frame(byte)[k + 1] = byte[k] /\ byte[k] \in Bit
  BY FrameIs
<1>2. bit \in Bit
  <2>1. CASE r = 0
    BY <1>1, <2>1 DEF Bit
  <2>2. CASE r \in 1..DataBits
    BY <1>1, <2>2
  <2>3. CASE r = FrameBits - 1
    <3>1. r + 1 = FrameBits
      BY <2>3, Sizes
    <3> QED BY <1>1, <3>1 DEF Bit
  <2> QED BY <2>1, <2>2, <2>3, Sizes
<1>3. /\ e.prev = bit
      /\ e.out = IF d.state = "stop" /\ bit = 1 THEN Append(d.out, d.byte) ELSE d.out
      /\ d.state = "hunt" => e.state = IF d.prev = 1 /\ bit = 0 THEN "data" ELSE "hunt"
      /\ d.state = "hunt" /\ d.prev = 1 /\ bit = 0 => e.byte = <<>>
      /\ d.state = "data" => e.byte = Append(d.byte, bit)
      /\ d.state = "data" => e.state = IF Len(d.byte) + 1 >= DataBits THEN "stop" ELSE "data"
      /\ d.state = "stop" => e.state = "hunt"
  BY <1>2, BitDoes
<1> HIDE DEF e
<1>4. CASE r = 0
  <2>1. d.state = "hunt" /\ d.prev = 1 /\ bit = 0
    BY <1>1, <1>4 DEF At, Hunting
  <2>2. e.state = "data" /\ e.byte = <<>> /\ e.out = d.out
    BY <1>3, <2>1
  <2>3. SubSeq(byte, 1, 1 - 1) = <<>>
    BY <1>1
  <2>4. At(e, byte, 0 + 1)
    BY <2>2, <2>3, Sizes DEF At
  <2> QED BY <1>2, <1>4, <2>2, <2>4, Sizes DEF e
<1>5. CASE r \in 1..DataBits
  <2>1. d.state = "data" /\ d.byte = SubSeq(byte, 1, r - 1) /\ bit = byte[r]
    BY <1>1, <1>5 DEF At
  <2>2. e.byte = Append(d.byte, bit) /\ e.out = d.out
        /\ e.state = IF Len(d.byte) + 1 >= DataBits THEN "stop" ELSE "data"
    BY <1>3, <2>1
  <2>3. Len(SubSeq(byte, 1, r - 1)) = r - 1 /\ Append(SubSeq(byte, 1, r - 1), byte[r]) = SubSeq(byte, 1, r)
    BY <1>1, <1>5
  <2>4. r = DataBits => SubSeq(byte, 1, r) = byte
    BY <1>1
  <2>5. r + 1 - 1 = r
    BY <1>5
  <2>6. At(e, byte, r + 1)
    BY <1>5, <2>1, <2>2, <2>3, <2>4, <2>5, Sizes DEF At
  <2> QED BY <1>2, <1>5, <2>2, <2>6, Sizes DEF e
<1>6. CASE r = FrameBits - 1
  <2>1. d.state = "stop" /\ d.byte = byte
    BY <1>6, Sizes DEF At
  <2>2. r + 1 = FrameBits
    BY <1>6, Sizes
  <2>3. bit = 1
    BY <1>1, <2>2
  <2>4. e.state = "hunt" /\ e.prev = 1 /\ e.out = Append(d.out, byte)
    BY <1>3, <2>1, <2>3
  <2> QED BY <1>2, <1>6, <2>4, Sizes DEF e, Hunting
<1> QED BY <1>4, <1>5, <1>6, Sizes

-----------------------------------------------------------------------------
(* The two recursive definitions.                                          *)

\* g is the deframer d before and after each of n bits.
Deframes(g, d, bits, n) ==
    g = [i \in 0..n |-> IF i = 0 THEN d ELSE DeframerBit(g[i - 1], bits[i])]

\* Its recursion has a solution.
LEMMA DeframesExist ==
  ASSUME NEW d, NEW bits, NEW N \in Nat
  PROVE  \E g : Deframes(g, d, bits, N)
<1> DEFINE T == {n \in Nat : \E g : Deframes(g, d, bits, n)}
<1>1. 0 \in T
  <2> DEFINE g == [i \in 0..0 |-> d]
  <2>1. Deframes(g, d, bits, 0)
    BY DEF Deframes
  <2> QED BY <2>1
<1>2. ASSUME NEW n \in 0..N - 1, n \in T
      PROVE  n + 1 \in T
  <2>1. PICK g : Deframes(g, d, bits, n)
    BY <1>2
  <2> DEFINE h == [i \in 0..n + 1 |-> IF i = 0 THEN d ELSE DeframerBit(g[i - 1], bits[i])]
             k == [i \in 0..n + 1 |-> IF i = 0 THEN d ELSE DeframerBit(h[i - 1], bits[i])]
  <2>2. \A i \in 0..n : h[i] = g[i]
    BY <2>1 DEF Deframes
  <2>3. ASSUME NEW i \in 0..n + 1
        PROVE  h[i] = k[i]
    <3>1. CASE i = 0
      BY <3>1
    <3>2. CASE i # 0
      <4>1. i - 1 \in 0..n
        BY <3>2
      <4>2. h[i - 1] = g[i - 1]
        BY <2>2, <4>1
      <4> QED BY <3>2, <4>2
    <3> QED BY <3>1, <3>2
  <2>4. h = k
    BY <2>3
  <2> HIDE DEF h
  <2>5. Deframes(h, d, bits, n + 1)
    BY <2>4 DEF Deframes
  <2> QED BY <2>5
<1> HIDE DEF T
<1>3. N \in T
  BY <1>1, <1>2, UpTo
<1> QED BY <1>3 DEF T

\* Deframe is where that solution ends.
LEMMA DeframeIs ==
  ASSUME NEW d, NEW bits, Len(bits) \in Nat
  PROVE  \E g : Deframes(g, d, bits, Len(bits)) /\ Deframe(d, bits) = g[Len(bits)]
<1> DEFINE f == CHOOSE g : g = [i \in 0..Len(bits) |->
                                  IF i = 0 THEN d ELSE DeframerBit(g[i - 1], bits[i])]
<1>1. Deframe(d, bits) = f[Len(bits)]
  BY DEF Deframe
<1>2. \E g : g = [i \in 0..Len(bits) |-> IF i = 0 THEN d ELSE DeframerBit(g[i - 1], bits[i])]
  <2>1. \E g : Deframes(g, d, bits, Len(bits))
    BY DeframesExist
  <2> QED BY <2>1 DEF Deframes
<1>3. f = [i \in 0..Len(bits) |-> IF i = 0 THEN d ELSE DeframerBit(f[i - 1], bits[i])]
  BY <1>2, Zenon
<1> HIDE DEF f
<1> QED BY <1>1, <1>3 DEF Deframes

\* g is the receiver r before and after each of n bits.
Hears(g, r, bits, n) ==
    g = [i \in 0..n |-> IF i = 0 THEN r ELSE Hear(g[i - 1], bits[i])]

\* Its recursion has a solution.
LEMMA HearsExist ==
  ASSUME NEW r, NEW bits, NEW N \in Nat
  PROVE  \E g : Hears(g, r, bits, N)
<1> DEFINE T == {n \in Nat : \E g : Hears(g, r, bits, n)}
<1>1. 0 \in T
  <2> DEFINE g == [i \in 0..0 |-> r]
  <2>1. Hears(g, r, bits, 0)
    BY DEF Hears
  <2> QED BY <2>1
<1>2. ASSUME NEW n \in 0..N - 1, n \in T
      PROVE  n + 1 \in T
  <2>1. PICK g : Hears(g, r, bits, n)
    BY <1>2
  <2> DEFINE h == [i \in 0..n + 1 |-> IF i = 0 THEN r ELSE Hear(g[i - 1], bits[i])]
             k == [i \in 0..n + 1 |-> IF i = 0 THEN r ELSE Hear(h[i - 1], bits[i])]
  <2>2. \A i \in 0..n : h[i] = g[i]
    BY <2>1 DEF Hears
  <2>3. ASSUME NEW i \in 0..n + 1
        PROVE  h[i] = k[i]
    <3>1. CASE i = 0
      BY <3>1
    <3>2. CASE i # 0
      <4>1. i - 1 \in 0..n
        BY <3>2
      <4>2. h[i - 1] = g[i - 1]
        BY <2>2, <4>1
      <4> QED BY <3>2, <4>2
    <3> QED BY <3>1, <3>2
  <2>4. h = k
    BY <2>3
  <2> HIDE DEF h
  <2>5. Hears(h, r, bits, n + 1)
    BY <2>4 DEF Hears
  <2> QED BY <2>5
<1> HIDE DEF T
<1>3. N \in T
  BY <1>1, <1>2, UpTo
<1> QED BY <1>3 DEF T

\* Listen is where that solution ends.
LEMMA ListenIs ==
  ASSUME NEW r, NEW bits, Len(bits) \in Nat
  PROVE  \E g : Hears(g, r, bits, Len(bits)) /\ Listen(r, bits) = g[Len(bits)]
<1> DEFINE f == CHOOSE g : g = [i \in 0..Len(bits) |->
                                  IF i = 0 THEN r ELSE Hear(g[i - 1], bits[i])]
<1>1. Listen(r, bits) = f[Len(bits)]
  BY DEF Listen
<1>2. \E g : g = [i \in 0..Len(bits) |-> IF i = 0 THEN r ELSE Hear(g[i - 1], bits[i])]
  <2>1. \E g : Hears(g, r, bits, Len(bits))
    BY HearsExist
  <2> QED BY <2>1 DEF Hears
<1>3. f = [i \in 0..Len(bits) |-> IF i = 0 THEN r ELSE Hear(f[i - 1], bits[i])]
  BY <1>2, Zenon
<1> HIDE DEF f
<1> QED BY <1>1, <1>3 DEF Hears

\* What is left of a byte's frame makes the deframer that has heard the rest
\* complete that byte and hunt for the next.
LEMMA RestOfFrame ==
  ASSUME NEW d, Shape(d), d.out = <<>>, NEW byte \in Byte, NEW bits \in Seq(Bit),
         Len(bits) \in 1..FrameBits, At(d, byte, FrameBits - Len(bits)),
         \A i \in 1..Len(bits) : bits[i] = Frame(byte)[FrameBits - Len(bits) + i]
  PROVE  Hunting(Deframe(d, bits)) /\ Deframe(d, bits).out = <<byte>>
<1> DEFINE n == Len(bits)
           at == FrameBits - n
<1>1. n \in Nat /\ n \in 1..FrameBits /\ at \in 0..FrameBits - 1
  BY Sizes
<1>2. PICK g : Deframes(g, d, bits, n) /\ Deframe(d, bits) = g[n]
  BY <1>1, DeframeIs
<1>3. g[0] = d /\ \A i \in 0..n - 1 : g[i + 1] = DeframerBit(g[i], bits[i + 1])
  <2>1. \A i \in 0..n : g[i] = IF i = 0 THEN d ELSE DeframerBit(g[i - 1], bits[i])
    BY <1>2, <1>1 DEF Deframes
  <2>2. ASSUME NEW i \in 0..n - 1
        PROVE  g[i + 1] = DeframerBit(g[i], bits[i + 1])
    <3>1. i + 1 \in 0..n /\ i + 1 # 0 /\ (i + 1) - 1 = i
      BY <1>1
    <3> QED BY <2>1, <3>1
  <2> QED BY <1>1, <2>1, <2>2
<1> DEFINE T == {i \in 0..n - 1 : Shape(g[i]) /\ g[i].out = <<>> /\ At(g[i], byte, at + i)}
<1>4. 0 \in T
  <2>1. at + 0 = at /\ 0 \in 0..n - 1
    BY <1>1
  <2> QED BY <1>3, <2>1
<1>5. Len(<<>>) = 0 /\ Append(<<>>, byte) = <<byte>>
  OBVIOUS
<1>6. ASSUME NEW i \in T
      PROVE  /\ Shape(g[i + 1])
             /\ i < n - 1 => g[i + 1].out = <<>> /\ At(g[i + 1], byte, at + (i + 1))
             /\ i = n - 1 => Hunting(g[i + 1]) /\ g[i + 1].out = <<byte>>
  <2>1. /\ i \in 0..n - 1 /\ Shape(g[i]) /\ g[i].out = <<>> /\ At(g[i], byte, at + i)
        /\ g[i + 1] = DeframerBit(g[i], bits[i + 1])
    BY <1>3
  <2>2. /\ at + i \in 0..FrameBits - 1 /\ i + 1 \in 1..n /\ Len(g[i].out) < OutSize
        /\ (at + i) + 1 = at + (i + 1) /\ (i < n - 1 <=> at + i < FrameBits - 1)
    BY <1>1, <1>5, <2>1, Sizes
  <2>3. bits[i + 1] = Frame(byte)[(at + i) + 1]
    <3>1. bits[i + 1] = Frame(byte)[FrameBits - Len(bits) + (i + 1)]
      BY <2>2
    <3>2. FrameBits - Len(bits) + (i + 1) = (at + i) + 1
      BY <1>1, <2>1, Sizes
    <3> QED BY <3>1, <3>2
  <2> HIDE DEF n, at, T
  <2> DEFINE b == bits[i + 1]
             r == at + i
             e == g[i]
  <2>4. /\ b \in Bit
        /\ r < FrameBits - 1 => At(DeframerBit(e, b), byte, r + 1) /\ DeframerBit(e, b).out = e.out
        /\ r = FrameBits - 1 => /\ Hunting(DeframerBit(e, b))
                                /\ DeframerBit(e, b).out = Append(e.out, byte)
    <3>1. Shape(e) /\ Len(e.out) < OutSize /\ r \in 0..FrameBits - 1 /\ At(e, byte, r)
          /\ b = Frame(byte)[r + 1]
      BY <2>1, <2>2, <2>3
    <3> HIDE DEF b, r, e
    <3> QED BY <3>1, AtNext
  <2>5. Shape(DeframerBit(e, b))
    <3>1. Shape(e) /\ Len(e.out) < OutSize
      BY <2>1, <2>2
    <3> HIDE DEF b, r, e
    <3> QED BY <2>4, <3>1, BitDoes
  <2>6. i < n - 1 => g[i + 1].out = <<>> /\ At(g[i + 1], byte, at + (i + 1))
    <3> SUFFICES ASSUME i < n - 1
                 PROVE  g[i + 1].out = <<>> /\ At(g[i + 1], byte, at + (i + 1))
      OBVIOUS
    <3>1. r < FrameBits - 1 /\ r + 1 = at + (i + 1)
      BY <2>2
    <3>2. At(DeframerBit(e, b), byte, r + 1) /\ DeframerBit(e, b).out = e.out
      BY <2>4, <3>1
    <3> QED BY <2>1, <3>1, <3>2
  <2>7. i = n - 1 => r = FrameBits - 1
    BY <1>1, Sizes DEF at, n
  <2>8. i = n - 1 => Hunting(g[i + 1]) /\ g[i + 1].out = <<byte>>
    BY <1>5, <2>1, <2>4, <2>7
  <2> QED BY <2>1, <2>5, <2>6, <2>8
<1>7. 0..n - 1 \subseteq T
  <2>1. \A i \in 0..(n - 1) - 1 : i \in T => i + 1 \in T
    <3> TAKE i \in 0..(n - 1) - 1
    <3>1. i + 1 \in 0..n - 1 /\ i < n - 1
      BY <1>1
    <3> HIDE DEF n, at
    <3> QED BY <1>6, <3>1
  <2>2. n - 1 \in Nat
    BY <1>1
  <2> HIDE DEF n, at, T
  <2> QED BY <1>4, <2>1, <2>2, UpTo
<1>8. n - 1 \in T /\ (n - 1) + 1 = n
  BY <1>1, <1>7
<1> HIDE DEF n, at, T
<1> QED BY <1>2, <1>6, <1>8

-----------------------------------------------------------------------------
(* The far end's receiver.                                                 *)

\* A receiver between two bits: it has handed on whatever it completed.
FarShape(f) ==
    /\ f = [d |-> f.d, got |-> f.got]
    /\ Shape(f.d) /\ f.d.out = <<>> /\ f.got \in Seq(Byte)

\* Emptying the output changes nothing else of a deframer.
LEMMA Emptied ==
  ASSUME NEW d, Shape(d)
  PROVE  /\ Shape([d EXCEPT !.out = <<>>]) /\ [d EXCEPT !.out = <<>>].out = <<>>
         /\ [d EXCEPT !.out = <<>>].state = d.state /\ [d EXCEPT !.out = <<>>].byte = d.byte
         /\ [d EXCEPT !.out = <<>>].prev = d.prev
         /\ Heard([d EXCEPT !.out = <<>>]) = Heard(d)
         /\ \A byte, r : At([d EXCEPT !.out = <<>>], byte, r) <=> At(d, byte, r)
<1> DEFINE e == [d EXCEPT !.out = <<>>]
<1>1. /\ d = [state |-> d.state, byte |-> d.byte, prev |-> d.prev, out |-> d.out]
      /\ d.state \in {"hunt", "data", "stop"} /\ d.prev \in Bit
      /\ d.byte \in Seq(Bit) /\ Len(d.byte) \in 0..DataBits
      /\ d.state = "data" => Len(d.byte) < DataBits
      /\ d.state = "stop" => d.byte \in Byte /\ Len(d.byte) = DataBits
  BY ShapeIs
<1>2. e = [state |-> d.state, byte |-> d.byte, prev |-> d.prev, out |-> <<>>]
  BY <1>1
<1>3. <<>> \in Seq(Byte) /\ Len(<<>>) <= OutSize /\ Len(d.byte) <= DataBits
  BY <1>1, Sizes
<1>4. Shape([state |-> d.state, byte |-> d.byte, prev |-> d.prev, out |-> <<>>])
  BY <1>1, <1>3, ShapeOf
<1>5. e.out = <<>> /\ e.state = d.state /\ e.byte = d.byte /\ e.prev = d.prev
  BY <1>2
<1> HIDE DEF e
<1>6. Heard(e) = Heard(d)
  BY <1>5 DEF Heard
<1>7. \A byte, r : At(e, byte, r) <=> At(d, byte, r)
  BY <1>5 DEF At, Hunting
<1> QED BY <1>2, <1>4, <1>5, <1>6, <1>7 DEF e

\* A bit does to a receiver what it does to its deframer.
LEMMA HearDoes ==
  ASSUME NEW f, FarShape(f), NEW bit \in Bit
  PROVE  /\ FarShape(Hear(f, bit))
         /\ Hear(f, bit).got = f.got \o DeframerBit(f.d, bit).out
         /\ Heard(Hear(f, bit).d) = Heard(DeframerBit(f.d, bit))
         /\ \A byte, r : At(Hear(f, bit).d, byte, r) <=> At(DeframerBit(f.d, bit), byte, r)
<1> DEFINE e == DeframerBit(f.d, bit)
<1>1. Shape(f.d) /\ f.d.out = <<>> /\ f.got \in Seq(Byte) /\ Len(f.d.out) < OutSize
  BY Sizes DEF FarShape
<1>2. Shape(e) /\ e.out \in Seq(Byte)
  BY <1>1, BitDoes, ShapeIs
<1> DEFINE x == [e EXCEPT !.out = <<>>]
           y == f.got \o e.out
<1>3. Hear(f, bit) = [d |-> x, got |-> y]
  BY DEF Hear
<1> HIDE DEF e, x, y
<1>4. Hear(f, bit).d = x /\ Hear(f, bit).got = y
  BY <1>3
<1>5. y \in Seq(Byte)
  BY <1>1, <1>2, Joined DEF y
<1>6. /\ Shape(x) /\ x.out = <<>> /\ Heard(x) = Heard(e)
      /\ \A byte, r : At(x, byte, r) <=> At(e, byte, r)
  BY <1>2, Emptied DEF x
<1>7. FarShape(Hear(f, bit))
  BY <1>3, <1>4, <1>5, <1>6 DEF FarShape
<1> QED BY <1>4, <1>6, <1>7 DEF e, y

\* The receiver has made of the first p bits of some bytes' frames what they are:
\* the whole bytes, and the beginning of the next.
FarHas(f, bytes, p) ==
    \E m \in 0..Len(bytes), r \in 0..FrameBits - 1 :
        /\ p = FrameBits * m + r /\ (m = Len(bytes) => r = 0)
        /\ f.got = SubSeq(bytes, 1, m)
        /\ At(f.d, bytes[m + 1], r)

\* The next bit of the frames brings it to the next place.
LEMMA FarNext ==
  ASSUME NEW f, FarShape(f), NEW bytes \in Seq(Byte), NEW p \in 0..FrameBits * Len(bytes) - 1,
         FarHas(f, bytes, p), NEW bit, bit = Frames(bytes)[p + 1]
  PROVE  bit \in Bit /\ FarShape(Hear(f, bit)) /\ FarHas(Hear(f, bit), bytes, p + 1)
<1>1. PICK m \in 0..Len(bytes), r \in 0..FrameBits - 1 :
        /\ p = FrameBits * m + r /\ (m = Len(bytes) => r = 0)
        /\ f.got = SubSeq(bytes, 1, m) /\ At(f.d, bytes[m + 1], r)
  BY DEF FarHas
<1>2. FrameBits * Len(bytes) \in Nat
  BY FramesAre
<1>3. m < Len(bytes)
  <2>1. CASE m = Len(bytes)
    BY <1>1, <1>2, <2>1
  <2> QED BY <2>1
<1> DEFINE byte == bytes[m + 1]
<1>4. byte \in Byte /\ m \in 0..Len(bytes) - 1 /\ m + 1 \in 0..Len(bytes)
  BY <1>3
<1>5. bit = Frame(byte)[r + 1]
  BY <1>1, <1>4, FramesAre
<1>6. Shape(f.d) /\ Len(f.d.out) < OutSize /\ f.d.out = <<>> /\ f.got \in Seq(Byte)
  BY Sizes DEF FarShape
<1> HIDE DEF byte
<1>7. /\ bit \in Bit
      /\ r < FrameBits - 1 => /\ At(DeframerBit(f.d, bit), byte, r + 1)
                              /\ DeframerBit(f.d, bit).out = f.d.out
      /\ r = FrameBits - 1 => /\ Hunting(DeframerBit(f.d, bit))
                              /\ DeframerBit(f.d, bit).out = Append(f.d.out, byte)
  <2> DEFINE d == f.d
  <2>1. Shape(d) /\ Len(d.out) < OutSize
    BY <1>6
  <2>2. byte \in Byte /\ bit = Frame(byte)[r + 1]
    BY <1>4, <1>5
  <2>3. At(d, byte, r)
    BY <1>1 DEF byte
  <2> HIDE DEF d
  <2>4. /\ bit \in Bit
        /\ r < FrameBits - 1 => /\ At(DeframerBit(d, bit), byte, r + 1)
                                /\ DeframerBit(d, bit).out = d.out
        /\ r = FrameBits - 1 => /\ Hunting(DeframerBit(d, bit))
                                /\ DeframerBit(d, bit).out = Append(d.out, byte)
    BY <2>1, <2>2, <2>3, AtNext
  <2> QED BY <2>4 DEF d
<1>8. /\ FarShape(Hear(f, bit))
      /\ Hear(f, bit).got = f.got \o DeframerBit(f.d, bit).out
      /\ \A b, k : At(Hear(f, bit).d, b, k) <=> At(DeframerBit(f.d, bit), b, k)
  BY <1>7, HearDoes
<1>9. CASE r < FrameBits - 1
  <2>1. Hear(f, bit).got = SubSeq(bytes, 1, m)
    <3>1. DeframerBit(f.d, bit).out = <<>>
      BY <1>6, <1>7, <1>9
    <3>2. f.got \o <<>> = f.got
      BY <1>6
    <3>3. Hear(f, bit).got = f.got
      BY <1>8, <3>1, <3>2
    <3> QED BY <1>1, <3>3
  <2>2. At(Hear(f, bit).d, byte, r + 1)
    BY <1>7, <1>8, <1>9
  <2>3. r + 1 \in 0..FrameBits - 1 /\ p + 1 = FrameBits * m + (r + 1)
    BY <1>1, <1>9, <1>2, Sizes
  <2>4. m # Len(bytes)
    BY <1>3
  <2>5. FarHas(Hear(f, bit), bytes, p + 1)
    BY <2>1, <2>2, <2>3, <2>4 DEF FarHas, byte
  <2> QED BY <1>7, <1>8, <2>5
<1>10. CASE r = FrameBits - 1
  <2>1. Hear(f, bit).got = SubSeq(bytes, 1, m + 1)
    <3>1. DeframerBit(f.d, bit).out = <<byte>>
      BY <1>6, <1>7, <1>10
    <3>2. SubSeq(bytes, 1, m) \o <<bytes[m + 1]>> = SubSeq(bytes, 1, m + 1)
      BY <1>4
    <3> QED BY <1>1, <1>8, <3>1, <3>2 DEF byte
  <2>2. At(Hear(f, bit).d, bytes[(m + 1) + 1], 0)
    <3>1. At(DeframerBit(f.d, bit), bytes[(m + 1) + 1], 0)
      BY <1>7, <1>10, Sizes DEF At
    <3> QED BY <1>8, <3>1
  <2>3. 0 \in 0..FrameBits - 1 /\ p + 1 = FrameBits * (m + 1) + 0
    BY <1>1, <1>10, Sizes
  <2> QED BY <1>4, <1>7, <1>8, <2>1, <2>2, <2>3 DEF FarHas
<1> QED BY <1>9, <1>10, Sizes

\* An idle line behind the last frame leaves it there.
LEMMA FarIdles ==
  ASSUME NEW f, FarShape(f), NEW bytes \in Seq(Byte), FarHas(f, bytes, FrameBits * Len(bytes))
  PROVE  /\ f.got = bytes
         /\ FarShape(Hear(f, 1)) /\ FarHas(Hear(f, 1), bytes, FrameBits * Len(bytes))
<1>1. PICK m \in 0..Len(bytes), r \in 0..FrameBits - 1 :
        /\ FrameBits * Len(bytes) = FrameBits * m + r /\ (m = Len(bytes) => r = 0)
        /\ f.got = SubSeq(bytes, 1, m) /\ At(f.d, bytes[m + 1], r)
  BY DEF FarHas
<1>2. m = Len(bytes) /\ r = 0
  <2>1. CASE m < Len(bytes)
    <3>1. FrameBits * (m + 1) <= FrameBits * Len(bytes) /\ FrameBits * (m + 1) = FrameBits * m + FrameBits
          /\ FrameBits * m \in Nat
      BY <2>1, Sizes
    <3> QED BY <1>1, <3>1, Sizes
  <2> QED BY <1>1, <2>1
<1>3. f.got = bytes
  BY <1>1, <1>2
<1>4. Shape(f.d) /\ Len(f.d.out) < OutSize /\ f.d.out = <<>> /\ f.got \in Seq(Byte)
  BY Sizes DEF FarShape
<1>5. f.d.state = "hunt" /\ f.d.prev = 1
  BY <1>1, <1>2 DEF At, Hunting
<1>6. 1 \in Bit
  BY DEF Bit
<1>7. DeframerBit(f.d, 1).state = "hunt" /\ DeframerBit(f.d, 1).prev = 1
      /\ DeframerBit(f.d, 1).out = <<>>
  BY <1>4, <1>5, <1>6, BitDoes
<1>8. /\ FarShape(Hear(f, 1)) /\ Hear(f, 1).got = f.got \o <<>>
      /\ \A b, k : At(Hear(f, 1).d, b, k) <=> At(DeframerBit(f.d, 1), b, k)
  BY <1>6, <1>7, HearDoes
<1>9. At(DeframerBit(f.d, 1), bytes[m + 1], 0)
  BY <1>7, Sizes DEF At, Hunting
<1>10. Hear(f, 1).got = SubSeq(bytes, 1, m)
  BY <1>1, <1>4, <1>8
<1> QED BY <1>1, <1>2, <1>3, <1>8, <1>9, <1>10 DEF FarHas

\* Bytes framed behind the others change nothing of what it has made.
LEMMA FarMore ==
  ASSUME NEW f, NEW bytes \in Seq(Byte), NEW more \in Seq(Byte), NEW p, FarHas(f, bytes, p)
  PROVE  FarHas(f, bytes \o more, p)
<1>1. PICK m \in 0..Len(bytes), r \in 0..FrameBits - 1 :
        /\ p = FrameBits * m + r /\ (m = Len(bytes) => r = 0)
        /\ f.got = SubSeq(bytes, 1, m) /\ At(f.d, bytes[m + 1], r)
  BY DEF FarHas
<1>2. /\ Len(bytes \o more) = Len(bytes) + Len(more) /\ Len(more) \in Nat
      /\ \A i \in 1..Len(bytes) : (bytes \o more)[i] = bytes[i]
  BY Joined
<1>3. SubSeq(bytes \o more, 1, m) = SubSeq(bytes, 1, m)
  BY <1>1
<1>4. At(f.d, (bytes \o more)[m + 1], r)
  <2>1. CASE r = 0
    BY <1>1, <2>1, Sizes DEF At
  <2>2. CASE r # 0
    <3>1. m + 1 \in 1..Len(bytes)
      BY <1>1, <2>2
    <3> QED BY <1>1, <1>2, <3>1
  <2> QED BY <2>1, <2>2
<1>5. m \in 0..Len(bytes \o more) /\ (m = Len(bytes \o more) => r = 0)
  BY <1>1, <1>2
<1> QED BY <1>1, <1>3, <1>4, <1>5 DEF FarHas

\* The rest of the frames makes the receiver's bytes complete.
LEMMA RestIsHeard ==
  ASSUME NEW f, FarShape(f), NEW bytes \in Seq(Byte), NEW p \in 0..FrameBits * Len(bytes),
         FarHas(f, bytes, p), NEW bits \in Seq(Bit), Len(bits) = FrameBits * Len(bytes) - p,
         \A i \in 1..Len(bits) : bits[i] = Frames(bytes)[p + i]
  PROVE  Listen(f, bits).got = bytes
<1> DEFINE n == Len(bits)
           N == FrameBits * Len(bytes)
<1>1. n \in Nat /\ N \in Nat /\ p \in 0..N /\ n = N - p
  BY FramesAre
<1>2. PICK g : Hears(g, f, bits, n) /\ Listen(f, bits) = g[n]
  BY <1>1, ListenIs
<1>3. g[0] = f /\ \A i \in 0..n - 1 : g[i + 1] = Hear(g[i], bits[i + 1])
  <2>1. \A i \in 0..n : g[i] = IF i = 0 THEN f ELSE Hear(g[i - 1], bits[i])
    BY <1>2, <1>1 DEF Hears
  <2>2. ASSUME NEW i \in 0..n - 1
        PROVE  g[i + 1] = Hear(g[i], bits[i + 1])
    <3>1. i + 1 \in 0..n /\ i + 1 # 0 /\ (i + 1) - 1 = i
      BY <1>1
    <3> QED BY <2>1, <3>1
  <2> QED BY <1>1, <2>1, <2>2
<1> DEFINE T == {i \in 0..n : FarShape(g[i]) /\ FarHas(g[i], bytes, p + i)}
<1>4. 0 \in T
  <2>1. p + 0 = p /\ 0 \in 0..n
    BY <1>1
  <2> QED BY <1>3, <2>1
<1>5. ASSUME NEW i \in 0..n - 1, i \in T
      PROVE  i + 1 \in T
  <2>1. /\ FarShape(g[i]) /\ FarHas(g[i], bytes, p + i) /\ g[i + 1] = Hear(g[i], bits[i + 1])
    BY <1>3, <1>5
  <2>2. p + i \in 0..N - 1 /\ i + 1 \in 1..n /\ (p + i) + 1 = p + (i + 1) /\ i + 1 \in 0..n
    BY <1>1
  <2>3. bits[i + 1] = Frames(bytes)[(p + i) + 1]
    BY <2>2
  <2> DEFINE b == bits[i + 1]
             k == p + i
             e == g[i]
  <2>4. FarShape(Hear(e, b)) /\ FarHas(Hear(e, b), bytes, k + 1)
    <3>1. FarShape(e) /\ k \in 0..FrameBits * Len(bytes) - 1 /\ FarHas(e, bytes, k)
          /\ b = Frames(bytes)[k + 1]
      BY <2>1, <2>2, <2>3
    <3> HIDE DEF b, k, e
    <3> QED BY <3>1, FarNext
  <2> QED BY <2>1, <2>2, <2>4
<1>6. n \in T
  <2> HIDE DEF n, T
  <2>1. 0..n \subseteq T
    BY <1>1, <1>4, <1>5, UpTo
  <2> QED BY <1>1, <2>1
<1>7. FarShape(g[n]) /\ FarHas(g[n], bytes, FrameBits * Len(bytes))
  <2>1. p + n = FrameBits * Len(bytes)
    BY <1>1
  <2> QED BY <1>6, <2>1
<1> QED BY <1>2, <1>7, FarIdles

-----------------------------------------------------------------------------
(* What is left of a sequence.                                             *)

\* g has how much of s is met by the first i elements of t, for i up to n.
Meets(g, s, t, n) ==
    g = [i \in 0..n |-> IF i = 0 THEN 0
                        ELSE LET m == g[i - 1] IN
                             IF m < Len(s) /\ s[m + 1] = t[i] THEN m + 1 ELSE m]

\* Its recursion has a solution.
LEMMA MeetsExist ==
  ASSUME NEW s, NEW t, NEW N \in Nat
  PROVE  \E g : Meets(g, s, t, N)
<1> DEFINE More(m, i) == IF m < Len(s) /\ s[m + 1] = t[i] THEN m + 1 ELSE m
           T == {n \in Nat : \E g : g = [i \in 0..n |-> IF i = 0 THEN 0 ELSE More(g[i - 1], i)]}
<1> HIDE DEF More
<1>1. 0 \in T
  <2> DEFINE g == [i \in 0..0 |-> 0]
  <2>1. g = [i \in 0..0 |-> IF i = 0 THEN 0 ELSE More(g[i - 1], i)]
    OBVIOUS
  <2> QED BY <2>1
<1>2. ASSUME NEW n \in 0..N - 1, n \in T
      PROVE  n + 1 \in T
  <2>1. PICK g : g = [i \in 0..n |-> IF i = 0 THEN 0 ELSE More(g[i - 1], i)]
    BY <1>2
  <2> DEFINE h == [i \in 0..n + 1 |-> IF i = 0 THEN 0 ELSE More(g[i - 1], i)]
             k == [i \in 0..n + 1 |-> IF i = 0 THEN 0 ELSE More(h[i - 1], i)]
  <2>2. \A i \in 0..n : h[i] = g[i]
    BY <2>1
  <2>3. ASSUME NEW i \in 0..n + 1
        PROVE  h[i] = k[i]
    <3>1. CASE i = 0
      BY <3>1
    <3>2. CASE i # 0
      <4>1. i - 1 \in 0..n
        BY <3>2
      <4>2. h[i - 1] = g[i - 1]
        BY <2>2, <4>1
      <4> QED BY <3>2, <4>2
    <3> QED BY <3>1, <3>2
  <2>4. h = k
    BY <2>3
  <2> HIDE DEF h
  <2> QED BY <2>4
<1> HIDE DEF T
<1>3. N \in T
  BY <1>1, <1>2, UpTo
<1> QED BY <1>3 DEF T, More, Meets

\* IsSubsequence asks for all of s at the end of that solution.
LEMMA SubsequenceIs ==
  ASSUME NEW s, NEW t, Len(t) \in Nat
  PROVE  \E g : Meets(g, s, t, Len(t)) /\ IsSubsequence(s, t) = (g[Len(t)] = Len(s))
<1> DEFINE f == CHOOSE g : g = [i \in 0..Len(t) |->
                     IF i = 0 THEN 0
                     ELSE LET m == g[i - 1] IN
                          IF m < Len(s) /\ s[m + 1] = t[i] THEN m + 1 ELSE m]
<1>1. IsSubsequence(s, t) = (f[Len(t)] = Len(s))
  BY DEF IsSubsequence
<1>2. \E g : g = [i \in 0..Len(t) |->
                     IF i = 0 THEN 0
                     ELSE LET m == g[i - 1] IN
                          IF m < Len(s) /\ s[m + 1] = t[i] THEN m + 1 ELSE m]
  <2>1. \E g : Meets(g, s, t, Len(t))
    BY MeetsExist
  <2> QED BY <2>1 DEF Meets
<1>3. f = [i \in 0..Len(t) |->
                     IF i = 0 THEN 0
                     ELSE LET m == f[i - 1] IN
                          IF m < Len(s) /\ s[m + 1] = t[i] THEN m + 1 ELSE m]
  BY <1>2, Zenon
<1> HIDE DEF f
<1> QED BY <1>1, <1>3 DEF Meets

\* e has a place in t for each element of s, in the same order.
Embeds(e, s, t) ==
    /\ e \in [1..Len(s) -> 1..Len(t)]
    /\ \A i \in 1..Len(s) : s[i] = t[e[i]]
    /\ \A i, j \in 1..Len(s) : i < j => e[i] < e[j]

\* A sequence with places in another is what is left of it.
LEMMA EmbedsIs ==
  ASSUME NEW S, NEW s \in Seq(S), NEW t \in Seq(S), NEW e, Embeds(e, s, t)
  PROVE  IsSubsequence(s, t)
<1> DEFINE n == Len(t)  k == Len(s)
<1>1. n \in Nat /\ k \in Nat
  OBVIOUS
<1>2. PICK g : Meets(g, s, t, n) /\ IsSubsequence(s, t) = (g[n] = k)
  BY <1>1, SubsequenceIs
<1>3. /\ g[0] = 0
      /\ \A i \in 0..n - 1 : g[i + 1] = IF g[i] < k /\ s[g[i] + 1] = t[i + 1] THEN g[i] + 1 ELSE g[i]
  <2>1. \A i \in 0..n : g[i] = IF i = 0 THEN 0
                               ELSE IF g[i - 1] < k /\ s[g[i - 1] + 1] = t[i]
                                    THEN g[i - 1] + 1 ELSE g[i - 1]
    BY <1>2, <1>1 DEF Meets
  <2>2. ASSUME NEW i \in 0..n - 1
        PROVE  g[i + 1] = IF g[i] < k /\ s[g[i] + 1] = t[i + 1] THEN g[i] + 1 ELSE g[i]
    <3>1. i + 1 \in 0..n /\ i + 1 # 0 /\ (i + 1) - 1 = i
      BY <1>1
    <3> HIDE DEF n, k
    <3> QED BY <2>1, <3>1
  <2> HIDE DEF n, k
  <2> QED BY <1>1, <2>1, <2>2
<1>4. /\ \A i \in 1..k : e[i] \in 1..n /\ s[i] = t[e[i]]
      /\ \A i, j \in 1..k : i < j => e[i] < e[j]
  BY DEF Embeds
<1> HIDE DEF n, k
<1> DEFINE T == {i \in 0..n : g[i] \in 0..k /\ \A j \in 1..k : e[j] <= i => j <= g[i]}
<1>5. 0 \in T
  BY <1>1, <1>3, <1>4
<1>6. ASSUME NEW i \in 0..n - 1, i \in T
      PROVE  i + 1 \in T
  <2>1. g[i] \in 0..k /\ \A j \in 1..k : e[j] <= i => j <= g[i]
    BY <1>6
  <2>2. g[i + 1] = IF g[i] < k /\ s[g[i] + 1] = t[i + 1] THEN g[i] + 1 ELSE g[i]
    BY <1>3
  <2>3. g[i + 1] \in 0..k /\ g[i + 1] >= g[i]
    BY <1>1, <2>1, <2>2
  <2>4. ASSUME NEW j \in 1..k, e[j] <= i + 1
        PROVE  j <= g[i + 1]
    <3>1. e[j] \in 1..n /\ s[j] = t[e[j]]
      BY <1>4
    <3>2. CASE e[j] <= i
      BY <1>1, <2>1, <2>3, <3>2
    <3>3. CASE e[j] = i + 1
      <4>1. j - 1 <= g[i]
        <5>1. CASE j = 1
          BY <2>1, <5>1
        <5>2. CASE j # 1
          <6>1. j - 1 \in 1..k /\ j - 1 < j
            BY <1>1, <5>2
          <6>2. e[j - 1] < e[j] /\ e[j - 1] \in 1..n
            BY <1>4, <6>1
          <6>3. e[j - 1] <= i
            BY <1>1, <3>3, <6>2
          <6> QED BY <2>1, <6>1, <6>3
        <5> QED BY <5>1, <5>2
      <4>2. CASE j <= g[i]
        BY <1>1, <2>1, <2>3, <4>2
      <4>3. CASE j - 1 = g[i]
        <5>1. g[i] + 1 = j /\ g[i] < k
          BY <1>1, <2>1, <4>3
        <5>2. s[g[i] + 1] = t[i + 1]
          BY <3>1, <3>3, <5>1
        <5> QED BY <2>2, <5>1, <5>2
      <4> QED BY <1>1, <2>1, <4>1, <4>2, <4>3
    <3> QED BY <1>1, <2>4, <3>1, <3>2, <3>3
  <2>5. i + 1 \in 0..n
    BY <1>1
  <2> QED BY <2>3, <2>4, <2>5
<1>7. n \in T
  <2> HIDE DEF T
  <2>1. 0..n \subseteq T
    BY <1>1, <1>5, <1>6, UpTo
  <2> QED BY <1>1, <2>1
<1>8. g[n] = k
  <2>1. g[n] \in 0..k /\ \A j \in 1..k : e[j] <= n => j <= g[n]
    BY <1>7
  <2>2. CASE k = 0
    BY <2>1, <2>2
  <2>3. CASE k # 0
    <3>1. k \in 1..k
      BY <1>1, <2>3
    <3>2. e[k] \in 1..n
      BY <1>4, <3>1
    <3>3. e[k] <= n
      BY <1>1, <3>2
    <3>4. k <= g[n]
      BY <2>1, <3>1, <3>3
    <3> QED BY <1>1, <2>1, <3>4
  <2> QED BY <2>2, <2>3
<1> QED BY <1>2, <1>8

\* An element added to both keeps the places.
LEMMA EmbedsBoth ==
  ASSUME NEW S, NEW s \in Seq(S), NEW t \in Seq(S), NEW x \in S,
         \E e : Embeds(e, s, t)
  PROVE  \E e : Embeds(e, Append(s, x), Append(t, x))
<1> DEFINE n == Len(s)  k == Len(t)  s2 == Append(s, x)  t2 == Append(t, x)
<1>1. PICK e : Embeds(e, s, t)
  OBVIOUS
<1>2. /\ n \in Nat /\ k \in Nat /\ Len(s2) = n + 1 /\ Len(t2) = k + 1
      /\ \A i \in 1..n : s2[i] = s[i]
      /\ \A i \in 1..k : t2[i] = t[i]
      /\ s2[n + 1] = x /\ t2[k + 1] = x
  OBVIOUS
<1>3. /\ \A i \in 1..n : e[i] \in 1..k /\ s[i] = t[e[i]]
      /\ \A i, j \in 1..n : i < j => e[i] < e[j]
  BY <1>1 DEF Embeds
<1> HIDE DEF n, k, s2, t2
<1> DEFINE f == [i \in 1..n + 1 |-> IF i = n + 1 THEN k + 1 ELSE e[i]]
<1>4. /\ f[n + 1] = k + 1
      /\ \A i \in 1..n : f[i] = e[i]
  BY <1>2
<1>5. \A i \in 1..n + 1 : f[i] \in 1..k + 1
  BY <1>2, <1>3
<1>6. f \in [1..n + 1 -> 1..k + 1]
  BY <1>5
<1> HIDE DEF f
<1>7. ASSUME NEW i \in 1..n + 1
      PROVE  s2[i] = t2[f[i]]
  <2>1. CASE i = n + 1
    BY <1>2, <1>4, <2>1
  <2>2. CASE i # n + 1
    <3>1. i \in 1..n
      BY <1>2, <2>2
    <3>2. s2[i] = s[i] /\ f[i] = e[i]
      BY <1>2, <1>4, <3>1
    <3>3. e[i] \in 1..k /\ s[i] = t[e[i]]
      BY <1>3, <3>1
    <3>4. t2[e[i]] = t[e[i]]
      BY <1>2, <3>3
    <3> QED BY <3>2, <3>3, <3>4
  <2> QED BY <2>1, <2>2
<1>8. ASSUME NEW i \in 1..n + 1, NEW j \in 1..n + 1, i < j
      PROVE  f[i] < f[j]
  <2>1. i \in 1..n
    BY <1>2, <1>8
  <2>2. CASE j = n + 1
    BY <1>2, <1>3, <1>4, <2>1, <2>2
  <2>3. CASE j # n + 1
    <3>1. j \in 1..n
      BY <1>2, <2>3
    <3> QED BY <1>3, <1>4, <1>8, <2>1, <3>1
  <2> QED BY <2>2, <2>3
<1>9. Embeds(f, s2, t2)
  BY <1>2, <1>6, <1>7, <1>8 DEF Embeds
<1> QED BY <1>9 DEF s2, t2

\* Elements dropped from the middle leave the others' places.
LEMMA EmbedsDrop ==
  ASSUME NEW S, NEW a \in Seq(S), NEW b \in Seq(S), NEW c \in Seq(S), NEW t \in Seq(S),
         \E e : Embeds(e, a \o b \o c, t)
  PROVE  \E e : Embeds(e, a \o c, t)
<1> DEFINE n == Len(a)  d == Len(b)  m == Len(c)  k == Len(t)
           s == a \o b \o c  r == a \o c
<1>1. PICK e : Embeds(e, s, t)
  OBVIOUS
<1>2. /\ n \in Nat /\ d \in Nat /\ m \in Nat /\ k \in Nat
      /\ Len(s) = n + d + m /\ Len(r) = n + m
  OBVIOUS
<1>3. /\ \A i \in 1..n : s[i] = a[i] /\ r[i] = a[i]
      /\ \A i \in 1..m : r[n + i] = c[i]
      /\ \A i \in 1..m : s[n + d + i] = c[i]
  <2> DEFINE ab == a \o b
  <2>1. ab \in Seq(S) /\ Len(ab) = n + d /\ \A i \in 1..n : ab[i] = a[i]
    BY Joined
  <2>2. \A i \in 1..n + d : (ab \o c)[i] = ab[i]
    <3> HIDE DEF ab
    <3> QED BY <2>1, Joined
  <2>3. \A i \in 1..m : (ab \o c)[n + d + i] = c[i]
    <3> HIDE DEF ab
    <3> QED BY <2>1, Joined
  <2>4. \A i \in 1..n : r[i] = a[i]
    BY Joined
  <2>5. \A i \in 1..m : r[n + i] = c[i]
    BY Joined
  <2>6. \A i \in 1..n : i \in 1..n + d
    BY <1>2
  <2> QED BY <2>1, <2>2, <2>3, <2>4, <2>5, <2>6
<1>4. /\ \A i \in 1..n + d + m : e[i] \in 1..k /\ s[i] = t[e[i]]
      /\ \A i, j \in 1..n + d + m : i < j => e[i] < e[j]
  <2>1. Len(s) = n + d + m
    BY <1>2
  <2> HIDE DEF n, d, m, k, s
  <2> QED BY <1>1, <2>1 DEF Embeds, k
<1> HIDE DEF n, d, m, k, s, r
<1> DEFINE At2(i) == IF i <= n THEN i ELSE i + d
           f == [i \in 1..n + m |-> e[At2(i)]]
<1>5. \A i \in 1..n + m : At2(i) \in 1..n + d + m /\ f[i] = e[At2(i)]
  BY <1>2
<1>6. \A i, j \in 1..n + m : i < j => At2(i) < At2(j)
  BY <1>2
<1>7. \A i \in 1..n + m : r[i] = s[At2(i)]
  <2> TAKE i \in 1..n + m
  <2>1. CASE i <= n
    <3>1. i \in 1..n
      BY <1>2, <2>1
    <3> QED BY <1>3, <2>1, <3>1
  <2>2. CASE i > n
    <3>1. i - n \in 1..m /\ n + (i - n) = i /\ n + d + (i - n) = i + d
      BY <1>2, <2>2
    <3>2. r[i] = c[i - n] /\ s[i + d] = c[i - n]
      BY <1>3, <3>1
    <3> QED BY <1>2, <2>2, <3>2
  <2> QED BY <1>2, <2>1, <2>2
<1>8. f \in [1..n + m -> 1..k]
  BY <1>4, <1>5
<1> HIDE DEF f, At2
<1>9. Embeds(f, r, t)
  <2>1. Len(r) = n + m /\ Len(t) = k
    BY <1>2 DEF k
  <2>2. \A i \in 1..n + m : r[i] = t[f[i]]
    BY <1>4, <1>5, <1>7
  <2>3. \A i, j \in 1..n + m : i < j => f[i] < f[j]
    BY <1>4, <1>5, <1>6
  <2> QED BY <1>8, <2>1, <2>2, <2>3 DEF Embeds
<1> QED BY <1>9 DEF r

-----------------------------------------------------------------------------
(* The inductive invariant.                                                *)

\* Bits of the frames of what was accepted that have left the queue.
Sent == FrameBits * Len(accepted) - BitqCount(txbits)

Types ==
    /\ load \in Loads /\ pc \in {"read", "tx", "rx", "pump"} /\ phase \in {"HANDSHAKE", "DATA"}
    /\ left \in 0..MsgBits /\ ppp_fd \in {"none", "open", "gone"} /\ pppdEnd \in BOOLEAN
    /\ pppdSent \in 0..Len(load.down) /\ farSent \in 0..Len(load.up)
    /\ noise \in 0..load.noise /\ quiet \in 0..FrameBits /\ inStep \in BOOLEAN
    /\ loss \subseteq Losses

\* The bytes on their way.
Streams ==
    /\ fromPppd \in Seq(Byte) /\ toPppd \in Seq(Byte) /\ ppy_out \in Seq(Byte)
    /\ Len(ppy_out) <= PpySize /\ Len(toPppd) <= SockSize /\ Len(fromPppd) <= SockSize
    /\ pppdGot \in Seq(Byte) /\ decoded \in Seq(Byte) /\ accepted \in Seq(Byte)
    /\ Shape(deframer) /\ FarShape(far) /\ farBits \in Seq(Bit)

\* The queue holds the frames of what it accepted, but for the bits that have
\* left it, and the far end has made of those what they are; after a retrain, no
\* more bytes than there were frames.
TxPath ==
    /\ Holds(txbits, Frames(accepted), Sent)
    /\ ~Retrained => FarHas(far, accepted, Sent)
    /\ FrameBits * Len(far.got) <= Sent
    /\ Heard(far.d) > 0 => \/ FrameBits * Len(far.got) + Heard(far.d) <= Sent
                           \/ FrameBits * Len(far.got) + FrameBits <= Sent

\* What pppd wrote is accepted or waits in the socket, until some is dropped.
FromPppd ==
    "queue" \notin loss /\ ~load.echo => accepted \o fromPppd = SubSeq(load.down, 1, pppdSent)

\* In a handshake the deframer is as it was made.
Fresh ==
    phase = "HANDSHAKE" =>
        deframer = DeframerInit /\ ~inStep /\ (~Retrained => decoded = <<>>)

\* The deframer has what this message brought, and no more than it can have.
RxBound ==
    /\ pc \in {"read", "tx"} => deframer.out = <<>>
    /\ FrameBits * Len(deframer.out) + Heard(deframer)
         <= FrameBits - 1 + MsgBits - (IF pc = "rx" THEN left ELSE 0)
    /\ "flush" \notin loss

\* Echoing, as many bits leave the queue as a message brings, before it does.
EchoBound ==
    load.echo /\ ~Retrained =>
        BitqCount(txbits) + FrameBits * Len(deframer.out) + Heard(deframer)
          <= FrameBits - 1 + (IF pc = "tx" THEN left
                              ELSE IF pc = "rx" THEN MsgBits - left ELSE MsgBits)

\* What was decoded is on its way, in order.
RxOrder ==
    /\ load.echo /\ ~Retrained => accepted \o deframer.out = decoded
    /\ ~load.echo /\ loss = {} => pppdGot \o toPppd \o ppy_out \o deframer.out = decoded
    /\ ~load.echo => \E e : Embeds(e, pppdGot \o toPppd \o ppy_out \o deframer.out, decoded)

\* A deframer inside a byte has not heard more ones in a row than the byte's
\* bits, and one that hunts has heard the last of them.
Quiet ==
    /\ deframer.state = "data" => quiet <= Len(deframer.byte)
    /\ deframer.state = "stop" => quiet <= DataBits
    /\ deframer.state = "hunt" /\ quiet > 0 => deframer.prev = 1

\* What is left of the far end's frame, and where the deframer is in it when it
\* is in step.
InFrame ==
    /\ farBits # <<>> => /\ farSent >= 1 /\ Len(farBits) <= FrameBits - 1
                         /\ \A i \in 1..Len(farBits) :
                               farBits[i] = Frame(load.up[farSent])[FrameBits - Len(farBits) + i]
    /\ inStep => IF farBits = <<>> THEN Hunting(deframer)
                 ELSE At(deframer, load.up[farSent], FrameBits - Len(farBits))

IInv == /\ Types /\ Streams /\ TxPath /\ FromPppd /\ Fresh /\ RxBound /\ EchoBound
        /\ RxOrder /\ Quiet /\ InFrame

-----------------------------------------------------------------------------
(* What the proofs keep needing of it.                                     *)

\* The constants of BytePath are numbers, and a load is its fields.
LEMMA More ==
  /\ MsgBits \in Nat \ {0} /\ Chunk \in Nat \ {0} /\ PpySize \in Nat \ {0}
  /\ SockSize \in Nat \ {0} /\ Chunk < OutSize
  /\ MsgBits <= FrameBits * Chunk /\ FrameBits * Chunk \in Nat
  /\ MsgBits + FrameBits <= QueueSize
  /\ \A l \in Loads : /\ l.down \in Seq(Byte) /\ l.up \in Seq(Byte) /\ l.noise \in Nat
                      /\ l.echo \in BOOLEAN
<1>1. Chunk * FrameBits = FrameBits * Chunk /\ FrameBits * Chunk \in Nat
  BY BytePathAssumption, Sizes
<1>2. \A l \in Loads : /\ l.down \in Seq(Byte) /\ l.up \in Seq(Byte) /\ l.noise \in Nat
                       /\ l.echo \in BOOLEAN
  BY BytePathAssumption DEF Load
<1> QED BY <1>1, <1>2, BytePathAssumption

\* The lengths of all that moves.
LEMMA Lengths ==
  ASSUME Streams
  PROVE  /\ Len(fromPppd) \in Nat /\ Len(toPppd) \in Nat /\ Len(ppy_out) \in Nat
         /\ Len(accepted) \in Nat /\ Len(decoded) \in Nat /\ Len(farBits) \in Nat
         /\ Len(far.got) \in Nat /\ Len(deframer.out) \in Nat /\ deframer.out \in Seq(Byte)
         /\ Heard(deframer) \in 0..FrameBits - 1 /\ Heard(far.d) \in 0..FrameBits - 1
<1>1. deframer.out \in Seq(Byte)
  BY ShapeIs DEF Streams
<1>2. far.got \in Seq(Byte)
  BY DEF Streams, FarShape
<1>3. ASSUME NEW d, Shape(d)
      PROVE  Heard(d) \in 0..FrameBits - 1
  BY <1>3, ShapeIs, Sizes DEF Heard
<1>4. Heard(deframer) \in 0..FrameBits - 1 /\ Heard(far.d) \in 0..FrameBits - 1
  BY <1>3 DEF Streams, FarShape
<1> QED BY <1>1, <1>2, <1>4 DEF Streams

\* What the queue holds is a number, and what has left it another.
LEMMA QueueIs ==
  ASSUME Streams, TxPath
  PROVE  /\ BitqCount(txbits) \in 0..QueueSize /\ Sent \in Nat
         /\ FrameBits * Len(accepted) \in Nat
         /\ FrameBits * Len(accepted) = Sent + BitqCount(txbits)
         /\ Len(Frames(accepted)) = FrameBits * Len(accepted)
<1>1. accepted \in Seq(Byte)
  BY DEF Streams
<1>2. /\ FrameBits * Len(accepted) \in Nat /\ Len(Frames(accepted)) = FrameBits * Len(accepted)
  BY <1>1, FramesAre
<1>3. BitqCount(txbits) = Len(Frames(accepted)) - Sent
  BY CountIs DEF TxPath
<1>4. Sent \in 0..Len(Frames(accepted)) /\ Len(Frames(accepted)) - Sent <= QueueSize
  BY DEF TxPath, Holds
<1> QED BY <1>2, <1>3, <1>4, Sizes

\* A fresh deframer.
LEMMA InitShape == Shape(DeframerInit) /\ Heard(DeframerInit) = 0 /\ DeframerInit.out = <<>>
                   /\ Hunting(DeframerInit) /\ DeframerInit.state = "hunt" /\ DeframerInit.prev = 1
<1>1. <<>> \in Seq(Bit) /\ <<>> \in Seq(Byte) /\ Len(<<>>) = 0 /\ 1 \in Bit
  BY DEF Bit
<1>2. "hunt" \in {"hunt", "data", "stop"} /\ "hunt" # "data" /\ "hunt" # "stop"
  OBVIOUS
<1>3. Shape([state |-> "hunt", byte |-> <<>>, prev |-> 1, out |-> <<>>])
  <2>1. Len(<<>>) <= DataBits /\ Len(<<>>) <= OutSize
    BY <1>1, Sizes
  <2> QED BY <1>1, <1>2, <2>1, ShapeOf
<1> QED BY <1>3 DEF DeframerInit, Heard, Hunting

-----------------------------------------------------------------------------
(* The conjuncts that a step leaves alone.                                 *)

\* A transmitter, a socket, a receiver that do not move keep what they had.
LEMMA TxPathSame ==
  ASSUME TxPath, UNCHANGED <<txbits, accepted, far>>, Retrained => Retrained'
  PROVE  TxPath'
<1>1. Sent' = Sent
  BY DEF Sent
<1>2. Holds(txbits', Frames(accepted'), Sent') /\ (~Retrained' => FarHas(far', accepted', Sent'))
  BY <1>1 DEF TxPath
<1>3. FrameBits * Len(far'.got) <= Sent'
  BY <1>1 DEF TxPath
<1>4. Heard(far'.d) > 0 => \/ FrameBits * Len(far'.got) + Heard(far'.d) <= Sent'
                           \/ FrameBits * Len(far'.got) + FrameBits <= Sent'
  BY <1>1 DEF TxPath
<1> QED BY <1>2, <1>3, <1>4 DEF TxPath

\* What was dropped once stays dropped.
LEMMA FromPppdSame ==
  ASSUME FromPppd, UNCHANGED <<load, accepted, fromPppd, pppdSent>>, loss \subseteq loss'
  PROVE  FromPppd'
  BY DEF FromPppd

\* The receiving side, when neither it nor the losses change.
LEMMA RxOrderSame ==
  ASSUME RxOrder, UNCHANGED <<load, loss, accepted, deframer, decoded, pppdGot, toPppd, ppy_out>>
  PROVE  RxOrder'
<1>1. Retrained' = Retrained
  BY DEF Retrained
<1>2. load'.echo /\ ~Retrained' => accepted' \o deframer'.out = decoded'
  BY <1>1 DEF RxOrder
<1>3. ~load'.echo /\ loss' = {} => pppdGot' \o toPppd' \o ppy_out' \o deframer'.out = decoded'
  BY DEF RxOrder
<1>4. ~load'.echo => \E e : Embeds(e, pppdGot' \o toPppd' \o ppy_out' \o deframer'.out, decoded')
  BY DEF RxOrder
<1> QED BY <1>2, <1>3, <1>4 DEF RxOrder

\* The deframer's place in the far end's frames.
LEMMA QuietSame ==
  ASSUME Quiet, InFrame, UNCHANGED <<load, deframer, quiet, farBits, farSent, inStep>>
  PROVE  Quiet' /\ InFrame'
<1>1. Quiet'
  BY DEF Quiet
<1>2. farBits' # <<>> => /\ farSent' >= 1 /\ Len(farBits') <= FrameBits - 1
                         /\ \A i \in 1..Len(farBits') :
                               farBits'[i] = Frame(load'.up[farSent'])[FrameBits - Len(farBits') + i]
  BY DEF InFrame
<1>3. inStep' => IF farBits' = <<>> THEN Hunting(deframer')
                 ELSE At(deframer', load'.up[farSent'], FrameBits - Len(farBits'))
  BY DEF InFrame
<1> QED BY <1>1, <1>2, <1>3 DEF InFrame

\* The bytes on their way, when none moves.
LEMMA StreamsSame ==
  ASSUME Streams, UNCHANGED <<fromPppd, toPppd, ppy_out, pppdGot, decoded, accepted,
                              deframer, far, farBits>>
  PROVE  Streams'
  BY DEF Streams

-----------------------------------------------------------------------------
(* Init.                                                                   *)

\* Nothing has been sent and nothing heard.
LEMMA InitIInv == Init => IInv
<1> SUFFICES ASSUME Init
             PROVE  IInv
  OBVIOUS
<1> USE DEF Init
<1>1. <<>> \in Seq(Byte) /\ <<>> \in Seq(Bit) /\ Len(<<>>) = 0
      /\ \A s \in Seq(Byte) : <<>> \o s = s /\ s \o <<>> = s /\ SubSeq(s, 1, 0) = <<>>
  OBVIOUS
<1>2. load.down \in Seq(Byte) /\ load.up \in Seq(Byte) /\ load.noise \in Nat
  BY More
<1>3. Types
  <2>1. load \in Loads /\ left \in 0..MsgBits /\ noise \in 0..load.noise
    BY <1>2, More
  <2>2. pppdSent \in 0..Len(load.down) /\ farSent \in 0..Len(load.up)
    BY <1>2
  <2>3. quiet \in 0..FrameBits
    BY Sizes
  <2> QED BY <2>1, <2>2, <2>3 DEF Types
<1>4. FarShape(far)
  BY <1>1, InitShape DEF FarShape
<1>5. Streams
  BY <1>1, <1>4, InitShape, More, Sizes DEF Streams
<1>6. Frames(<<>>) = <<>>
  <2>1. Len(Frames(<<>>)) = FrameBits * Len(<<>>) /\ Frames(<<>>) \in Seq(Bit)
    BY <1>1, FramesAre
  <2>2. FrameBits * 0 = 0
    BY Sizes
  <2> QED BY <1>1, <2>1, <2>2
<1>7. Sent = 0
  <2>1. BitqCount(BitqEmpty) = Len(<<>>) - 0
    BY EmptyHolds, CountIs
  <2>2. FrameBits * Len(<<>>) = 0
    BY <1>1, Sizes
  <2> QED BY <1>1, <2>1, <2>2 DEF Sent
<1>8. far.got = <<>> /\ far.d = DeframerInit
  OBVIOUS
<1>9. TxPath
  <2>1. Holds(txbits, Frames(accepted), Sent)
    BY <1>6, <1>7, EmptyHolds
  <2>2. FarHas(far, <<>>, 0)
    <3>1. 0 = FrameBits * 0 + 0 /\ 0 \in 0..FrameBits - 1 /\ 0 \in 0..Len(<<>>)
      BY <1>1, Sizes
    <3>2. far.got = SubSeq(<<>>, 1, 0)
      BY <1>1, <1>8
    <3>3. At(far.d, <<>>[0 + 1], 0)
      BY <1>8, InitShape, Sizes DEF At
    <3> QED BY <3>1, <3>2, <3>3 DEF FarHas
  <2>3. FrameBits * Len(far.got) <= Sent
    BY <1>1, <1>7, <1>8, Sizes
  <2>4. Heard(far.d) = 0
    BY <1>8, InitShape
  <2> QED BY <1>7, <2>1, <2>2, <2>3, <2>4 DEF TxPath
<1>10. FromPppd
  BY <1>1, <1>2 DEF FromPppd
<1>11. Fresh
  BY DEF Fresh
<1>12. RxBound /\ EchoBound
  <2>1. FrameBits * Len(deframer.out) = 0 /\ Heard(deframer) = 0 /\ deframer.out = <<>>
    BY <1>1, InitShape, Sizes
  <2>2. BitqCount(txbits) = 0
    BY EmptyHolds, CountIs, <1>1
  <2> QED BY <2>1, <2>2, More, Sizes DEF RxBound, EchoBound
<1>13. RxOrder
  <2>1. deframer.out = <<>>
    BY InitShape
  <2>2. accepted \o deframer.out = <<>> /\ pppdGot \o toPppd \o ppy_out \o deframer.out = <<>>
    BY <1>1, <2>1
  <2>3. \E e : Embeds(e, <<>>, <<>>)
    <3> DEFINE e == [i \in 1..0 |-> 1]
    <3>1. e \in [1..Len(<<>>) -> 1..Len(<<>>)] /\ 1..Len(<<>>) = {}
      BY <1>1
    <3>2. Embeds(e, <<>>, <<>>)
      BY <3>1 DEF Embeds
    <3> QED BY <3>2
  <2> QED BY <2>2, <2>3 DEF RxOrder
<1>14. Quiet /\ InFrame
  BY InitShape DEF Quiet, InFrame
<1> QED BY <1>3, <1>5, <1>9, <1>10, <1>11, <1>12, <1>13, <1>14 DEF IInv

-----------------------------------------------------------------------------
(* The steps.                                                              *)

\* Everything but where the pass has got to.
still == <<load, txVars, rxVars, fdVars, loss>>

\* A step that moves no byte and no bit keeps what is about them.
LEMMA StillKeeps ==
  ASSUME IInv, UNCHANGED still
  PROVE  /\ UNCHANGED <<load, txbits, fromPppd, pppdSent, far, accepted, deframer, ppy_out, toPppd,
                        pppdGot, farBits, farSent, noise, quiet, inStep, decoded, ppp_fd, pppdEnd, loss>>
         /\ Streams' /\ TxPath' /\ FromPppd' /\ RxOrder' /\ Quiet' /\ InFrame'
         /\ BitqCount(txbits') = BitqCount(txbits) /\ Heard(deframer') = Heard(deframer)
         /\ Retrained' = Retrained
<1>1. UNCHANGED <<load, txbits, fromPppd, pppdSent, far, accepted, deframer, ppy_out, toPppd,
                  pppdGot, farBits, farSent, noise, quiet, inStep, decoded, ppp_fd, pppdEnd, loss>>
  BY DEF still, txVars, rxVars, fdVars
<1>2. Retrained' = Retrained
  BY <1>1 DEF Retrained
<1>3. Streams'
  BY <1>1, StreamsSame DEF IInv
<1>4. TxPath'
  BY <1>1, <1>2, TxPathSame DEF IInv
<1>5. FromPppd'
  BY <1>1, FromPppdSame DEF IInv
<1>6. RxOrder'
  BY <1>1, RxOrderSame DEF IInv
<1>7. Quiet' /\ InFrame'
  BY <1>1, QuietSame DEF IInv
<1> QED BY <1>1, <1>2, <1>3, <1>4, <1>5, <1>6, <1>7

\* The numbers behind the two bounds.
LEMMA Bounds ==
  ASSUME IInv
  PROVE  /\ MsgBits \in Nat \ {0} /\ left \in 0..MsgBits /\ FrameBits \in Nat \ {0}
         /\ Heard(deframer) \in 0..FrameBits - 1 /\ BitqCount(txbits) \in 0..QueueSize
         /\ FrameBits * Len(deframer.out) \in Nat /\ Len(deframer.out) \in Nat
         /\ deframer.out = <<>> => FrameBits * Len(deframer.out) = 0
<1>1. Streams /\ TxPath /\ left \in 0..MsgBits
  BY DEF IInv, Types
<1>2. Len(deframer.out) \in Nat /\ Heard(deframer) \in 0..FrameBits - 1
      /\ BitqCount(txbits) \in 0..QueueSize
  BY <1>1, Lengths, QueueIs
<1>3. FrameBits * Len(deframer.out) \in Nat /\ (deframer.out = <<>> => FrameBits * Len(deframer.out) = 0)
  <2>1. Len(<<>>) = 0 /\ FrameBits * 0 = 0 /\ \A n \in Nat : FrameBits * n \in Nat
    BY Sizes
  <2> QED BY <1>2, <2>1
<1> QED BY <1>1, <1>2, <1>3, More, Sizes

\* In the first handshake an echoing call has nothing in its queue.
LEMMA NothingYet ==
  ASSUME IInv, load.echo, ~Retrained, phase = "HANDSHAKE"
  PROVE  BitqCount(txbits) = 0 /\ Heard(deframer) = 0 /\ deframer.out = <<>>
<1>1. deframer = DeframerInit /\ decoded = <<>>
  BY DEF IInv, Fresh
<1>2. Heard(deframer) = 0 /\ deframer.out = <<>>
  BY <1>1, InitShape
<1>3. accepted \in Seq(Byte) /\ accepted \o <<>> = <<>>
  BY <1>1, <1>2 DEF IInv, RxOrder, Streams
<1>4. Len(accepted) = 0
  BY <1>3
<1>5. FrameBits * Len(accepted) = 0
  BY <1>4, Sizes
<1>6. /\ BitqCount(txbits) \in Nat /\ Sent \in Nat
      /\ FrameBits * Len(accepted) = Sent + BitqCount(txbits)
  BY QueueIs DEF IInv
<1> QED BY <1>2, <1>5, <1>6

\* A read that times out goes on to the pump.
LEMMA ReadTimesOutKeeps ==
  ASSUME IInv, ReadTimesOut
  PROVE  IInv'
<1>1. UNCHANGED still /\ UNCHANGED <<phase, left>> /\ pc = "read" /\ pc' = "pump"
  BY DEF ReadTimesOut, still
<1>2. /\ Streams' /\ TxPath' /\ FromPppd' /\ RxOrder' /\ Quiet' /\ InFrame'
      /\ UNCHANGED <<load, deframer, farSent, noise, quiet, inStep, decoded, ppp_fd, pppdEnd, pppdSent, loss>>
      /\ BitqCount(txbits') = BitqCount(txbits) /\ Heard(deframer') = Heard(deframer)
      /\ Retrained' = Retrained
  BY <1>1, StillKeeps
<1>3. Types'
  BY <1>1, <1>2 DEF IInv, Types
<1>4. Fresh'
  BY <1>1, <1>2 DEF IInv, Fresh
<1>5. RxBound'
  BY <1>1, <1>2, Bounds DEF IInv, RxBound
<1>6. EchoBound'
  BY <1>1, <1>2, Bounds DEF IInv, EchoBound
<1> QED BY <1>2, <1>3, <1>4, <1>5, <1>6 DEF IInv

\* A message begins with its bits still to be sent.
LEMMA ReadMessageKeeps ==
  ASSUME IInv, ReadMessage
  PROVE  IInv'
<1>1. UNCHANGED still /\ UNCHANGED phase /\ pc = "read" /\ pc' = "tx" /\ left' = MsgBits
  BY DEF ReadMessage, still
<1>2. /\ Streams' /\ TxPath' /\ FromPppd' /\ RxOrder' /\ Quiet' /\ InFrame'
      /\ UNCHANGED <<load, deframer, farSent, noise, quiet, inStep, decoded, ppp_fd, pppdEnd, pppdSent, loss>>
      /\ BitqCount(txbits') = BitqCount(txbits) /\ Heard(deframer') = Heard(deframer)
      /\ Retrained' = Retrained
  BY <1>1, StillKeeps
<1>3. Types'
  BY <1>1, <1>2, More DEF IInv, Types
<1>4. Fresh'
  BY <1>1, <1>2 DEF IInv, Fresh
<1>5. RxBound'
  BY <1>1, <1>2, Bounds DEF IInv, RxBound
<1>6. EchoBound'
  BY <1>1, <1>2, Bounds DEF IInv, EchoBound
<1> QED BY <1>2, <1>3, <1>4, <1>5, <1>6 DEF IInv

\* With all bits sent, as many are to be heard.
LEMMA TransmittedKeeps ==
  ASSUME IInv, Transmitted
  PROVE  IInv'
<1>1. /\ UNCHANGED still /\ UNCHANGED phase /\ pc = "tx" /\ pc' = "rx" /\ left' = MsgBits
      /\ left = 0 \/ phase = "HANDSHAKE"
  BY DEF Transmitted, still
<1>2. /\ Streams' /\ TxPath' /\ FromPppd' /\ RxOrder' /\ Quiet' /\ InFrame'
      /\ UNCHANGED <<load, deframer, farSent, noise, quiet, inStep, decoded, ppp_fd, pppdEnd, pppdSent, loss>>
      /\ BitqCount(txbits') = BitqCount(txbits) /\ Heard(deframer') = Heard(deframer)
      /\ Retrained' = Retrained
  BY <1>1, StillKeeps
<1>3. Types'
  BY <1>1, <1>2, More DEF IInv, Types
<1>4. Fresh'
  BY <1>1, <1>2 DEF IInv, Fresh
<1>5. RxBound'
  BY <1>1, <1>2, Bounds DEF IInv, RxBound
<1>6. EchoBound'
  <2> SUFFICES ASSUME load.echo, ~Retrained
               PROVE  BitqCount(txbits) + FrameBits * Len(deframer.out) + Heard(deframer)
                        <= FrameBits - 1 + (MsgBits - MsgBits)
    BY <1>1, <1>2 DEF EchoBound
  <2>1. CASE left = 0
    BY <1>1, <2>1, Bounds DEF IInv, EchoBound
  <2>2. CASE phase = "HANDSHAKE"
    BY <2>2, Bounds, NothingYet
  <2> QED BY <1>1, <2>1, <2>2
<1> QED BY <1>2, <1>3, <1>4, <1>5, <1>6 DEF IInv

\* A message of training is nothing to the byte path, but it may enter data mode.
LEMMA TrainingMessageKeeps ==
  ASSUME IInv, TrainingMessage
  PROVE  IInv'
<1>1. /\ UNCHANGED still /\ UNCHANGED pc /\ pc = "rx" /\ left' \in {left, 0}
      /\ phase' \in {phase, "DATA"}
  BY DEF TrainingMessage, still
<1>2. /\ Streams' /\ TxPath' /\ FromPppd' /\ RxOrder' /\ Quiet' /\ InFrame'
      /\ UNCHANGED <<load, deframer, farSent, noise, quiet, inStep, decoded, ppp_fd, pppdEnd, pppdSent, loss>>
      /\ BitqCount(txbits') = BitqCount(txbits) /\ Heard(deframer') = Heard(deframer)
      /\ Retrained' = Retrained
  BY <1>1, StillKeeps
<1>3. Types'
  BY <1>1, <1>2, More DEF IInv, Types
<1>4. Fresh'
  BY <1>1, <1>2 DEF IInv, Fresh
<1>5. RxBound'
  BY <1>1, <1>2, Bounds DEF IInv, RxBound
<1>6. EchoBound'
  <2> SUFFICES ASSUME load.echo, ~Retrained
               PROVE  BitqCount(txbits) + FrameBits * Len(deframer.out) + Heard(deframer)
                        <= FrameBits - 1 + (MsgBits - left')
    BY <1>1, <1>2 DEF EchoBound
  <2>1. BitqCount(txbits) + FrameBits * Len(deframer.out) + Heard(deframer)
          <= FrameBits - 1 + (MsgBits - left)
    BY <1>1 DEF IInv, EchoBound
  <2>2. MsgBits - left <= MsgBits - left' /\ left' \in 0..MsgBits
    BY <1>1, Bounds
  <2> DEFINE bits == BitqCount(txbits) + FrameBits * Len(deframer.out) + Heard(deframer)
  <2>3. bits \in Int /\ FrameBits \in Int /\ MsgBits - left \in Int /\ MsgBits - left' \in Int
    <3>1. bits \in Int
      BY Bounds
    <3>2. MsgBits \in Int /\ FrameBits \in Int /\ left \in Int /\ left' \in Int
      BY <2>2, Bounds
    <3> HIDE DEF bits
    <3> QED BY <3>1, <3>2
  <2>4. bits <= FrameBits - 1 + (MsgBits - left)
    BY <2>1 DEF bits
  <2> HIDE DEF bits
  <2>5. bits <= FrameBits - 1 + (MsgBits - left')
    <3> DEFINE w == MsgBits - left   u == MsgBits - left'
    <3>1. w \in Int /\ u \in Int /\ w <= u /\ bits <= FrameBits - 1 + w
      BY <2>2, <2>3, <2>4
    <3> HIDE DEF w, u
    <3>2. bits <= FrameBits - 1 + u
      BY <2>3, <3>1
    <3> QED BY <3>2 DEF u
  <2> QED BY <2>5 DEF bits
<1> QED BY <1>2, <1>3, <1>4, <1>5, <1>6 DEF IInv

\* Entering data mode makes the deframer anew, which in a handshake it still is.
LEMMA MessageEndsKeeps ==
  ASSUME IInv, MessageEnds
  PROVE  IInv'
<1>1. /\ UNCHANGED <<load, left, txVars, ppy_out, toPppd, pppdGot, farBits, farSent, noise,
                     quiet, inStep, decoded, fdVars, loss>>
      /\ pc = "rx" /\ left = 0 /\ pc' = "pump" /\ phase' \in {phase, "DATA"}
      /\ \/ deframer' = deframer
         \/ phase = "HANDSHAKE" /\ deframer' = DeframerInit
  <2> HIDE DEF IInv
  <2>1. \/ UNCHANGED <<phase, deframer>>
        \/ phase = "HANDSHAKE" /\ phase' = "DATA" /\ deframer' = DeframerInit
    BY DEF MessageEnds
  <2>2. /\ UNCHANGED <<load, left, txVars, ppy_out, toPppd, pppdGot, farBits, farSent, noise,
                       quiet, inStep, decoded, fdVars, loss>>
        /\ pc = "rx" /\ left = 0 /\ pc' = "pump"
    BY DEF MessageEnds
  <2>3. phase' \in {phase, "DATA"}
    BY <2>1
  <2>4. \/ deframer' = deframer
        \/ phase = "HANDSHAKE" /\ deframer' = DeframerInit
    BY <2>1
  <2> QED BY <2>2, <2>3, <2>4
<1>2. deframer' = deframer
  BY <1>1 DEF IInv, Fresh
<1>3. UNCHANGED still
  BY <1>1, <1>2 DEF still, rxVars
<1>4. /\ Streams' /\ TxPath' /\ FromPppd' /\ RxOrder' /\ Quiet' /\ InFrame'
      /\ UNCHANGED <<load, deframer, farSent, noise, quiet, inStep, decoded, ppp_fd, pppdEnd, pppdSent, loss>>
      /\ BitqCount(txbits') = BitqCount(txbits) /\ Heard(deframer') = Heard(deframer)
      /\ Retrained' = Retrained
  BY <1>3, StillKeeps
<1>5. Types'
  BY <1>1, <1>4, More DEF IInv, Types
<1>6. Fresh'
  BY <1>1, <1>4 DEF IInv, Fresh
<1>7. RxBound'
  BY <1>1, <1>4, Bounds DEF IInv, RxBound
<1>8. EchoBound'
  BY <1>1, <1>4, Bounds DEF IInv, EchoBound
<1> QED BY <1>4, <1>5, <1>6, <1>7, <1>8 DEF IInv


\* The receiver's side of a conjunct that speaks of the socket and pppd only.
LEMMA RxKept ==
  ASSUME IInv, UNCHANGED <<load, pc, phase, left, txbits, far, accepted, deframer, farBits, farSent,
                           noise, quiet, inStep, decoded, loss>>
  PROVE  /\ TxPath' /\ Fresh' /\ RxBound' /\ EchoBound' /\ Quiet' /\ InFrame' /\ Retrained' = Retrained
<1>1. Retrained' = Retrained
  BY DEF Retrained
<1>2. TxPath'
  BY <1>1, TxPathSame DEF IInv
<1>3. Fresh'
  BY <1>1 DEF IInv, Fresh
<1>4. RxBound'
  BY DEF IInv, RxBound
<1>5. EchoBound'
  <2> SUFFICES ASSUME load.echo, ~Retrained
               PROVE  BitqCount(txbits) + FrameBits * Len(deframer.out) + Heard(deframer)
                        <= FrameBits - 1 + (IF pc = "tx" THEN left
                                            ELSE IF pc = "rx" THEN MsgBits - left ELSE MsgBits)
    BY <1>1 DEF EchoBound
  <2> QED BY DEF IInv, EchoBound
<1>6. Quiet' /\ InFrame'
  BY QuietSame DEF IInv
<1> QED BY <1>1, <1>2, <1>3, <1>4, <1>5, <1>6

\* pppd's next byte waits in the socket behind the others.
LEMMA PppdWritesKeeps ==
  ASSUME IInv, PppdWrites
  PROVE  IInv'
<1>1. /\ UNCHANGED <<load, pc, phase, left, txbits, far, accepted, deframer, farBits, farSent,
                     noise, quiet, inStep, decoded, loss>>
      /\ UNCHANGED <<ppy_out, toPppd, pppdGot, ppp_fd, pppdEnd>>
      /\ pppdSent < Len(load.down) /\ Len(fromPppd) < SockSize /\ pppdSent' = pppdSent + 1
      /\ fromPppd' = Append(fromPppd, load.down[pppdSent'])
  BY DEF PppdWrites, rxVars, fdVars
<1>2. load.down \in Seq(Byte) /\ pppdSent \in 0..Len(load.down) /\ fromPppd \in Seq(Byte)
      /\ accepted \in Seq(Byte)
  BY More DEF IInv, Types, Streams
<1>3. pppdSent + 1 \in 1..Len(load.down) /\ load.down[pppdSent + 1] \in Byte
  BY <1>1, <1>2
<1>4. TxPath' /\ Fresh' /\ RxBound' /\ EchoBound' /\ Quiet' /\ InFrame'
  BY <1>1, RxKept
<1>5. Types'
  <2>1. pppdSent' \in 0..Len(load'.down)
    BY <1>1, <1>2
  <2> QED BY <1>1, <2>1 DEF IInv, Types
<1>6. Streams'
  <2>1. fromPppd' \in Seq(Byte) /\ Len(fromPppd') = Len(fromPppd) + 1
    BY <1>1, <1>2, <1>3
  <2>2. Len(fromPppd') <= SockSize
    BY <1>1, <1>2, <2>1, More
  <2> QED BY <1>1, <2>1, <2>2 DEF IInv, Streams
<1>7. FromPppd'
  <2> SUFFICES ASSUME "queue" \notin loss, ~load.echo
               PROVE  accepted \o fromPppd' = SubSeq(load.down, 1, pppdSent')
    BY <1>1 DEF FromPppd
  <2>1. accepted \o fromPppd = SubSeq(load.down, 1, pppdSent)
    BY DEF IInv, FromPppd
  <2> DEFINE x == load.down[pppdSent + 1]
  <2>2. accepted \o Append(fromPppd, x) = Append(accepted \o fromPppd, x)
    BY <1>2, <1>3
  <2>3. Append(SubSeq(load.down, 1, pppdSent), x) = SubSeq(load.down, 1, pppdSent + 1)
    BY <1>2, <1>3
  <2> QED BY <1>1, <2>1, <2>2, <2>3
<1>8. RxOrder'
  BY <1>1, RxOrderSame DEF IInv
<1> QED BY <1>4, <1>5, <1>6, <1>7, <1>8 DEF IInv

\* pppd reads the oldest byte that waits for it.
LEMMA PppdReadsKeeps ==
  ASSUME IInv, PppdReads
  PROVE  IInv'
<1>1. /\ UNCHANGED <<load, pc, phase, left, txbits, far, accepted, deframer, farBits, farSent,
                     noise, quiet, inStep, decoded, loss>>
      /\ UNCHANGED <<ppy_out, fromPppd, pppdSent, ppp_fd, pppdEnd>>
      /\ toPppd # <<>> /\ pppdGot' = Append(pppdGot, Head(toPppd)) /\ toPppd' = Tail(toPppd)
  BY DEF PppdReads, txVars, fdVars
<1>2. toPppd \in Seq(Byte) /\ pppdGot \in Seq(Byte) /\ Len(toPppd) <= SockSize
  BY DEF IInv, Streams
<1>3. Head(toPppd) \in Byte /\ Tail(toPppd) \in Seq(Byte) /\ Len(Tail(toPppd)) = Len(toPppd) - 1
  BY <1>1, <1>2
<1>4. TxPath' /\ Fresh' /\ RxBound' /\ EchoBound' /\ Quiet' /\ InFrame' /\ Retrained' = Retrained
  BY <1>1, RxKept
<1>5. Types'
  BY <1>1 DEF IInv, Types
<1>6. Streams'
  <2>1. toPppd' \in Seq(Byte) /\ pppdGot' \in Seq(Byte) /\ Len(toPppd') <= SockSize
    BY <1>1, <1>2, <1>3, More
  <2> QED BY <1>1, <2>1 DEF IInv, Streams
<1>7. FromPppd'
  BY <1>1, FromPppdSame DEF IInv
<1>8. pppdGot' \o toPppd' = pppdGot \o toPppd
  BY <1>1, <1>2, <1>3
<1>9. RxOrder'
  <2>1. pppdGot' \o toPppd' \o ppy_out' \o deframer'.out = pppdGot \o toPppd \o ppy_out \o deframer.out
    BY <1>1, <1>8
  <2> HIDE DEF IInv
  <2>2. load'.echo /\ ~Retrained' => accepted' \o deframer'.out = decoded'
    BY <1>1, <1>4 DEF IInv, RxOrder
  <2>3. ~load'.echo /\ loss' = {} => pppdGot' \o toPppd' \o ppy_out' \o deframer'.out = decoded'
    BY <1>1, <2>1 DEF IInv, RxOrder
  <2>4. ~load'.echo => \E e : Embeds(e, pppdGot' \o toPppd' \o ppy_out' \o deframer'.out, decoded')
    BY <1>1, <2>1 DEF IInv, RxOrder
  <2> QED BY <2>2, <2>3, <2>4 DEF RxOrder
<1> QED BY <1>4, <1>5, <1>6, <1>7, <1>9 DEF IInv

\* pppd's end may close; what it wrote can still be read.
LEMMA PppdClosesKeeps ==
  ASSUME IInv, PppdCloses
  PROVE  IInv'
<1>1. /\ UNCHANGED <<load, pc, phase, left, txbits, far, accepted, deframer, farBits, farSent,
                     noise, quiet, inStep, decoded, loss>>
      /\ UNCHANGED <<ppy_out, fromPppd, pppdSent, ppp_fd, toPppd, pppdGot>> /\ pppdEnd' = TRUE
  BY DEF PppdCloses, txVars, rxVars
<1>2. TxPath' /\ Fresh' /\ RxBound' /\ EchoBound' /\ Quiet' /\ InFrame' /\ Retrained' = Retrained
  BY <1>1, RxKept
<1>3. Types'
  BY <1>1 DEF IInv, Types
<1>4. Streams' /\ FromPppd' /\ RxOrder'
  BY <1>1, StreamsSame, FromPppdSame, RxOrderSame DEF IInv
<1> QED BY <1>2, <1>3, <1>4 DEF IInv

\* A retrain forgets the byte the deframer is in and those it had completed.
LEMMA RetrainKeeps ==
  ASSUME IInv, Retrain
  PROVE  IInv'
<1>1. /\ UNCHANGED <<load, pc, txbits, fromPppd, pppdSent, accepted, ppy_out, toPppd, pppdGot,
                     farBits, farSent, noise, decoded, ppp_fd, pppdEnd>>
      /\ pc = "rx" /\ phase' = "HANDSHAKE" /\ left' = 0 /\ deframer' = DeframerInit
      /\ loss' = loss \cup {"retrain"} /\ quiet' = 0 /\ inStep' = FALSE
      /\ far' \in {far, [far EXCEPT !.d = DeframerInit]}
  BY DEF Retrain, fdVars
<1>2. Retrained'
  BY <1>1 DEF Retrained
<1>3. /\ Shape(deframer') /\ Heard(deframer') = 0 /\ deframer'.out = <<>>
      /\ deframer'.state = "hunt" /\ deframer'.prev = 1
  BY <1>1, InitShape
<1>4. FarShape(far') /\ far'.got = far.got /\ (far'.d = far.d \/ Heard(far'.d) = 0)
  <2>1. FarShape(far)
    BY DEF IInv, Streams
  <2>2. CASE far' = far
    BY <2>1, <2>2
  <2>3. CASE far' = [far EXCEPT !.d = DeframerInit]
    <3>1. far' = [d |-> DeframerInit, got |-> far.got]
      BY <2>1, <2>3 DEF FarShape
    <3>2. far'.d = DeframerInit /\ far'.got = far.got /\ far' = [d |-> far'.d, got |-> far'.got]
      BY <3>1
    <3> QED BY <2>1, <3>2, InitShape DEF FarShape
  <2> QED BY <1>1, <2>2, <2>3
<1>5. Types'
  <2> HIDE DEF IInv
  <2>1. 0 \in 0..MsgBits /\ 0 \in 0..FrameBits
    BY More, Sizes
  <2>2. loss' \subseteq Losses /\ phase' \in {"HANDSHAKE", "DATA"}
    BY <1>1 DEF IInv, Types, Losses
  <2>3. left' \in 0..MsgBits /\ quiet' \in 0..FrameBits /\ inStep' \in BOOLEAN
    BY <1>1, <2>1
  <2> QED BY <1>1, <2>2, <2>3 DEF IInv, Types
<1>6. Streams'
  BY <1>1, <1>3, <1>4 DEF IInv, Streams
<1>7. TxPath'
  <2>1. Sent' = Sent
    BY <1>1 DEF Sent
  <2>2. Holds(txbits', Frames(accepted'), Sent')
    BY <1>1, <2>1 DEF IInv, TxPath
  <2>3. FrameBits * Len(far'.got) <= Sent'
    BY <1>4, <2>1 DEF IInv, TxPath
  <2>4. Heard(far'.d) > 0 => \/ FrameBits * Len(far'.got) + Heard(far'.d) <= Sent'
                             \/ FrameBits * Len(far'.got) + FrameBits <= Sent'
    <3>1. CASE far'.d = far.d
      BY <1>4, <2>1, <3>1 DEF IInv, TxPath
    <3>2. CASE Heard(far'.d) = 0
      BY <3>2
    <3> QED BY <1>4, <3>1, <3>2
  <2> QED BY <1>2, <2>2, <2>3, <2>4 DEF TxPath
<1>8. FromPppd'
  BY <1>1, FromPppdSame DEF IInv
<1>9. Fresh'
  BY <1>1, <1>2 DEF Fresh
<1>10. RxBound'
  <2>1. FrameBits * Len(deframer'.out) = 0
    <3>1. Len(<<>>) = 0 /\ FrameBits * 0 = 0
      BY Sizes
    <3> QED BY <1>3, <3>1
  <2>2. FrameBits * Len(deframer'.out) + Heard(deframer')
          <= FrameBits - 1 + MsgBits - (IF pc' = "rx" THEN left' ELSE 0)
    BY <1>1, <1>3, <2>1, More, Sizes
  <2>3. "flush" \notin loss'
    BY <1>1 DEF IInv, RxBound
  <2> QED BY <1>3, <2>2, <2>3 DEF RxBound
<1>11. EchoBound'
  BY <1>2 DEF EchoBound
<1>12. RxOrder'
  <2>1. pppdGot \in Seq(Byte) /\ toPppd \in Seq(Byte) /\ ppy_out \in Seq(Byte)
        /\ deframer.out \in Seq(Byte) /\ decoded \in Seq(Byte)
    BY Lengths DEF IInv, Streams
  <2> DEFINE held == pppdGot \o toPppd \o ppy_out
  <2>2. held \in Seq(Byte) /\ <<>> \in Seq(Byte) /\ held \o deframer.out \o <<>> = held \o deframer.out
    BY <2>1
  <2>3. ASSUME ~load.echo
        PROVE  \E e : Embeds(e, held \o <<>>, decoded)
    <3>1. \E e : Embeds(e, held \o deframer.out \o <<>>, decoded)
      BY <2>2, <2>3 DEF IInv, RxOrder
    <3> HIDE DEF held
    <3> QED BY <2>1, <2>2, <3>1, EmbedsDrop
  <2>4. loss' # {}
    BY <1>1
  <2>5. pppdGot' \o toPppd' \o ppy_out' \o deframer'.out = held \o <<>>
    BY <1>1, <1>3
  <2>6. ~load'.echo => \E e : Embeds(e, pppdGot' \o toPppd' \o ppy_out' \o deframer'.out, decoded')
    BY <1>1, <2>3, <2>5
  <2> QED BY <1>2, <2>4, <2>6 DEF RxOrder
<1>13. Quiet'
  BY <1>1, <1>3 DEF Quiet
<1>14. InFrame'
  BY <1>1 DEF IInv, InFrame
<1> QED BY <1>5, <1>6, <1>7, <1>8, <1>9, <1>10, <1>11, <1>12, <1>13, <1>14 DEF IInv

\* A receiver that has not made more bytes than there were frames in p bits: it
\* has heard no more than those bits, or is short of a frame of them.
Bounded(f, p) ==
    /\ FrameBits * Len(f.got) <= p
    /\ Heard(f.d) > 0 => \/ FrameBits * Len(f.got) + Heard(f.d) <= p
                         \/ FrameBits * Len(f.got) + FrameBits <= p

\* What a bit may add to it.
LEMMA HearAdds ==
  ASSUME NEW f, FarShape(f), NEW bit \in Bit
  PROVE  /\ FarShape(Hear(f, bit))
         /\ Heard(f.d) \in 0..FrameBits - 1 /\ Heard(Hear(f, bit).d) \in 0..FrameBits - 1
         /\ FrameBits * Len(f.got) \in Nat
         /\ \/ /\ FrameBits * Len(Hear(f, bit).got) = FrameBits * Len(f.got)
               /\ Heard(Hear(f, bit).d) <= Heard(f.d) + 1
            \/ /\ FrameBits * Len(Hear(f, bit).got) = FrameBits * Len(f.got) + FrameBits
               /\ Heard(f.d) = FrameBits - 1 /\ Heard(Hear(f, bit).d) = 0
         /\ Heard(f.d) = 0 /\ bit = 1 => Heard(Hear(f, bit).d) = 0
<1> DEFINE e == DeframerBit(f.d, bit)
           h == Hear(f, bit)
<1>1. Shape(f.d) /\ f.d.out = <<>> /\ f.got \in Seq(Byte) /\ Len(f.d.out) < OutSize
      /\ Len(<<>>) = 0
  BY Sizes DEF FarShape
<1>2. FarShape(h) /\ h.got = f.got \o e.out /\ Heard(h.d) = Heard(e)
  BY HearDoes
<1>3. Shape(e)
  BY <1>1, BitDoes
<1>4. /\ Heard(f.d) \in 0..FrameBits - 1 /\ Heard(e) \in 0..FrameBits - 1
      /\ \/ e.out = f.d.out /\ Heard(e) <= Heard(f.d) + 1
         \/ Len(e.out) = Len(f.d.out) + 1 /\ Heard(f.d) = FrameBits - 1 /\ Heard(e) = 0
      /\ Heard(f.d) = 0 /\ bit = 1 => Heard(e) = 0
  BY <1>1, BitIsHeard
<1>5. e.out \in Seq(Byte)
  BY <1>3, ShapeIs
<1> HIDE DEF e, h
<1>6. Len(f.got) \in Nat /\ Len(h.got) = Len(f.got) + Len(e.out)
  BY <1>1, <1>2, <1>5
<1>7. \A n \in Nat : FrameBits * n \in Nat /\ FrameBits * (n + 1) = FrameBits * n + FrameBits
  BY Sizes
<1>8. CASE e.out = f.d.out /\ Heard(e) <= Heard(f.d) + 1
  <2>1. Len(h.got) = Len(f.got)
    BY <1>1, <1>6, <1>8
  <2> QED BY <1>2, <1>4, <1>6, <1>7, <1>8, <2>1 DEF h
<1>9. CASE Len(e.out) = Len(f.d.out) + 1 /\ Heard(f.d) = FrameBits - 1 /\ Heard(e) = 0
  <2>1. Len(h.got) = Len(f.got) + 1
    BY <1>1, <1>6, <1>9
  <2> QED BY <1>2, <1>4, <1>6, <1>7, <1>9, <2>1 DEF h
<1> QED BY <1>4, <1>8, <1>9

\* A bit of the queue keeps it so, and so does an idle line behind whole frames.
LEMMA BoundedNext ==
  ASSUME NEW f, FarShape(f), NEW p \in Nat, Bounded(f, p), NEW bit \in Bit
  PROVE  /\ Bounded(Hear(f, bit), p + 1)
         /\ \A k \in Nat : p = FrameBits * k /\ bit = 1 => Bounded(Hear(f, bit), p)
<1> DEFINE G == FrameBits * Len(f.got)   h == Heard(f.d)
           G2 == FrameBits * Len(Hear(f, bit).got)   h2 == Heard(Hear(f, bit).d)
<1>1. /\ h \in 0..FrameBits - 1 /\ h2 \in 0..FrameBits - 1 /\ G \in Nat
      /\ \/ G2 = G /\ h2 <= h + 1
         \/ G2 = G + FrameBits /\ h = FrameBits - 1 /\ h2 = 0
      /\ h = 0 /\ bit = 1 => h2 = 0
  BY HearAdds
<1>2. G <= p /\ (h > 0 => G + h <= p \/ G + FrameBits <= p)
  BY DEF Bounded
<1>3. FrameBits \in Nat /\ FrameBits >= 3
  BY Sizes
<1>4. f.got \in Seq(Byte)
  BY DEF FarShape
<1>5. ASSUME NEW k \in Nat, p = FrameBits * k, bit = 1, h > 0
      PROVE  G + FrameBits <= p
  <2> DEFINE g == Len(f.got)
  <2>1. g \in Nat /\ FrameBits * g < FrameBits * k /\ FrameBits * k \in Nat
    <3>1. G < p
      BY <1>1, <1>2, <1>3, <1>5
    <3> QED BY <1>4, <1>5, <3>1
  <2> HIDE DEF g
  <2>2. g < k
    <3>1. CASE g >= k
      <4>1. FrameBits * g >= FrameBits * k
        BY <1>3, <1>5, <2>1, <3>1
      <4> QED BY <1>3, <2>1, <4>1
    <3> QED BY <1>5, <2>1, <3>1
  <2>3. FrameBits * (g + 1) <= FrameBits * k /\ FrameBits * (g + 1) = FrameBits * g + FrameBits
    BY <1>3, <2>1, <2>2
  <2> QED BY <1>5, <2>3 DEF g
<1> HIDE DEF G, G2, h, h2
<1>6. G2 <= p + 1 /\ (h2 > 0 => G2 + h2 <= p + 1 \/ G2 + FrameBits <= p + 1)
  BY <1>1, <1>2, <1>3
<1>7. ASSUME NEW k \in Nat, p = FrameBits * k, bit = 1
      PROVE  G2 <= p /\ (h2 > 0 => G2 + h2 <= p \/ G2 + FrameBits <= p)
  <2>1. CASE h = 0
    BY <1>1, <1>2, <1>3, <1>7, <2>1
  <2>2. CASE h > 0
    <3>1. G + FrameBits <= p
      BY <1>5, <1>7, <2>2
    <3> QED BY <1>1, <1>3, <3>1
  <2> QED BY <1>1, <2>1, <2>2
<1> QED BY <1>6, <1>7 DEF Bounded, G2, h2

\* The transmitter's bit is the oldest that waits, and the far end hears it; with
\* nothing waiting it idles.
LEMMA TransmitBitKeeps ==
  ASSUME IInv, TransmitBit
  PROVE  IInv'
<1> DEFINE q2 == BitqPop(txbits, 1).q   bit == BitqPop(txbits, 1).line[1]
           s == Frames(accepted)   N == FrameBits * Len(accepted)
<1>1. /\ UNCHANGED <<load, pc, phase, fromPppd, pppdSent, accepted, deframer, ppy_out, toPppd, pppdGot,
                     farBits, farSent, noise, quiet, inStep, decoded, ppp_fd, pppdEnd, loss>>
      /\ pc = "tx" /\ left > 0 /\ phase = "DATA" /\ left' = left - 1
      /\ txbits' = q2 /\ far' = Hear(far, bit)
  BY DEF TransmitBit, rxVars, fdVars
<1>2. Streams /\ TxPath /\ accepted \in Seq(Byte) /\ FarShape(far)
  BY DEF IInv, Streams
<1>3. /\ BitqCount(txbits) \in 0..QueueSize /\ Sent \in Nat /\ N \in Nat
      /\ N = Sent + BitqCount(txbits) /\ Len(s) = N /\ Sent \in 0..N
  BY <1>2, QueueIs
<1>4. Holds(txbits, s, Sent) /\ (~Retrained => FarHas(far, accepted, Sent)) /\ Bounded(far, Sent)
  BY <1>2 DEF TxPath, Bounded
<1>5. /\ Sent < N => Holds(q2, s, Sent + 1) /\ bit = s[Sent + 1]
      /\ Sent = N => Holds(q2, s, Sent) /\ bit = 1
  <2> DEFINE p == Sent
  <2>1. Holds(txbits, s, p)
    BY <1>4
  <2> HIDE DEF p, s, N
  <2>2. /\ p < Len(s) => /\ Holds(BitqPop(txbits, 1).q, s, p + 1)
                         /\ BitqPop(txbits, 1).line[1] = s[p + 1]
        /\ p = Len(s) => /\ Holds(BitqPop(txbits, 1).q, s, p)
                         /\ BitqPop(txbits, 1).line[1] = 1
    BY <2>1, PopHolds
  <2> QED BY <1>3, <2>2 DEF p
<1>6. bit \in Bit
  <2>1. CASE Sent < N
    <3>1. s \in Seq(Bit) /\ Sent + 1 \in 1..Len(s)
      BY <1>2, <1>3, <2>1, FramesAre
    <3> HIDE DEF s, N, bit
    <3> QED BY <1>5, <2>1, <3>1
  <2>2. CASE Sent = N
    BY <1>5, <2>2 DEF Bit
  <2> QED BY <1>3, <2>1, <2>2
<1> HIDE DEF q2, bit, s, N
<1>7. FarShape(far')
  BY <1>1, <1>2, <1>6, HearAdds
<1>8. /\ Sent < N => Sent' = Sent + 1 /\ BitqCount(txbits') = BitqCount(txbits) - 1
      /\ Sent = N => Sent' = Sent /\ BitqCount(txbits') = 0 /\ BitqCount(txbits) = 0
  <2>1. CASE Sent < N
    <3>1. BitqCount(txbits') = Len(s) - (Sent + 1)
      BY <1>1, <1>5, <2>1, CountIs
    <3>2. Sent' = N - BitqCount(txbits')
      BY <1>1 DEF Sent, N
    <3>3. BitqCount(txbits') = BitqCount(txbits) - 1
      BY <1>3, <3>1
    <3>4. Sent' = Sent + 1
      BY <1>3, <3>2, <3>3
    <3> QED BY <2>1, <1>3, <3>3, <3>4
  <2>2. CASE Sent = N
    <3>1. BitqCount(txbits') = Len(s) - Sent
      BY <1>1, <1>5, <2>2, CountIs
    <3>2. Sent' = N - BitqCount(txbits')
      BY <1>1 DEF Sent, N
    <3>3. BitqCount(txbits') = 0 /\ BitqCount(txbits) = 0
      BY <1>3, <2>2, <3>1
    <3>4. Sent' = Sent
      BY <1>3, <3>2, <3>3
    <3> QED BY <2>2, <1>3, <3>3, <3>4
  <2> QED BY <1>3, <2>1, <2>2
<1>9. Retrained' = Retrained
  BY <1>1 DEF Retrained
<1>10. TxPath'
  <2>1. Holds(txbits', Frames(accepted'), Sent')
    BY <1>1, <1>3, <1>5, <1>8 DEF s
  <2>2. ~Retrained => FarHas(far', accepted, Sent')
    <3> SUFFICES ASSUME ~Retrained
                 PROVE  FarHas(far', accepted, Sent')
      OBVIOUS
    <3>1. CASE Sent < N
      <4> DEFINE p == Sent
      <4>1. p \in 0..FrameBits * Len(accepted) - 1 /\ FarHas(far, accepted, p)
            /\ bit = Frames(accepted)[p + 1]
        BY <1>3, <1>4, <1>5, <3>1 DEF N, s
      <4> HIDE DEF p
      <4>2. FarHas(Hear(far, bit), accepted, p + 1)
        BY <1>2, <4>1, FarNext
      <4> QED BY <1>1, <1>8, <3>1, <4>2 DEF p
    <3>2. CASE Sent = N
      <4>1. FarHas(far, accepted, FrameBits * Len(accepted))
        BY <1>4, <3>2 DEF N
      <4>2. FarHas(Hear(far, 1), accepted, FrameBits * Len(accepted))
        BY <1>2, <4>1, FarIdles
      <4> QED BY <1>1, <1>5, <1>8, <3>2, <4>2 DEF N
    <3> QED BY <1>3, <3>1, <3>2
  <2>3. Bounded(far', Sent')
    <3>1. CASE Sent < N
      <4> DEFINE p == Sent
      <4>1. p \in Nat /\ Bounded(far, p)
        BY <1>3, <1>4
      <4> HIDE DEF p
      <4>2. Bounded(Hear(far, bit), p + 1)
        BY <1>2, <1>6, <4>1, BoundedNext
      <4> QED BY <1>1, <1>8, <3>1, <4>2 DEF p
    <3>2. CASE Sent = N
      <4> DEFINE p == Sent
      <4>1. p \in Nat /\ Bounded(far, p) /\ p = FrameBits * Len(accepted) /\ Len(accepted) \in Nat
        BY <1>2, <1>3, <1>4, <3>2 DEF N
      <4> HIDE DEF p
      <4>2. Bounded(Hear(far, bit), p)
        BY <1>2, <1>5, <1>6, <3>2, <4>1, BoundedNext
      <4> QED BY <1>1, <1>8, <3>2, <4>2 DEF p
    <3> QED BY <1>3, <3>1, <3>2
  <2>4. FrameBits * Len(far'.got) <= Sent'
    BY <2>3 DEF Bounded
  <2>5. Heard(far'.d) > 0 => \/ FrameBits * Len(far'.got) + Heard(far'.d) <= Sent'
                             \/ FrameBits * Len(far'.got) + FrameBits <= Sent'
    BY <2>3 DEF Bounded
  <2> QED BY <1>1, <1>9, <2>1, <2>2, <2>4, <2>5 DEF TxPath
<1>11. Types'
  <2>1. left' \in 0..MsgBits
    BY <1>1, Bounds
  <2> QED BY <1>1, <2>1 DEF IInv, Types
<1>12. Streams'
  BY <1>1, <1>7 DEF IInv, Streams
<1>13. FromPppd' /\ RxOrder' /\ Quiet' /\ InFrame'
  BY <1>1, FromPppdSame, RxOrderSame, QuietSame DEF IInv
<1>14. Fresh'
  BY <1>1 DEF Fresh
<1>15. RxBound'
  <2>1. pc \in {"read", "tx"} => deframer.out = <<>>
    BY DEF IInv, RxBound
  <2>2. FrameBits * Len(deframer.out) + Heard(deframer)
          <= FrameBits - 1 + MsgBits - (IF pc = "rx" THEN left ELSE 0)
    BY DEF IInv, RxBound
  <2>3. "flush" \notin loss
    BY DEF IInv, RxBound
  <2> QED BY <1>1, <2>1, <2>2, <2>3 DEF RxBound
<1>16. EchoBound'
  <2> SUFFICES ASSUME load.echo, ~Retrained
               PROVE  BitqCount(txbits') + FrameBits * Len(deframer.out) + Heard(deframer)
                        <= FrameBits - 1 + (left - 1)
    BY <1>1, <1>9 DEF EchoBound
  <2>1. BitqCount(txbits) + FrameBits * Len(deframer.out) + Heard(deframer)
          <= FrameBits - 1 + left
    BY <1>1 DEF IInv, EchoBound
  <2>2. FrameBits * Len(deframer.out) = 0
    BY <1>1, Bounds DEF IInv, RxBound
  <2>3. CASE Sent < N
    <3> DEFINE c == BitqCount(txbits)  h == Heard(deframer)  o == FrameBits * Len(deframer.out)
               c2 == BitqCount(txbits')
    <3>1. c + o + h <= FrameBits - 1 + left /\ o = 0 /\ c2 = c - 1
      BY <1>8, <2>1, <2>2, <2>3
    <3>2. c \in Int /\ h \in Int /\ left \in Int /\ FrameBits \in Int
      BY Bounds
    <3> HIDE DEF c, h, o, c2
    <3>3. c2 + o + h <= FrameBits - 1 + (left - 1)
      BY <3>1, <3>2
    <3> QED BY <3>3 DEF c, h, o, c2
  <2>4. CASE Sent = N
    BY <1>1, <1>8, <2>2, <2>4, Bounds
  <2> QED BY <1>3, <2>3, <2>4
<1> QED BY <1>10, <1>11, <1>12, <1>13, <1>14, <1>15, <1>16 DEF IInv

\* An element behind the second of two sequences is behind both.
LEMMA AppendJoins ==
  ASSUME NEW S, NEW s \in Seq(S), NEW t \in Seq(S), NEW x \in S
  PROVE  s \o Append(t, x) = Append(s \o t, x)
  OBVIOUS

\* No pass leaves the deframer more than the next one takes, so its output is
\* never full.
LEMMA RoomInOut ==
  ASSUME IInv
  PROVE  Len(deframer.out) <= Chunk /\ Len(deframer.out) < OutSize
<1> DEFINE n == Len(deframer.out)
<1>1. /\ FrameBits * n + Heard(deframer) <= FrameBits - 1 + MsgBits - (IF pc = "rx" THEN left ELSE 0)
      /\ Heard(deframer) \in 0..FrameBits - 1 /\ left \in 0..MsgBits /\ n \in Nat /\ FrameBits * n \in Nat
  BY Bounds DEF IInv, RxBound
<1>2. /\ MsgBits <= FrameBits * Chunk /\ FrameBits * Chunk \in Nat /\ Chunk \in Nat \ {0}
      /\ MsgBits \in Nat /\ Chunk < OutSize /\ OutSize \in Nat /\ FrameBits \in Nat \ {0}
  BY More, Sizes
<1>3. FrameBits * n < FrameBits * Chunk + FrameBits
  BY <1>1, <1>2
<1>4. FrameBits * (Chunk + 1) = FrameBits * Chunk + FrameBits
  BY <1>2
<1> HIDE DEF n
<1>5. n < Chunk + 1
  <2>1. CASE n >= Chunk + 1
    <3>1. FrameBits * n >= FrameBits * (Chunk + 1)
      BY <1>1, <1>2, <2>1
    <3> QED BY <1>1, <1>2, <1>3, <1>4, <3>1
  <2> QED BY <1>1, <1>2, <2>1
<1> QED BY <1>1, <1>2, <1>5 DEF n

\* A bit that is delivered goes to the deframer, and a byte it completes is one
\* more that was decoded.
LEMMA BitPut ==
  ASSUME IInv, NEW v \in Bit, PutBit(v), pc = "rx", left > 0, left' = left - 1,
         UNCHANGED <<load, pc, phase, txbits, far, accepted, ppy_out, toPppd, pppdGot>>
  PROVE  /\ deframer' = DeframerBit(deframer, v) /\ Shape(deframer') /\ Len(deframer.out) < OutSize
         /\ decoded' \in Seq(Byte) /\ quiet' \in 0..FrameBits /\ loss' = loss
         /\ quiet' >= DataBits + 1 => Hunting(deframer')
         /\ RxBound' /\ EchoBound' /\ RxOrder' /\ Quiet'
<1> DEFINE d == deframer   e == DeframerBit(deframer, v)
<1>1. Len(deframer.out) < OutSize /\ Shape(deframer) /\ decoded \in Seq(Byte) /\ quiet \in 0..FrameBits
  BY RoomInOut DEF IInv, Streams, Types
<1>2. /\ deframer' = e
      /\ decoded' = IF d.state = "stop" /\ v = 1 THEN Append(decoded, d.byte) ELSE decoded
      /\ quiet' = IF v = 0 THEN 0 ELSE IF quiet < FrameBits THEN quiet + 1 ELSE quiet
  BY DEF PutBit
<1>3. loss' = loss
  <2>1. ~(Len(deframer.out) >= OutSize)
    BY <1>1, Sizes, Bounds
  <2> QED BY <2>1 DEF PutBit
<1>4. /\ d.state \in {"hunt", "data", "stop"} /\ d.byte \in Seq(Bit) /\ Len(d.byte) \in 0..DataBits
      /\ d.out \in Seq(Byte)
      /\ d.state = "data" => Len(d.byte) < DataBits
      /\ d.state = "stop" => d.byte \in Byte
  BY <1>1, ShapeIs
<1>5. /\ Shape(e) /\ e.prev = v
      /\ e.out = IF d.state = "stop" /\ v = 1 THEN Append(d.out, d.byte) ELSE d.out
      /\ d.state = "hunt" => e.state = IF d.prev = 1 /\ v = 0 THEN "data" ELSE "hunt"
      /\ d.state = "hunt" /\ d.prev = 1 /\ v = 0 => e.byte = <<>>
      /\ d.state = "data" => e.byte = Append(d.byte, v)
      /\ d.state = "data" => e.state = IF Len(d.byte) + 1 >= DataBits THEN "stop" ELSE "data"
      /\ d.state = "stop" => e.state = "hunt"
  BY <1>1, BitDoes
<1>6. /\ e.state \in {"hunt", "data", "stop"} /\ Len(e.byte) \in 0..DataBits
      /\ e.state = "data" => Len(e.byte) < DataBits
  BY <1>5, ShapeIs
<1>7. /\ Heard(d) \in 0..FrameBits - 1 /\ Heard(e) \in 0..FrameBits - 1
      /\ \/ e.out = d.out /\ Heard(e) <= Heard(d) + 1
         \/ Len(e.out) = Len(d.out) + 1 /\ Heard(d) = FrameBits - 1 /\ Heard(e) = 0
  BY <1>1, BitIsHeard
<1>8. decoded' \in Seq(Byte)
  BY <1>1, <1>2, <1>4
<1>9. quiet' \in 0..FrameBits /\ quiet' <= quiet + 1 /\ (v = 0 => quiet' = 0)
  BY <1>1, <1>2, Sizes
<1> HIDE DEF d, e
<1>10. Quiet'
  <2>1. /\ d.state = "data" => quiet <= Len(d.byte)
        /\ d.state = "stop" => quiet <= DataBits
        /\ d.state = "hunt" /\ quiet > 0 => d.prev = 1
    BY DEF IInv, Quiet, d
  <2>2. e.state = "data" => quiet' <= Len(e.byte)
    <3> SUFFICES ASSUME e.state = "data"
                 PROVE  quiet' <= Len(e.byte)
      OBVIOUS
    <3>1. CASE d.state = "hunt"
      <4>1. v = 0 /\ e.byte = <<>>
        BY <1>5, <3>1
      <4> QED BY <1>9, <4>1, <1>6
    <3>2. CASE d.state = "data"
      <4>1. Len(e.byte) = Len(d.byte) + 1
        BY <1>4, <1>5, <3>2
      <4>2. quiet <= Len(d.byte)
        BY <2>1, <3>2
      <4> QED BY <1>1, <1>4, <1>9, <4>1, <4>2
    <3>3. CASE d.state = "stop"
      BY <1>5, <3>3
    <3> QED BY <1>4, <3>1, <3>2, <3>3
  <2>3. e.state = "stop" => quiet' <= DataBits
    <3> SUFFICES ASSUME e.state = "stop"
                 PROVE  quiet' <= DataBits
      OBVIOUS
    <3>1. d.state = "data"
      BY <1>4, <1>5
    <3>2. quiet <= Len(d.byte) /\ Len(d.byte) < DataBits
      BY <1>4, <2>1, <3>1
    <3> QED BY <1>1, <1>4, <1>9, <3>2, Sizes
  <2>4. e.state = "hunt" /\ quiet' > 0 => e.prev = 1
    <3>1. CASE v = 0
      BY <1>9, <3>1
    <3>2. CASE v = 1
      BY <1>5, <3>2
    <3> QED BY <3>1, <3>2 DEF Bit
  <2> QED BY <1>2, <2>2, <2>3, <2>4 DEF Quiet
<1>11. quiet' >= DataBits + 1 => Hunting(deframer')
  <2> SUFFICES ASSUME quiet' >= DataBits + 1
               PROVE  Hunting(e)
    BY <1>2
  <2>1. /\ e.state = "data" => quiet' <= Len(e.byte)
        /\ e.state = "stop" => quiet' <= DataBits
        /\ e.state = "hunt" /\ quiet' > 0 => e.prev = 1
    BY <1>2, <1>10 DEF Quiet
  <2>2. e.state # "data"
    BY <1>6, <1>9, <2>1, Sizes
  <2>3. e.state # "stop"
    BY <1>9, <2>1, Sizes
  <2>4. quiet' > 0
    BY <1>9, Sizes
  <2> QED BY <1>6, <2>1, <2>2, <2>3, <2>4 DEF Hunting
<1>12. /\ FrameBits * Len(e.out) \in Nat /\ FrameBits * Len(d.out) \in Nat
       /\ FrameBits * Len(e.out) + Heard(e) <= FrameBits * Len(d.out) + Heard(d) + 1
  <2>1. \A n \in Nat : FrameBits * n \in Nat /\ FrameBits * (n + 1) = FrameBits * n + FrameBits
    BY Sizes
  <2>2. Len(d.out) \in Nat
    BY <1>4
  <2>3. CASE e.out = d.out /\ Heard(e) <= Heard(d) + 1
    <3> DEFINE o == FrameBits * Len(d.out)
    <3>1. FrameBits * Len(e.out) = o /\ o \in Nat
      BY <2>1, <2>2, <2>3
    <3> HIDE DEF o
    <3> QED BY <1>7, <2>3, <3>1 DEF o
  <2>4. CASE Len(e.out) = Len(d.out) + 1 /\ Heard(d) = FrameBits - 1 /\ Heard(e) = 0
    <3> DEFINE o == FrameBits * Len(d.out)
    <3>1. FrameBits * Len(e.out) = o + FrameBits /\ o \in Nat /\ FrameBits \in Nat
      BY <2>1, <2>2, <2>4, Sizes
    <3> HIDE DEF o
    <3> QED BY <1>7, <2>4, <3>1 DEF o
  <2> QED BY <1>7, <2>3, <2>4
<1> DEFINE x == FrameBits * Len(d.out) + Heard(d)   y == FrameBits * Len(e.out) + Heard(e)
<1>13. x \in Int /\ y \in Int /\ y <= x + 1
  BY <1>7, <1>12
<1>14. RxBound'
  <2>1. x <= FrameBits - 1 + MsgBits - left /\ "flush" \notin loss
    BY DEF IInv, RxBound, x, d
  <2>2. MsgBits \in Int /\ left \in Int /\ FrameBits \in Int
    BY Bounds
  <2> HIDE DEF x, y
  <2>3. y <= FrameBits - 1 + MsgBits - (left - 1)
    BY <1>13, <2>1, <2>2
  <2> QED BY <1>2, <1>3, <2>1, <2>3 DEF RxBound, y
<1>15. EchoBound'
  <2> DEFINE c == BitqCount(txbits)
  <2>1. Retrained' = Retrained
    BY <1>3 DEF Retrained
  <2> SUFFICES ASSUME load.echo, ~Retrained
               PROVE  c + FrameBits * Len(e.out) + Heard(e) <= FrameBits - 1 + (MsgBits - (left - 1))
    BY <1>2, <2>1 DEF EchoBound
  <2>2. c + FrameBits * Len(d.out) + Heard(d) <= FrameBits - 1 + (MsgBits - left)
    BY DEF IInv, EchoBound, d
  <2>3. c \in Int /\ MsgBits \in Int /\ left \in Int /\ FrameBits \in Int
    BY Bounds
  <2>4. c + FrameBits * Len(d.out) + Heard(d) = c + x /\ c + FrameBits * Len(e.out) + Heard(e) = c + y
    <3> DEFINE d8 == FrameBits * Len(d.out)   e8 == FrameBits * Len(e.out)
               hd == Heard(d)   he == Heard(e)
    <3>1. c \in Int /\ d8 \in Int /\ e8 \in Int /\ hd \in Int /\ he \in Int
      BY <1>7, <1>12, <2>3
    <3> HIDE DEF c, d8, e8, hd, he
    <3>2. c + d8 + hd = c + (d8 + hd)
      BY <3>1
    <3>3. c + e8 + he = c + (e8 + he)
      BY <3>1
    <3> QED BY <3>2, <3>3 DEF x, y, d8, e8, hd, he
  <2> HIDE DEF x, y, c
  <2> QED BY <1>13, <2>2, <2>3, <2>4
<1>16. RxOrder'
  <2>1. Retrained' = Retrained
    BY <1>3 DEF Retrained
  <2>2. accepted \in Seq(Byte) /\ pppdGot \in Seq(Byte) /\ toPppd \in Seq(Byte) /\ ppy_out \in Seq(Byte)
    BY DEF IInv, Streams
  <2> DEFINE held == pppdGot \o toPppd \o ppy_out
  <2>3. held \in Seq(Byte)
    BY <2>2
  <2>4. /\ load.echo /\ ~Retrained => accepted \o d.out = decoded
        /\ ~load.echo /\ loss = {} => held \o d.out = decoded
        /\ ~load.echo => \E f : Embeds(f, held \o d.out, decoded)
    BY DEF IInv, RxOrder, d
  <2> HIDE DEF held
  <2>5. /\ load.echo /\ ~Retrained => accepted \o e.out = decoded'
        /\ ~load.echo /\ loss = {} => held \o e.out = decoded'
        /\ ~load.echo => \E f : Embeds(f, held \o e.out, decoded')
    <3>1. CASE d.state = "stop" /\ v = 1
      <4> DEFINE b == d.byte
      <4>1. e.out = Append(d.out, b) /\ decoded' = Append(decoded, b) /\ b \in Byte
        BY <1>2, <1>4, <1>5, <3>1
      <4> HIDE DEF b
      <4>2. accepted \o Append(d.out, b) = Append(accepted \o d.out, b)
            /\ held \o Append(d.out, b) = Append(held \o d.out, b)
        <5> DEFINE o == d.out
        <5>1. o \in Seq(Byte)
          BY <1>4
        <5> HIDE DEF o
        <5>2. accepted \o Append(o, b) = Append(accepted \o o, b)
          BY <2>2, <4>1, <5>1, AppendJoins
        <5>3. held \o Append(o, b) = Append(held \o o, b)
          BY <2>3, <4>1, <5>1, AppendJoins
        <5> QED BY <5>2, <5>3 DEF o
      <4>3. held \o d.out \in Seq(Byte)
        BY <1>4, <2>3
      <4>4. ASSUME ~load.echo
            PROVE  \E f : Embeds(f, Append(held \o d.out, b), Append(decoded, b))
        <5> DEFINE s == held \o d.out
        <5>1. s \in Seq(Byte) /\ \E f : Embeds(f, s, decoded)
          BY <2>4, <4>3, <4>4
        <5> HIDE DEF s
        <5>2. \E f : Embeds(f, Append(s, b), Append(decoded, b))
          BY <1>1, <4>1, <5>1, EmbedsBoth
        <5> QED BY <5>2 DEF s
      <4> QED BY <2>4, <4>1, <4>2, <4>4
    <3>2. CASE ~(d.state = "stop" /\ v = 1)
      <4>1. e.out = d.out /\ decoded' = decoded
        BY <1>2, <1>5, <3>2
      <4> QED BY <2>4, <4>1
    <3> QED BY <3>1, <3>2
  <2>6. pppdGot' \o toPppd' \o ppy_out' \o deframer'.out = held \o e.out
    BY <1>2 DEF held
  <2>7. accepted' \o deframer'.out = accepted \o e.out
    BY <1>2
  <2> QED BY <1>3, <2>1, <2>5, <2>6, <2>7 DEF RxOrder
<1> QED BY <1>1, <1>2, <1>3, <1>5, <1>8, <1>9, <1>10, <1>11, <1>14, <1>15, <1>16 DEF e

\* The rest of a frame that the far end is sending.
RestOf(bits, byte) ==
    /\ bits \in Seq(Bit) /\ Len(bits) <= FrameBits - 1
    /\ \A i \in 1..Len(bits) : bits[i] = Frame(byte)[FrameBits - Len(bits) + i]

\* The far end's bit is the next of its frame, or idle, or begins one; and a
\* deframer that follows its frames follows them through it.
LEMMA BitOfFar ==
  ASSUME IInv, NEW bit, FarBit(bit), UNCHANGED load
  PROVE  /\ bit \in Bit /\ farBits' \in Seq(Bit) /\ farSent' \in 0..Len(load.up)
         /\ farBits' # <<>> => farSent' >= 1 /\ RestOf(farBits', load.up[farSent'])
         /\ inStep /\ deframer' = DeframerBit(deframer, bit) =>
               IF farBits' = <<>> THEN Hunting(deframer')
               ELSE At(deframer', load.up[farSent'], FrameBits - Len(farBits'))
<1> DEFINE d == deframer   e == DeframerBit(deframer, bit)
<1>1. /\ load.up \in Seq(Byte) /\ farSent \in 0..Len(load.up) /\ farBits \in Seq(Bit)
      /\ Shape(d) /\ Len(d.out) < OutSize
  BY More, RoomInOut DEF IInv, Types, Streams
<1>2. farBits # <<>> => farSent >= 1 /\ RestOf(farBits, load.up[farSent])
  BY <1>1 DEF IInv, InFrame, RestOf
<1>3. inStep => IF farBits = <<>> THEN Hunting(d)
                ELSE At(d, load.up[farSent], FrameBits - Len(farBits))
  BY DEF IInv, InFrame
<1>4. FrameBits \in Nat /\ FrameBits >= 3
  BY Sizes
<1> HIDE DEF d, e
<1>5. CASE farBits # <<>> /\ bit = Head(farBits) /\ farBits' = Tail(farBits) /\ farSent' = farSent
  <2> DEFINE byte == load.up[farSent]   n == Len(farBits)   r == FrameBits - Len(farBits)
  <2>1. farSent \in 1..Len(load.up) /\ byte \in Byte
    BY <1>1, <1>2, <1>5
  <2>2. n \in 1..FrameBits - 1 /\ \A i \in 1..n : farBits[i] = Frame(byte)[r + i]
    BY <1>1, <1>2, <1>5 DEF RestOf
  <2>3. /\ farBits' \in Seq(Bit) /\ Len(farBits') = n - 1 /\ bit = farBits[1] /\ bit \in Bit
        /\ \A i \in 1..n - 1 : farBits'[i] = farBits[i + 1]
    BY <1>1, <1>5
  <2> HIDE DEF byte
  <2>4. RestOf(farBits', byte)
    <3>1. ASSUME NEW i \in 1..n - 1
          PROVE  farBits'[i] = Frame(byte)[FrameBits - (n - 1) + i]
      <4>1. i + 1 \in 1..n /\ FrameBits - (n - 1) + i = r + (i + 1)
        BY <1>4, <2>2
      <4> QED BY <2>2, <2>3, <4>1
    <3>2. Len(farBits') <= FrameBits - 1
      BY <1>4, <2>2, <2>3
    <3> QED BY <2>3, <3>1, <3>2 DEF RestOf
  <2>5. ASSUME inStep
        PROVE  IF farBits' = <<>> THEN Hunting(e) ELSE At(e, byte, FrameBits - Len(farBits'))
    <3>1. At(d, byte, r) /\ r \in 1..FrameBits - 1 /\ r \in 0..FrameBits - 1
      BY <1>3, <1>4, <1>5, <2>2, <2>5 DEF byte
    <3>2. bit = Frame(byte)[r + 1]
      <4>1. 1 \in 1..n
        BY <2>2
      <4> QED BY <2>2, <2>3, <4>1
    <3> HIDE DEF r
    <3>3. /\ r < FrameBits - 1 => At(e, byte, r + 1)
          /\ r = FrameBits - 1 => Hunting(e)
      BY <1>1, <2>1, <3>1, <3>2, AtNext DEF d, e
    <3>4. CASE n = 1
      <4>1. farBits' = <<>> /\ r = FrameBits - 1
        BY <2>3, <3>4 DEF r
      <4> QED BY <3>3, <4>1
    <3>5. CASE n # 1
      <4>1. farBits' # <<>> /\ r < FrameBits - 1 /\ r + 1 = FrameBits - Len(farBits')
        BY <1>4, <2>2, <2>3, <3>5 DEF r
      <4> QED BY <3>3, <4>1
    <3> QED BY <3>4, <3>5
  <2>6. farSent' = farSent /\ farSent >= 1 /\ farSent' \in 0..Len(load.up)
    BY <1>1, <1>5, <2>1
  <2> QED BY <2>3, <2>4, <2>5, <2>6 DEF byte, e
<1>6. CASE farBits = <<>> /\ bit = 1 /\ farBits' = farBits /\ farSent' = farSent
  <2>1. bit \in Bit
    BY <1>6 DEF Bit
  <2>2. ASSUME inStep
        PROVE  Hunting(e)
    <3>1. d.state = "hunt" /\ d.prev = 1
      BY <1>3, <1>6, <2>2 DEF Hunting
    <3>2. e.prev = 1 /\ (d.state = "hunt" => e.state = IF d.prev = 1 /\ bit = 0 THEN "data" ELSE "hunt")
      BY <1>1, <1>6, <2>1, BitDoes DEF d, e
    <3>3. e.state = "hunt"
      BY <1>6, <3>1, <3>2
    <3> QED BY <3>2, <3>3 DEF Hunting
  <2> QED BY <1>1, <1>6, <2>1, <2>2 DEF e
<1>7. CASE /\ farBits = <<>> /\ farSent < Len(load.up) /\ bit = 0 /\ farSent' = farSent + 1
           /\ farBits' = Tail(Frame(load.up[farSent']))
  <2> DEFINE byte == load.up[farSent']
  <2>1. farSent' \in 1..Len(load.up) /\ byte \in Byte /\ farBits' = Tail(Frame(byte))
    BY <1>1, <1>7
  <2> HIDE DEF byte
  <2>2. Frame(byte) \in Seq(Bit) /\ Len(Frame(byte)) = FrameBits /\ Frame(byte)[1] = 0
    BY <2>1, FrameIs
  <2>3. /\ farBits' \in Seq(Bit) /\ Len(farBits') = FrameBits - 1 /\ farBits' # <<>>
        /\ \A i \in 1..FrameBits - 1 : farBits'[i] = Frame(byte)[i + 1]
    <3> DEFINE f == Frame(byte)
    <3>1. f \in Seq(Bit) /\ Len(f) = FrameBits
      BY <2>2
    <3> HIDE DEF f
    <3>2. /\ Tail(f) \in Seq(Bit) /\ Len(Tail(f)) = FrameBits - 1
          /\ \A i \in 1..FrameBits - 1 : Tail(f)[i] = f[i + 1]
      <4>1. f # <<>>
        BY <1>4, <3>1
      <4>2. Tail(f) \in Seq(Bit) /\ Len(Tail(f)) = Len(f) - 1
            /\ \A i \in 1..Len(f) - 1 : Tail(f)[i] = f[i + 1]
        BY <3>1, <4>1
      <4> QED BY <3>1, <4>2
    <3>3. farBits' \in Seq(Bit) /\ Len(farBits') = FrameBits - 1
          /\ \A i \in 1..FrameBits - 1 : farBits'[i] = Frame(byte)[i + 1]
      BY <2>1, <3>2 DEF f
    <3>4. Len(<<>>) = 0 /\ FrameBits - 1 # 0
      BY <1>4
    <3>5. farBits' # <<>>
      BY <3>3, <3>4
    <3> QED BY <3>3, <3>5
  <2>4. RestOf(farBits', byte)
    <3>1. ASSUME NEW i \in 1..Len(farBits')
          PROVE  farBits'[i] = Frame(byte)[FrameBits - Len(farBits') + i]
      <4>1. FrameBits - (FrameBits - 1) + i = i + 1 /\ i \in 1..FrameBits - 1
        BY <1>4, <2>3
      <4> QED BY <2>3, <4>1
    <3>2. Len(farBits') <= FrameBits - 1
      BY <1>4, <2>3
    <3> QED BY <2>3, <3>1, <3>2 DEF RestOf
  <2>5. bit \in Bit
    BY <1>7 DEF Bit
  <2>6. ASSUME inStep
        PROVE  At(e, byte, FrameBits - Len(farBits'))
    <3>1. At(d, byte, 0)
      BY <1>3, <1>4, <1>7, <2>6, Sizes DEF At
    <3>2. 0 \in 0..FrameBits - 1 /\ 0 < FrameBits - 1 /\ bit = Frame(byte)[0 + 1]
      BY <1>4, <1>7, <2>2
    <3>3. At(e, byte, 0 + 1)
      BY <1>1, <2>1, <3>1, <3>2, AtNext DEF d, e
    <3>4. FrameBits - Len(farBits') = 0 + 1
      BY <1>4, <2>3
    <3> QED BY <3>3, <3>4
  <2>7. farSent' \in 0..Len(load.up) /\ farSent' >= 1
    BY <2>1
  <2> QED BY <2>3, <2>4, <2>5, <2>6, <2>7 DEF byte, e
<1>8. \/ farBits # <<>> /\ bit = Head(farBits) /\ farBits' = Tail(farBits) /\ farSent' = farSent
      \/ farBits = <<>> /\ bit = 1 /\ farBits' = farBits /\ farSent' = farSent
      \/ /\ farBits = <<>> /\ farSent < Len(load.up) /\ bit = 0 /\ farSent' = farSent + 1
         /\ farBits' = Tail(Frame(load.up[farSent']))
  BY DEF FarBit
<1> QED BY <1>5, <1>6, <1>7, <1>8

\* A bit of data mode, as the far end sent it or turned over.
LEMMA DataBitKeeps ==
  ASSUME IInv, DataBit
  PROVE  IInv'
<1>1. PICK bit \in Bit, turned \in Bit :
        /\ turned <= noise /\ FarBit(bit) /\ PutBit((bit + turned) % 2) /\ noise' = noise - turned
        /\ inStep' = IF turned = 1 THEN FALSE
                     ELSE inStep \/ (farBits' = <<>> /\ quiet' >= DataBits + 1)
  BY DEF DataBit
<1>2. /\ UNCHANGED <<load, pc, phase, txbits, fromPppd, pppdSent, far, accepted, ppy_out, toPppd,
                     pppdGot, ppp_fd, pppdEnd>>
      /\ pc = "rx" /\ left > 0 /\ phase = "DATA" /\ left' = left - 1
  BY DEF DataBit, txVars, fdVars
<1> DEFINE v == (bit + turned) % 2
<1>3. v \in Bit /\ (turned = 0 => v = bit)
  <2>1. bit + turned \in 0..2
    BY DEF Bit
  <2>2. v \in 0..1 /\ 0..1 = {0, 1}
    <3>1. \A k \in 0..2 : k % 2 \in 0..1
      OBVIOUS
    <3> QED BY <2>1, <3>1
  <2>3. turned = 0 => v = bit
    <3>1. 0 % 2 = 0 /\ 1 % 2 = 1 /\ 0 + 0 = 0 /\ 1 + 0 = 1
      OBVIOUS
    <3> QED BY <3>1 DEF Bit
  <2> QED BY <2>2, <2>3 DEF Bit
<1> HIDE DEF v
<1>4. PutBit(v)
  BY <1>1 DEF v
<1>5. /\ deframer' = DeframerBit(deframer, v) /\ Shape(deframer')
      /\ decoded' \in Seq(Byte) /\ quiet' \in 0..FrameBits /\ loss' = loss
      /\ quiet' >= DataBits + 1 => Hunting(deframer')
      /\ RxBound' /\ EchoBound' /\ RxOrder' /\ Quiet'
  BY <1>2, <1>3, <1>4, BitPut
<1>6. /\ farBits' \in Seq(Bit) /\ farSent' \in 0..Len(load.up)
      /\ farBits' # <<>> => farSent' >= 1 /\ RestOf(farBits', load.up[farSent'])
      /\ inStep /\ deframer' = DeframerBit(deframer, bit) =>
            IF farBits' = <<>> THEN Hunting(deframer')
            ELSE At(deframer', load.up[farSent'], FrameBits - Len(farBits'))
  BY <1>1, <1>2, BitOfFar
<1>7. Types'
  <2>1. left' \in 0..MsgBits
    BY <1>2, Bounds
  <2>2. noise' \in 0..load.noise
    <3>1. noise \in 0..load.noise /\ load.noise \in Nat
      BY More DEF IInv, Types
    <3> QED BY <1>1, <3>1 DEF Bit
  <2>3. inStep' \in BOOLEAN
    <3>1. inStep \in BOOLEAN
      BY DEF IInv, Types
    <3> DEFINE q == farBits' = <<>> /\ quiet' >= DataBits + 1
    <3>2. inStep' = IF turned = 1 THEN FALSE ELSE inStep \/ q
      BY <1>1
    <3> HIDE DEF q
    <3> QED BY <3>1, <3>2, Zenon
  <2> QED BY <1>2, <1>5, <1>6, <2>1, <2>2, <2>3 DEF IInv, Types
<1>8. Streams'
  BY <1>2, <1>5, <1>6 DEF IInv, Streams
<1>9. TxPath' /\ FromPppd'
  <2>1. Retrained' = Retrained
    BY <1>5 DEF Retrained
  <2> QED BY <1>2, <1>5, <2>1, TxPathSame, FromPppdSame DEF IInv
<1>10. Fresh'
  BY <1>2 DEF Fresh
<1>11. InFrame'
  <2>1. farBits' # <<>> => /\ farSent' >= 1 /\ Len(farBits') <= FrameBits - 1
                           /\ \A i \in 1..Len(farBits') :
                                 farBits'[i] = Frame(load'.up[farSent'])[FrameBits - Len(farBits') + i]
    BY <1>2, <1>6 DEF RestOf
  <2>2. ASSUME inStep'
        PROVE  IF farBits' = <<>> THEN Hunting(deframer')
               ELSE At(deframer', load.up[farSent'], FrameBits - Len(farBits'))
    <3>1. turned = 0 /\ (inStep \/ (farBits' = <<>> /\ quiet' >= DataBits + 1))
      <4>1. turned # 1
        BY <1>1, <2>2
      <4> QED BY <1>1, <2>2, <4>1 DEF Bit
    <3>2. CASE inStep
      BY <1>3, <1>5, <1>6, <3>1, <3>2
    <3>3. CASE farBits' = <<>> /\ quiet' >= DataBits + 1
      BY <1>5, <3>3
    <3> QED BY <3>1, <3>2, <3>3
  <2> QED BY <1>2, <2>1, <2>2 DEF InFrame
<1> QED BY <1>5, <1>7, <1>8, <1>9, <1>10, <1>11 DEF IInv

\* What fits of a sequence, and what is left of it.
LEMMA FittingIs ==
  ASSUME NEW S, NEW s \in Seq(S), NEW n \in Nat
  PROVE  /\ Fitting(s, n) \in Seq(S) /\ Len(Fitting(s, n)) = IF Len(s) < n THEN Len(s) ELSE n
         /\ Len(s) <= n => Fitting(s, n) = s
         /\ SubSeq(s, Len(Fitting(s, n)) + 1, Len(s)) \in Seq(S)
         /\ Len(SubSeq(s, Len(Fitting(s, n)) + 1, Len(s))) = Len(s) - Len(Fitting(s, n))
         /\ Fitting(s, n) \o SubSeq(s, Len(Fitting(s, n)) + 1, Len(s)) = s
<1> DEFINE k == IF Len(s) < n THEN Len(s) ELSE n
           f == SubSeq(s, 1, k)   r == SubSeq(s, k + 1, Len(s))
<1>1. Fitting(s, n) = f
  BY DEF Fitting
<1>2. k \in 0..Len(s) /\ Len(s) \in Nat /\ (Len(s) <= n => k = Len(s))
  OBVIOUS
<1> HIDE DEF k
<1>3. f \in Seq(S) /\ Len(f) = k /\ r \in Seq(S) /\ Len(r) = Len(s) - k
  BY <1>2
<1>4. k = Len(s) => f = s
  OBVIOUS
<1>5. f \o r = s
  <2>1. \A i \in 1..k : f[i] = s[i]
    BY <1>2
  <2>2. \A i \in 1..Len(s) - k : r[i] = s[k + i]
    BY <1>2
  <2> HIDE DEF f, r
  <2>3. /\ f \o r \in Seq(S) /\ Len(f \o r) = Len(s)
        /\ \A i \in 1..k : (f \o r)[i] = f[i]
        /\ \A i \in 1..Len(s) - k : (f \o r)[k + i] = r[i]
    BY <1>2, <1>3, Joined
  <2>4. ASSUME NEW i \in 1..Len(s)
        PROVE  (f \o r)[i] = s[i]
    <3>1. CASE i <= k
      <4>1. i \in 1..k
        BY <1>2, <3>1
      <4> QED BY <2>1, <2>3, <4>1
    <3>2. CASE i > k
      <4> DEFINE j == i - k
      <4>1. j \in 1..Len(s) - k /\ k + j = i
        BY <1>2, <3>2
      <4> HIDE DEF j
      <4>2. r[j] = s[k + j] /\ (f \o r)[k + j] = r[j]
        BY <2>2, <2>3, <4>1
      <4>3. k + j = i
        BY <4>1
      <4> QED BY <4>2, <4>3, Zenon
    <3>3. i <= k \/ i > k
      BY <1>2
    <3> QED BY <3>1, <3>2, <3>3, Zenon
  <2> QED BY <2>3, <2>4, SameSeq
<1>6. Len(Fitting(s, n)) = k
  BY <1>1, <1>3
<1>7. SubSeq(s, Len(Fitting(s, n)) + 1, Len(s)) = r
  BY <1>6
<1>8. k = IF Len(s) < n THEN Len(s) ELSE n
  BY DEF k
<1>9. Len(s) <= n => Fitting(s, n) = s
  BY <1>1, <1>2, <1>4
<1> HIDE DEF f, r
<1> QED BY <1>1, <1>3, <1>5, <1>6, <1>7, <1>8, <1>9

\* Bytes that are sent are framed behind the others until one does not fit; none
\* is left out while there is room for all.
LEMMA Sends ==
  ASSUME IInv, NEW bytes \in Seq(Byte), Send(bytes), far' = far, Retrained' = Retrained
  PROVE  /\ TxPath' /\ accepted' \in Seq(Byte)
         /\ \E framed \in Seq(Byte) :
               /\ accepted' = accepted \o framed
               /\ Len(accepted') = Len(accepted) + Len(framed)
               /\ Len(framed) <= Len(bytes) /\ (Len(framed) = Len(bytes) => framed = bytes)
               /\ BitqCount(txbits') = BitqCount(txbits) + FrameBits * Len(framed)
               /\ FrameBits * Len(framed) \in Nat /\ FrameBits * Len(bytes) \in Nat
               /\ FrameBits * Len(framed) <= FrameBits * Len(bytes)
               /\ BitqCount(txbits) + FrameBits * Len(bytes) <= QueueSize => framed = bytes
<1> DEFINE room == BitqRoom(txbits)   framed == Fitting(bytes, room)
           free == QueueSize - BitqCount(txbits)
<1>1. /\ Streams /\ TxPath /\ BitqCount(txbits) \in 0..QueueSize /\ Sent \in Nat
      /\ accepted \in Seq(Byte)
      /\ Len(Frames(accepted)) = Sent + BitqCount(txbits)
      /\ FrameBits * Len(accepted) = Sent + BitqCount(txbits)
  BY QueueIs DEF IInv, Streams
<1>2. txbits' = BitqPush(txbits, Frames(framed)) /\ accepted' = accepted \o framed
  BY DEF Send
<1>3. room \in Nat /\ FrameBits * room <= free /\ free < FrameBits * room + FrameBits /\ free \in Nat
  <2>1. free \in Nat
    BY <1>1, Sizes
  <2>2. room = free \div FrameBits
    BY DEF BitqRoom, BitqFree
  <2> HIDE DEF room, free
  <2>3. free \div FrameBits \in Int /\ free % FrameBits \in 0..FrameBits - 1
        /\ free = FrameBits * (free \div FrameBits) + (free % FrameBits)
    <3>1. free \in Int
      BY <2>1
    <3> QED BY <3>1, DivFrame
  <2>4. room \in Int /\ FrameBits * room <= free /\ free < FrameBits * room + FrameBits
    <3> DEFINE m == FrameBits * room  c == free % FrameBits
    <3>1. m \in Int /\ room \in Int /\ c \in 0..FrameBits - 1
      BY <2>2, <2>3, Sizes
    <3>2. free = m + c
      BY <2>2, <2>3
    <3> HIDE DEF m, c
    <3>3. m <= free /\ free < m + FrameBits
      BY <3>1, <3>2, Sizes
    <3> QED BY <3>1, <3>3 DEF m
  <2>5. room >= 0
    <3>1. CASE room <= -1
      <4>1. FrameBits * room <= FrameBits * (-1) /\ FrameBits * (-1) = -FrameBits
        BY <2>4, <3>1, Sizes
      <4>2. FrameBits * room \in Int
        BY <2>4, Sizes
      <4> QED BY <2>1, <2>4, <4>1, <4>2, Sizes
    <3> QED BY <2>4, <3>1
  <2> QED BY <2>1, <2>4, <2>5
<1> HIDE DEF room
<1>4. /\ framed \in Seq(Byte) /\ Len(framed) = IF Len(bytes) < room THEN Len(bytes) ELSE room
      /\ Len(bytes) <= room => framed = bytes
  BY <1>3, FittingIs
<1> HIDE DEF framed, free
<1>5. Len(framed) \in Nat /\ Len(bytes) \in Nat /\ Len(framed) <= room /\ Len(framed) <= Len(bytes)
      /\ (Len(framed) = Len(bytes) => framed = bytes)
  BY <1>3, <1>4
<1>6. \A a \in Nat, b \in Nat : a <= b => FrameBits * a <= FrameBits * b /\ FrameBits * a \in Nat
                                          /\ FrameBits * b \in Nat
  BY Sizes
<1>7. /\ FrameBits * Len(framed) \in Nat /\ FrameBits * Len(bytes) \in Nat
      /\ FrameBits * Len(framed) <= FrameBits * Len(bytes)
      /\ FrameBits * Len(framed) <= free
  <2>1. FrameBits * Len(framed) <= FrameBits * room /\ FrameBits * Len(framed) \in Nat
        /\ FrameBits * room \in Nat
    BY <1>3, <1>5, <1>6
  <2>2. FrameBits * Len(framed) <= FrameBits * Len(bytes) /\ FrameBits * Len(bytes) \in Nat
    BY <1>5, <1>6
  <2> QED BY <1>3, <2>1, <2>2
<1>8. BitqCount(txbits) + FrameBits * Len(bytes) <= QueueSize => framed = bytes
  <2> SUFFICES ASSUME BitqCount(txbits) + FrameBits * Len(bytes) <= QueueSize, Len(bytes) > room
               PROVE  FALSE
    BY <1>3, <1>4, <1>5
  <2>1. FrameBits * Len(bytes) <= free
    BY <1>1, <1>7, Sizes DEF free
  <2>2. room + 1 \in Nat /\ room + 1 <= Len(bytes) /\ FrameBits * (room + 1) = FrameBits * room + FrameBits
    BY <1>3, <1>5, Sizes
  <2>3. FrameBits * (room + 1) <= FrameBits * Len(bytes)
    BY <1>5, <1>6, <2>2
  <2>4. FrameBits * room \in Nat
    BY <1>3, Sizes
  <2> QED BY <1>3, <1>7, <2>1, <2>2, <2>3, <2>4, Sizes
<1>9. Frames(accepted \o framed) = Frames(accepted) \o Frames(framed)
      /\ Frames(framed) \in Seq(Bit) /\ Len(Frames(framed)) = FrameBits * Len(framed)
  BY <1>1, <1>4, FramesPlus, FramesAre
<1>10. Holds(txbits', Frames(accepted'), Sent)
  <2> DEFINE s == Frames(accepted)  b == Frames(framed)  p == Sent
  <2>1. Holds(txbits, s, p)
    BY <1>1 DEF TxPath
  <2>2. Len(s) - p + Len(b) <= QueueSize
    BY <1>1, <1>7, <1>9, Sizes DEF free
  <2>3. b \in Seq(Bit)
    BY <1>9
  <2> HIDE DEF s, b, p
  <2>4. Holds(BitqPush(txbits, b), s \o b, p)
    BY <2>1, <2>2, <2>3, PushHolds
  <2> QED BY <1>2, <1>9, <2>4 DEF s, b, p
<1>11. accepted' \in Seq(Byte) /\ Len(accepted') = Len(accepted) + Len(framed) /\ Len(accepted) \in Nat
  <2>1. accepted \o framed \in Seq(Byte) /\ Len(accepted \o framed) = Len(accepted) + Len(framed)
    BY <1>1, <1>4, Joined
  <2> QED BY <1>1, <1>2, <2>1
<1>12. FrameBits * Len(accepted') = FrameBits * Len(accepted) + FrameBits * Len(framed)
  <2> DEFINE a == Len(accepted)  b == Len(framed)
  <2>1. a \in Nat /\ b \in Nat
    BY <1>5, <1>11
  <2> HIDE DEF a, b
  <2>2. FrameBits * (a + b) = FrameBits * a + FrameBits * b
    BY <2>1, Sizes
  <2> QED BY <1>11, <2>2 DEF a, b
<1>13. BitqCount(txbits') = BitqCount(txbits) + FrameBits * Len(framed)
  <2> DEFINE s2 == Frames(accepted')  p == Sent
  <2>1. Holds(txbits', s2, p)
    BY <1>10
  <2> HIDE DEF s2, p
  <2>2. BitqCount(txbits') = Len(s2) - p
    BY <2>1, CountIs
  <2>3. Len(s2) = FrameBits * Len(accepted')
    BY <1>11, FramesAre DEF s2
  <2> QED BY <1>1, <1>7, <1>12, <2>2, <2>3 DEF p
<1>14. Sent' = Sent
  <2>1. Sent' = FrameBits * Len(accepted') - BitqCount(txbits')
    BY DEF Sent
  <2> QED BY <1>1, <1>7, <1>12, <1>13, <2>1
<1>15. TxPath'
  <2>1. ~Retrained' => FarHas(far', accepted', Sent')
    <3> SUFFICES ASSUME ~Retrained
                 PROVE  FarHas(far, accepted \o framed, Sent)
      BY <1>2, <1>14
    <3> DEFINE p == Sent
    <3>1. FarHas(far, accepted, p)
      BY <1>1 DEF TxPath
    <3> HIDE DEF p
    <3>2. FarHas(far, accepted \o framed, p)
      BY <1>1, <1>4, <3>1, FarMore
    <3> QED BY <3>2 DEF p
  <2>2. FrameBits * Len(far'.got) <= Sent'
    BY <1>1, <1>14 DEF TxPath
  <2>3. Heard(far'.d) > 0 => \/ FrameBits * Len(far'.got) + Heard(far'.d) <= Sent'
                             \/ FrameBits * Len(far'.got) + FrameBits <= Sent'
    BY <1>1, <1>14 DEF TxPath
  <2> QED BY <1>10, <1>14, <2>1, <2>2, <2>3 DEF TxPath
<1> QED BY <1>2, <1>4, <1>5, <1>7, <1>8, <1>11, <1>13, <1>15

\* pump_ppp takes all that the deframer has completed.
LEMMA TakesAll ==
  ASSUME IInv
  PROVE  /\ DeframerTake(deframer, Chunk).d = [deframer EXCEPT !.out = <<>>]
         /\ DeframerTake(deframer, Chunk).bytes = deframer.out
<1> DEFINE out == deframer.out
           k == IF Chunk < Len(out) THEN Chunk ELSE Len(out)
<1>1. out \in Seq(Byte) /\ Len(out) <= Chunk /\ Chunk \in Nat /\ Len(out) \in Nat
  BY RoomInOut, Lengths, More DEF IInv
<1>2. k = Len(out)
  BY <1>1
<1>3. SubSeq(out, Len(out) + 1, Len(out)) = <<>> /\ SubSeq(out, 1, Len(out)) = out
  BY <1>1
<1>4. DeframerTake(deframer, Chunk) = [d |-> [deframer EXCEPT !.out = SubSeq(@, k + 1, Len(@))],
                                       bytes |-> SubSeq(out, 1, k)]
  BY DEF DeframerTake
<1>5. [deframer EXCEPT !.out = SubSeq(@, k + 1, Len(@))] = [deframer EXCEPT !.out = <<>>]
  BY <1>2, <1>3
<1>6. SubSeq(out, 1, k) = out
  BY <1>2, <1>3
<1> QED BY <1>4, <1>5, <1>6

\* The receiver after a pump: its place in the frame is what it was, and what it
\* had completed is gone.
LEMMA PumpTakes ==
  ASSUME IInv, pc' = "read",
         UNCHANGED <<load, phase, left, farBits, farSent, quiet, inStep, decoded>>,
         \/ phase = "DATA" /\ deframer' = [deframer EXCEPT !.out = <<>>]
         \/ phase = "HANDSHAKE" /\ deframer' = deframer,
         "flush" \in loss' => "flush" \in loss, Retrained' = Retrained
  PROVE  /\ Shape(deframer') /\ deframer'.out = <<>> /\ Heard(deframer') = Heard(deframer)
         /\ Fresh' /\ RxBound' /\ Quiet' /\ InFrame'
<1>1. Shape(deframer)
  BY DEF IInv, Streams
<1>2. /\ Shape(deframer') /\ deframer'.out = <<>> /\ Heard(deframer') = Heard(deframer)
      /\ deframer'.state = deframer.state /\ deframer'.byte = deframer.byte
      /\ deframer'.prev = deframer.prev
      /\ \A byte, r : At(deframer', byte, r) <=> At(deframer, byte, r)
  <2>1. CASE phase = "DATA" /\ deframer' = [deframer EXCEPT !.out = <<>>]
    BY <1>1, <2>1, Emptied
  <2>2. CASE phase = "HANDSHAKE" /\ deframer' = deframer
    <3>1. deframer.out = <<>>
      BY <2>2, InitShape DEF IInv, Fresh
    <3> QED BY <1>1, <2>2, <3>1
  <2> QED BY <2>1, <2>2
<1>3. Fresh'
  BY DEF IInv, Fresh
<1>4. RxBound'
  <2>1. FrameBits * Len(deframer'.out) = 0
    <3>1. Len(<<>>) = 0 /\ FrameBits * 0 = 0
      BY Sizes
    <3> QED BY <1>2, <3>1
  <2>2. FrameBits * Len(deframer'.out) + Heard(deframer')
          <= FrameBits - 1 + MsgBits - (IF pc' = "rx" THEN left' ELSE 0)
    BY <1>2, <2>1, Bounds
  <2>3. "flush" \notin loss'
    BY DEF IInv, RxBound
  <2> QED BY <1>2, <2>2, <2>3 DEF RxBound
<1>5. Quiet'
  BY <1>2 DEF IInv, Quiet
<1>6. InFrame'
  <2>1. farBits' # <<>> => /\ farSent' >= 1 /\ Len(farBits') <= FrameBits - 1
                           /\ \A i \in 1..Len(farBits') :
                                 farBits'[i] = Frame(load'.up[farSent'])[FrameBits - Len(farBits') + i]
    BY DEF IInv, InFrame
  <2>2. Hunting(deframer') <=> Hunting(deframer)
    BY <1>2 DEF Hunting
  <2>3. inStep' => IF farBits' = <<>> THEN Hunting(deframer')
                   ELSE At(deframer', load'.up[farSent'], FrameBits - Len(farBits'))
    BY <1>2, <2>2 DEF IInv, InFrame
  <2> QED BY <2>1, <2>3 DEF InFrame
<1> QED BY <1>2, <1>3, <1>4, <1>5, <1>6

\* Echoing, all that came is sent back.
LEMMA PumpEchoKeeps ==
  ASSUME IInv, PumpEcho
  PROVE  IInv'
<1>1. /\ UNCHANGED <<load, phase, left, fromPppd, pppdSent, far, ppy_out, toPppd, pppdGot,
                     farBits, farSent, noise, quiet, inStep, decoded, ppp_fd, pppdEnd>>
      /\ pc = "pump" /\ load.echo /\ pc' = "read"
  BY DEF PumpEcho, fdVars
<1>2. phase \in {"HANDSHAKE", "DATA"} /\ deframer.out \in Seq(Byte) /\ accepted \in Seq(Byte)
  BY Lengths DEF IInv, Types, Streams
<1>3. CASE phase = "HANDSHAKE"
  <2>1. UNCHANGED <<deframer, txbits, accepted, loss>>
    BY <1>3 DEF PumpEcho
  <2>2. Retrained' = Retrained
    BY <2>1 DEF Retrained
  <2>3. Fresh' /\ RxBound' /\ Quiet' /\ InFrame' /\ deframer'.out = <<>>
    BY <1>1, <1>3, <2>1, <2>2, PumpTakes
  <2>4. TxPath' /\ FromPppd' /\ RxOrder' /\ Streams'
    BY <1>1, <2>1, <2>2, TxPathSame, FromPppdSame, RxOrderSame, StreamsSame DEF IInv
  <2>5. Types'
    BY <1>1, <2>1 DEF IInv, Types
  <2>6. EchoBound'
    <3> SUFFICES ASSUME load.echo, ~Retrained
                 PROVE  BitqCount(txbits) + FrameBits * Len(deframer.out) + Heard(deframer)
                          <= FrameBits - 1 + MsgBits
      BY <1>1, <2>1, <2>2 DEF EchoBound
    <3> QED BY <1>1 DEF IInv, EchoBound
  <2> QED BY <2>3, <2>4, <2>5, <2>6 DEF IInv
<1>4. CASE phase = "DATA"
  <2> DEFINE out == deframer.out
  <2>1. /\ deframer' = [deframer EXCEPT !.out = <<>>] /\ Send(out)
        /\ \E lost : loss' = loss \cup LostIf(lost, "queue")
    BY <1>4, TakesAll DEF PumpEcho
  <2>2. loss' \subseteq loss \cup {"queue"} /\ loss \subseteq loss'
    BY <2>1 DEF LostIf
  <2>3. Retrained' = Retrained /\ ("flush" \in loss' => "flush" \in loss)
    BY <2>2 DEF Retrained
  <2>4. /\ Shape(deframer') /\ deframer'.out = <<>> /\ Heard(deframer') = Heard(deframer)
        /\ Fresh' /\ RxBound' /\ Quiet' /\ InFrame'
    BY <1>1, <1>4, <2>1, <2>3, PumpTakes
  <2> HIDE DEF out
  <2>5. /\ TxPath' /\ accepted' \in Seq(Byte)
        /\ \E framed \in Seq(Byte) :
              /\ accepted' = accepted \o framed
              /\ BitqCount(txbits') = BitqCount(txbits) + FrameBits * Len(framed)
              /\ FrameBits * Len(framed) \in Nat /\ FrameBits * Len(out) \in Nat
              /\ FrameBits * Len(framed) <= FrameBits * Len(out)
              /\ BitqCount(txbits) + FrameBits * Len(out) <= QueueSize => framed = out
    BY <1>1, <1>2, <2>1, <2>3, Sends DEF out
  <2>6. PICK framed \in Seq(Byte) :
              /\ accepted' = accepted \o framed
              /\ BitqCount(txbits') = BitqCount(txbits) + FrameBits * Len(framed)
              /\ FrameBits * Len(framed) \in Nat /\ FrameBits * Len(out) \in Nat
              /\ FrameBits * Len(framed) <= FrameBits * Len(out)
              /\ BitqCount(txbits) + FrameBits * Len(out) <= QueueSize => framed = out
    BY <2>5
  <2> DEFINE c == BitqCount(txbits)  o == FrameBits * Len(out)  h == Heard(deframer)
             f == FrameBits * Len(framed)
  <2>7. ~Retrained => c + o + h <= FrameBits - 1 + MsgBits
    BY <1>1 DEF IInv, EchoBound, out
  <2>8. /\ c \in Nat /\ o \in Nat /\ h \in Nat /\ f \in Nat /\ f <= o /\ FrameBits \in Nat \ {0}
        /\ MsgBits \in Nat /\ MsgBits + FrameBits <= QueueSize /\ QueueSize \in Nat
    BY <2>6, Bounds, More, Sizes
  <2>9. ~Retrained => c + o <= QueueSize
    <3> HIDE DEF c, o, h
    <3> QED BY <2>7, <2>8
  <2>10. EchoBound'
    <3> SUFFICES ASSUME ~Retrained
                 PROVE  BitqCount(txbits') + FrameBits * Len(deframer'.out) + Heard(deframer')
                          <= FrameBits - 1 + MsgBits
      BY <1>1, <2>3 DEF EchoBound
    <3>1. FrameBits * Len(deframer'.out) = 0
      <4>1. Len(<<>>) = 0 /\ FrameBits * 0 = 0
        BY Sizes
      <4> QED BY <2>4, <4>1
    <3>2. BitqCount(txbits') = c + f /\ Heard(deframer') = h
      BY <2>4, <2>6
    <3>3. c + o + h <= FrameBits - 1 + MsgBits
      BY <2>7
    <3> HIDE DEF c, o, h, f
    <3>4. (c + f) + 0 + h <= FrameBits - 1 + MsgBits
      BY <2>8, <3>3
    <3> QED BY <3>1, <3>2, <3>4
  <2>11. RxOrder'
    <3> SUFFICES ASSUME ~Retrained
                 PROVE  accepted' \o deframer'.out = decoded
      BY <1>1, <2>3 DEF RxOrder
    <3>1. accepted' = accepted \o out
      BY <2>6, <2>9
    <3>2. accepted \o out = decoded
      BY <1>1 DEF IInv, RxOrder, out
    <3> QED BY <2>4, <2>5, <3>1, <3>2
  <2>12. FromPppd'
    BY <1>1 DEF FromPppd
  <2>13. Streams'
    BY <1>1, <2>4, <2>5 DEF IInv, Streams
  <2>14. Types'
    <3>1. loss' \subseteq Losses
      BY <2>2 DEF IInv, Types, Losses
    <3> QED BY <1>1, <3>1 DEF IInv, Types
  <2> QED BY <2>4, <2>5, <2>10, <2>11, <2>12, <2>13, <2>14 DEF IInv
<1> QED BY <1>2, <1>3, <1>4

\* Joining sequences, the grouping does not matter.
LEMMA Regroup ==
  ASSUME NEW s \in Seq(Byte), NEW t \in Seq(Byte), NEW u \in Seq(Byte)
  PROVE  (s \o t) \o u = s \o (t \o u)
  OBVIOUS

\* What goes up to pppd: what is staged, what the socket takes of it and what is
\* left are the bytes there were, in order, but for those there was no room for.
LEMMA UpstreamDoes ==
  ASSUME IInv, Upstream, phase = "DATA"
  PROVE  /\ deframer' = [deframer EXCEPT !.out = <<>>]
         /\ toPppd' \in Seq(Byte) /\ Len(toPppd') <= SockSize
         /\ ppy_out' \in Seq(Byte) /\ Len(ppy_out') <= PpySize
         /\ \E fit \in Seq(Byte), rest \in Seq(Byte) :
               /\ deframer.out = fit \o rest
               /\ toPppd' \o ppy_out' = toPppd \o ppy_out \o fit
               /\ Len(ppy_out) + Len(deframer.out) <= PpySize => rest = <<>>
<1> DEFINE out == deframer.out
           space == PpySize - Len(ppy_out)
           fit == Fitting(out, space)
           rest == SubSeq(out, Len(fit) + 1, Len(out))
           staged == ppy_out \o fit
           room == IF ppp_fd = "gone" \/ pppdEnd THEN 0 ELSE SockSize - Len(toPppd)
           wrote == Fitting(staged, room)
           after == SubSeq(staged, Len(wrote) + 1, Len(staged))
<1>1. /\ ppy_out \in Seq(Byte) /\ toPppd \in Seq(Byte) /\ out \in Seq(Byte)
      /\ Len(ppy_out) <= PpySize /\ Len(toPppd) <= SockSize
      /\ PpySize \in Nat /\ SockSize \in Nat /\ Len(ppy_out) \in Nat /\ Len(toPppd) \in Nat
      /\ Len(out) \in Nat
  BY Lengths, More DEF IInv, Streams
<1>2. /\ deframer' = [deframer EXCEPT !.out = <<>>]
      /\ toPppd' = toPppd \o wrote /\ ppy_out' = after
  <2>1. Taken.d = [deframer EXCEPT !.out = <<>>] /\ Taken.bytes = out
    BY TakesAll DEF Taken
  <2> HIDE DEF out
  <2> QED BY <2>1 DEF Upstream, Unwritten
<1>3. space \in Nat /\ room \in Nat /\ room <= SockSize - Len(toPppd)
  BY <1>1
<1> HIDE DEF out, space, room
<1>4. /\ fit \in Seq(Byte) /\ Len(fit) = IF Len(out) < space THEN Len(out) ELSE space
      /\ Len(out) <= space => fit = out
      /\ rest \in Seq(Byte) /\ Len(rest) = Len(out) - Len(fit) /\ fit \o rest = out
  BY <1>1, <1>3, FittingIs
<1> HIDE DEF fit, rest
<1>5. Len(fit) \in Nat /\ Len(fit) <= space
  BY <1>1, <1>3, <1>4
<1>6. staged \in Seq(Byte) /\ Len(staged) = Len(ppy_out) + Len(fit) /\ Len(staged) \in Nat
  <2>1. ppy_out \in Seq(Byte) /\ fit \in Seq(Byte)
    BY <1>1, <1>4
  <2>2. ppy_out \o fit \in Seq(Byte) /\ Len(ppy_out \o fit) = Len(ppy_out) + Len(fit)
    BY <2>1, Joined
  <2> QED BY <1>1, <1>5, <2>2
<1> HIDE DEF staged
<1>7. /\ wrote \in Seq(Byte) /\ Len(wrote) = IF Len(staged) < room THEN Len(staged) ELSE room
      /\ after \in Seq(Byte) /\ Len(after) = Len(staged) - Len(wrote) /\ wrote \o after = staged
  BY <1>3, <1>6, FittingIs
<1> HIDE DEF wrote, after
<1>8. Len(wrote) \in Nat /\ Len(wrote) <= room
  BY <1>3, <1>6, <1>7
<1>9. toPppd' \in Seq(Byte) /\ Len(toPppd') <= SockSize
  <2>1. toPppd \o wrote \in Seq(Byte) /\ Len(toPppd \o wrote) = Len(toPppd) + Len(wrote)
    BY <1>1, <1>7, Joined
  <2>2. Len(toPppd) + Len(wrote) <= SockSize
    BY <1>1, <1>3, <1>8
  <2> QED BY <1>2, <2>1, <2>2
<1>10. ppy_out' \in Seq(Byte) /\ Len(ppy_out') <= PpySize
  <2>1. Len(after) <= PpySize
    BY <1>1, <1>5, <1>6, <1>7, <1>8 DEF space
  <2> QED BY <1>2, <1>7, <2>1
<1>11. toPppd' \o ppy_out' = toPppd \o ppy_out \o fit
  <2>1. (toPppd \o wrote) \o after = toPppd \o (wrote \o after)
    <3>1. toPppd \in Seq(Byte) /\ wrote \in Seq(Byte) /\ after \in Seq(Byte)
      BY <1>1, <1>7
    <3> QED BY <3>1, Regroup, Zenon
  <2>2. toPppd \o (ppy_out \o fit) = (toPppd \o ppy_out) \o fit
    <3>1. toPppd \in Seq(Byte) /\ ppy_out \in Seq(Byte) /\ fit \in Seq(Byte)
      BY <1>1, <1>4
    <3> QED BY <3>1, Regroup, Zenon
  <2>3. wrote \o after = ppy_out \o fit
    BY <1>7 DEF staged
  <2> QED BY <1>2, <2>1, <2>2, <2>3, Zenon
<1>12. Len(ppy_out) + Len(out) <= PpySize => rest = <<>>
  <2> SUFFICES ASSUME Len(ppy_out) + Len(out) <= PpySize
               PROVE  rest = <<>>
    OBVIOUS
  <2>1. Len(out) <= space
    BY <1>1 DEF space
  <2>2. Len(rest) = 0
    BY <1>1, <1>4, <2>1
  <2> QED BY <1>4, <2>2
<1> QED BY <1>2, <1>4, <1>9, <1>10, <1>11, <1>12 DEF out

\* What is read from pppd is the beginning of what waits.
LEMMA ReadableIs ==
  ASSUME IInv
  PROVE  /\ Readable \in Seq(Byte) /\ Len(Readable) \in Nat
         /\ SubSeq(fromPppd, Len(Readable) + 1, Len(fromPppd)) \in Seq(Byte)
         /\ Len(SubSeq(fromPppd, Len(Readable) + 1, Len(fromPppd))) = Len(fromPppd) - Len(Readable)
         /\ Readable \o SubSeq(fromPppd, Len(Readable) + 1, Len(fromPppd)) = fromPppd
<1>1. fromPppd \in Seq(Byte) /\ Chunk \in Nat
  BY More DEF IInv, Streams
<1>2. CASE ppp_fd = "gone"
  <2>1. Readable = <<>>
    BY <1>2 DEF Readable
  <2>2. /\ <<>> \in Seq(Byte) /\ Len(<<>>) = 0
        /\ SubSeq(fromPppd, 0 + 1, Len(fromPppd)) = fromPppd /\ <<>> \o fromPppd = fromPppd
    BY <1>1
  <2> QED BY <1>1, <2>1, <2>2
<1>3. CASE ppp_fd # "gone"
  <2>1. Readable = Fitting(fromPppd, Chunk)
    BY <1>3 DEF Readable
  <2> QED BY <1>1, <2>1, FittingIs
<1> QED BY <1>2, <1>3

\* Without echo, pppd gets what came and its bytes are sent.
LEMMA PumpPppKeeps ==
  ASSUME IInv, PumpPpp
  PROVE  IInv'
<1> DEFINE R == Readable
<1>1. /\ UNCHANGED <<load, phase, left, pppdSent, far, pppdGot, farBits, farSent, noise,
                     quiet, inStep, decoded, pppdEnd>>
      /\ pc = "pump" /\ ~load.echo /\ pc' = "read" /\ Upstream /\ Downstream
  BY DEF PumpPpp
<1>2. /\ loss' = loss \cup UpstreamLoss \cup LostIf(Len(accepted') < Len(accepted) + Len(R), "queue")
  BY DEF PumpPpp
<1>3. /\ Send(R) /\ fromPppd' = SubSeq(fromPppd, Len(R) + 1, Len(fromPppd))
      /\ ppp_fd' \in {"none", "open", "gone"}
  BY <1>1 DEF Downstream
<1>4. /\ phase \in {"HANDSHAKE", "DATA"} /\ deframer.out \in Seq(Byte) /\ accepted \in Seq(Byte)
      /\ fromPppd \in Seq(Byte) /\ Len(fromPppd) <= SockSize
      /\ pppdGot \in Seq(Byte) /\ toPppd \in Seq(Byte) /\ ppy_out \in Seq(Byte) /\ decoded \in Seq(Byte)
  BY Lengths DEF IInv, Types, Streams
<1>5. /\ R \in Seq(Byte) /\ Len(R) \in Nat /\ fromPppd' \in Seq(Byte)
      /\ Len(fromPppd') = Len(fromPppd) - Len(R) /\ R \o fromPppd' = fromPppd
  BY <1>3, ReadableIs
<1> HIDE DEF R
<1>6. loss' \subseteq loss \cup {"queue", "full"} /\ loss \subseteq loss'
  BY <1>2 DEF LostIf, UpstreamLoss
<1>7. Retrained' = Retrained /\ ("flush" \in loss' => "flush" \in loss)
  BY <1>6 DEF Retrained
<1>8. /\ toPppd' \in Seq(Byte) /\ Len(toPppd') <= SockSize
      /\ ppy_out' \in Seq(Byte) /\ Len(ppy_out') <= PpySize
      /\ \/ phase = "DATA" /\ deframer' = [deframer EXCEPT !.out = <<>>]
         \/ phase = "HANDSHAKE" /\ deframer' = deframer
  <2>1. CASE phase = "DATA"
    BY <1>1, <2>1, UpstreamDoes
  <2>2. CASE phase = "HANDSHAKE"
    <3>1. UNCHANGED <<deframer, ppy_out, toPppd>>
      BY <1>1, <2>2 DEF Upstream
    <3> QED BY <2>2, <3>1 DEF IInv, Streams
  <2> QED BY <1>4, <2>1, <2>2
<1>9. /\ Shape(deframer') /\ deframer'.out = <<>> /\ Heard(deframer') = Heard(deframer)
      /\ Fresh' /\ RxBound' /\ Quiet' /\ InFrame'
  BY <1>1, <1>7, <1>8, PumpTakes
<1>10. /\ TxPath' /\ accepted' \in Seq(Byte)
       /\ \E framed \in Seq(Byte) :
             /\ accepted' = accepted \o framed
             /\ Len(accepted') = Len(accepted) + Len(framed)
             /\ Len(framed) <= Len(R) /\ (Len(framed) = Len(R) => framed = R)
  BY <1>1, <1>3, <1>5, <1>7, Sends
<1>11. FromPppd'
  <2> SUFFICES ASSUME "queue" \notin loss'
               PROVE  accepted' \o fromPppd' = SubSeq(load.down, 1, pppdSent)
    BY <1>1 DEF FromPppd
  <2>1. "queue" \notin loss /\ accepted \o fromPppd = SubSeq(load.down, 1, pppdSent)
    BY <1>1, <1>6 DEF IInv, FromPppd
  <2>2. ~(Len(accepted') < Len(accepted) + Len(R))
    BY <1>2 DEF LostIf
  <2>3. accepted' = accepted \o R
    <3>1. PICK framed \in Seq(Byte) :
             /\ accepted' = accepted \o framed
             /\ Len(accepted') = Len(accepted) + Len(framed)
             /\ Len(framed) <= Len(R) /\ (Len(framed) = Len(R) => framed = R)
      BY <1>10
    <3>2. Len(framed) \in Nat /\ Len(accepted) \in Nat
      BY <1>4
    <3>3. Len(framed) = Len(R)
      BY <1>5, <2>2, <3>1, <3>2
    <3> QED BY <3>1, <3>3
  <2>4. (accepted \o R) \o fromPppd' = accepted \o (R \o fromPppd')
    <3>1. accepted \in Seq(Byte) /\ R \in Seq(Byte) /\ fromPppd' \in Seq(Byte)
      BY <1>4, <1>5
    <3> QED BY <3>1, Regroup, Zenon
  <2> QED BY <1>5, <2>1, <2>3, <2>4, Zenon
<1>12. EchoBound'
  BY <1>1 DEF EchoBound
<1>12a. /\ (pppdGot \o toPppd) \o ppy_out = pppdGot \o (toPppd \o ppy_out)
       /\ (pppdGot \o toPppd') \o ppy_out' = pppdGot \o (toPppd' \o ppy_out')
  <2>1. \A g, t, u \in Seq(Byte) : (g \o t) \o u = g \o (t \o u)
    BY Regroup, Zenon
  <2>2. pppdGot \in Seq(Byte) /\ toPppd \in Seq(Byte) /\ ppy_out \in Seq(Byte)
    BY <1>4
  <2>3. toPppd' \in Seq(Byte) /\ ppy_out' \in Seq(Byte)
    BY <1>8
  <2>4. (pppdGot \o toPppd) \o ppy_out = pppdGot \o (toPppd \o ppy_out)
    BY <2>2, <2>1, Zenon
  <2>5. (pppdGot \o toPppd') \o ppy_out' = pppdGot \o (toPppd' \o ppy_out')
    BY <2>1, <2>2, <2>3, Zenon
  <2> QED BY <2>4, <2>5, Zenon
<1>13. RxOrder'
  <2> DEFINE held == pppdGot \o toPppd \o ppy_out   held2 == pppdGot \o toPppd' \o ppy_out'
             out == deframer.out
  <2>1. held \in Seq(Byte) /\ held2 \in Seq(Byte) /\ held2 \o <<>> = held2
    BY <1>4, <1>8
  <2>2. /\ loss = {} => held \o out = decoded
        /\ \E e : Embeds(e, held \o out, decoded)
    BY <1>1 DEF IInv, RxOrder
  <2>3. \E fit \in Seq(Byte), rest \in Seq(Byte) :
           out = fit \o rest /\ held2 = held \o fit /\ (loss' = {} => rest = <<>>)
    <3>1. CASE phase = "DATA"
      <4>1. PICK fit \in Seq(Byte), rest \in Seq(Byte) :
               /\ deframer.out = fit \o rest
               /\ toPppd' \o ppy_out' = toPppd \o ppy_out \o fit
               /\ Len(ppy_out) + Len(deframer.out) <= PpySize => rest = <<>>
        BY <1>1, <3>1, UpstreamDoes
      <4>2. loss' = {} => rest = <<>>
        <5> SUFFICES ASSUME loss' = {}
                     PROVE  rest = <<>>
          OBVIOUS
        <5>1. ~(Len(ppy_out) + Len(Taken.bytes) > PpySize)
          BY <1>2, <3>1 DEF UpstreamLoss, LostIf
        <5>2. Taken.bytes = deframer.out
          BY TakesAll DEF Taken
        <5>3. Len(ppy_out) \in Nat /\ Len(deframer.out) \in Nat /\ PpySize \in Nat
          BY <1>4, More
        <5> QED BY <4>1, <5>1, <5>2, <5>3
      <4>3. held2 = held \o fit
        <5>1. (pppdGot \o toPppd') \o ppy_out' = pppdGot \o (toPppd' \o ppy_out')
          BY <1>12a
        <5>2. ((pppdGot \o toPppd) \o ppy_out) \o fit = pppdGot \o ((toPppd \o ppy_out) \o fit)
          <6>1. toPppd \o ppy_out \in Seq(Byte)
            BY <1>4, Joined
          <6>2. (pppdGot \o toPppd) \o ppy_out = pppdGot \o (toPppd \o ppy_out)
            BY <1>12a
          <6>3. (pppdGot \o (toPppd \o ppy_out)) \o fit = pppdGot \o ((toPppd \o ppy_out) \o fit)
            <7> DEFINE tp == toPppd \o ppy_out
            <7>1. pppdGot \in Seq(Byte) /\ tp \in Seq(Byte) /\ fit \in Seq(Byte)
              BY <1>4, <6>1
            <7> HIDE DEF tp
            <7>2. (pppdGot \o tp) \o fit = pppdGot \o (tp \o fit)
              BY <7>1, Regroup, Zenon
            <7> QED BY <7>2 DEF tp
          <6> QED BY <6>2, <6>3, Zenon
        <5> QED BY <4>1, <5>1, <5>2, Zenon
      <4> QED BY <4>1, <4>2, <4>3
    <3>2. CASE phase = "HANDSHAKE"
      <4>1. held2 = held
        BY <1>1, <3>2 DEF Upstream
      <4>2. out = <<>>
        BY <3>2, InitShape DEF IInv, Fresh
      <4>3. <<>> \in Seq(Byte) /\ <<>> = <<>> \o <<>> /\ held = held \o <<>>
        BY <2>1, <4>1
      <4> QED BY <4>1, <4>2, <4>3
    <3> QED BY <1>4, <3>1, <3>2
  <2>4. PICK fit \in Seq(Byte), rest \in Seq(Byte) :
           out = fit \o rest /\ held2 = held \o fit /\ (loss' = {} => rest = <<>>)
    BY <2>3
  <2> HIDE DEF held, held2, out
  <2>5. held \o out = held2 \o rest
    <3>1. held \o (fit \o rest) = (held \o fit) \o rest
      BY <2>1
    <3> QED BY <2>4, <3>1
  <2>6. loss' = {} => held2 \o <<>> = decoded
    <3> SUFFICES ASSUME loss' = {}
                 PROVE  held2 \o <<>> = decoded
      OBVIOUS
    <3>1. loss = {} /\ rest = <<>>
      BY <1>6, <2>4
    <3> QED BY <2>2, <2>5, <3>1
  <2>7. \E e : Embeds(e, held2 \o <<>>, decoded)
    <3>1. <<>> \in Seq(Byte) /\ held2 \o rest \o <<>> = held2 \o rest
      BY <2>1
    <3>2. \E e : Embeds(e, held2 \o rest \o <<>>, decoded)
      BY <2>2, <2>5, <3>1
    <3> QED BY <1>4, <2>1, <3>1, <3>2, EmbedsDrop
  <2>8. pppdGot' \o toPppd' \o ppy_out' \o deframer'.out = held2 \o <<>>
    BY <1>1, <1>9 DEF held2
  <2> QED BY <1>1, <2>6, <2>7, <2>8 DEF RxOrder
<1>14. Streams'
  <2>1. Len(fromPppd') <= SockSize
    <3>1. Len(fromPppd) \in Nat /\ SockSize \in Nat
      BY <1>4, More
    <3> QED BY <1>4, <1>5, <3>1
  <2> QED BY <1>1, <1>5, <1>8, <1>9, <1>10, <2>1 DEF IInv, Streams
<1>15. Types'
  <2>1. loss' \subseteq Losses
    BY <1>6 DEF IInv, Types, Losses
  <2> QED BY <1>1, <1>3, <2>1 DEF IInv, Types
<1> QED BY <1>9, <1>10, <1>11, <1>12, <1>13, <1>14, <1>15 DEF IInv

\* Every step keeps the invariant.
LEMMA NextIInv == IInv /\ [Next]_vars => IInv'
<1> SUFFICES ASSUME IInv, [Next]_vars
             PROVE  IInv'
  OBVIOUS
<1>1. CASE ReadTimesOut
  BY <1>1, ReadTimesOutKeeps
<1>2. CASE ReadMessage
  BY <1>2, ReadMessageKeeps
<1>3. CASE TransmitBit
  BY <1>3, TransmitBitKeeps
<1>4. CASE Transmitted
  BY <1>4, TransmittedKeeps
<1>5. CASE DataBit
  BY <1>5, DataBitKeeps
<1>6. CASE TrainingMessage
  BY <1>6, TrainingMessageKeeps
<1>7. CASE MessageEnds
  BY <1>7, MessageEndsKeeps
<1>8. CASE PumpEcho
  BY <1>8, PumpEchoKeeps
<1>9. CASE PumpPpp
  BY <1>9, PumpPppKeeps
<1>10. CASE Retrain
  BY <1>10, RetrainKeeps
<1>11. CASE PppdWrites
  BY <1>11, PppdWritesKeeps
<1>12. CASE PppdReads
  BY <1>12, PppdReadsKeeps
<1>13. CASE PppdCloses
  BY <1>13, PppdClosesKeeps
<1>14. CASE UNCHANGED vars
  <2>1. /\ UNCHANGED <<load, pc, phase, left, txbits, far, accepted, deframer, farBits, farSent,
                       noise, quiet, inStep, decoded, loss>>
        /\ UNCHANGED <<ppy_out, toPppd, pppdGot, fromPppd, pppdSent, ppp_fd, pppdEnd>>
    BY <1>14 DEF vars, txVars, rxVars, fdVars
  <2>2. TxPath' /\ Fresh' /\ RxBound' /\ EchoBound' /\ Quiet' /\ InFrame'
    BY <2>1, RxKept
  <2>3. Types'
    BY <2>1 DEF IInv, Types
  <2>4. Streams' /\ FromPppd' /\ RxOrder'
    BY <2>1, StreamsSame, FromPppdSame, RxOrderSame DEF IInv
  <2> QED BY <2>2, <2>3, <2>4 DEF IInv
<1> QED
  BY <1>1, <1>2, <1>3, <1>4, <1>5, <1>6, <1>7, <1>8, <1>9, <1>10, <1>11, <1>12, <1>13, <1>14
  DEF Next, Thread, Pppd

-----------------------------------------------------------------------------
(* The theorems.                                                           *)

\* The inductive invariant holds throughout: the bit queue holds the frames of
\* the bytes it accepted, the far end has made of the rest what they are, and
\* what the deframer completed is on its way to pppd or back.
THEOREM Invariance == Spec => []IInv
  BY InitIInv, NextIInv, PTL DEF Spec

\* The variables keep their types: the queue never holds more than its ring,
\* the deframer's output and pppd's buffers never more than their sizes.
THEOREM TypeCorrect == Spec => []TypeOK
<1>1. IInv => TypeOK
  <2> SUFFICES ASSUME IInv
               PROVE  TypeOK
    OBVIOUS
  <2>1. txbits \in Bitq /\ BitqCount(txbits) <= QueueSize
    <3>1. txbits \in Bitq
      BY DEF IInv, TxPath, Holds
    <3> QED BY <3>1, Bounds, Sizes
  <2>2. deframer \in Deframer /\ far.d \in Deframer
    BY DEF IInv, Streams, FarShape, Shape
  <2>3. Len(ppy_out) <= PpySize /\ Len(toPppd) <= SockSize /\ Len(fromPppd) <= SockSize
    BY DEF IInv, Streams
  <2> QED BY <2>1, <2>2, <2>3 DEF IInv, Types, TypeOK
<1> QED BY <1>1, Invariance, PTL

\* What the far end has decoded and what it will make of the waiting bits are the
\* bytes that were let into the queue, for every size of the ring and of the
\* counters that index it (sm_async.c:17-48).
THEOREM TxExactAlways == Spec => []TxExact
<1>1. IInv => TxExact
  <2> SUFFICES ASSUME IInv, ~Retrained
               PROVE  Listen(far, BitqContents(txbits)).got = accepted
    BY DEF TxExact
  <2> DEFINE p == Sent  bits == BitqContents(txbits)  s == Frames(accepted)
  <2>1. /\ accepted \in Seq(Byte) /\ FarShape(far) /\ FarHas(far, accepted, p)
        /\ Holds(txbits, s, p)
    BY DEF IInv, Streams, TxPath
  <2>2. /\ p \in Nat /\ Len(s) = FrameBits * Len(accepted) /\ BitqCount(txbits) \in 0..QueueSize
        /\ FrameBits * Len(accepted) = p + BitqCount(txbits)
    BY QueueIs DEF IInv
  <2> HIDE DEF p, s
  <2>3. /\ bits \in Seq(Bit) /\ Len(bits) = Len(s) - p
        /\ \A i \in 1..Len(s) - p : bits[i] = s[p + i]
    BY <2>1, ContentsAre
  <2> HIDE DEF bits
  <2>4. p \in 0..FrameBits * Len(accepted) /\ Len(bits) = FrameBits * Len(accepted) - p
    BY <2>2, <2>3
  <2>5. \A i \in 1..Len(bits) : bits[i] = Frames(accepted)[p + i]
    BY <2>3 DEF s
  <2>6. Listen(far, bits).got = accepted
    BY <2>1, <2>3, <2>4, <2>5, RestIsHeard
  <2> QED BY <2>6 DEF bits
<1> QED BY <1>1, Invariance, PTL

\* The bytes of pppd enter the queue in the order it wrote them, and what has not
\* entered it waits in the socket, until one has been dropped (sm_call.c:489).
THEOREM FromPppdAlways == Spec => []FromPppd
<1>1. IInv => FromPppd
  BY DEF IInv
<1> QED BY <1>1, Invariance, PTL

\* A deframer that is in step reads the far end's frame as the byte it is and
\* hunts for the next, whatever the line turned over before (sm_async.c:74-104).
THEOREM InStepDecodesAlways == Spec => []InStepDecodes
<1>1. IInv => InStepDecodes
  <2> SUFFICES ASSUME IInv, inStep
               PROVE  LET end == Deframe([deframer EXCEPT !.out = <<>>], farBits) IN
                      /\ Hunting(end)
                      /\ farBits # <<>> => end.out = <<load.up[farSent]>>
    BY DEF InStepDecodes
  <2> DEFINE e == [deframer EXCEPT !.out = <<>>]
  <2>1. Shape(deframer) /\ farBits \in Seq(Bit)
    BY DEF IInv, Streams
  <2>2. /\ Shape(e) /\ e.out = <<>> /\ e.state = deframer.state /\ e.prev = deframer.prev
        /\ \A byte, r : At(e, byte, r) <=> At(deframer, byte, r)
    BY <2>1, Emptied
  <2> HIDE DEF e
  <2>3. CASE farBits = <<>>
    <3>1. Hunting(e)
      BY <2>2, <2>3 DEF IInv, InFrame, Hunting
    <3>2. Deframe(e, farBits) = e
      <4>1. Len(farBits) = 0
        BY <2>3
      <4>2. PICK g : Deframes(g, e, farBits, Len(farBits)) /\ Deframe(e, farBits) = g[Len(farBits)]
        BY <4>1, DeframeIs
      <4>3. g[0] = e
        BY <4>1, <4>2 DEF Deframes
      <4> QED BY <4>1, <4>2, <4>3
    <3> QED BY <2>3, <3>1, <3>2 DEF e
  <2>4. CASE farBits # <<>>
    <3> DEFINE byte == load.up[farSent]
    <3>1. /\ farSent \in 0..Len(load.up) /\ load.up \in Seq(Byte) /\ farSent >= 1
          /\ Len(farBits) <= FrameBits - 1 /\ Len(farBits) >= 1
          /\ \A i \in 1..Len(farBits) : farBits[i] = Frame(byte)[FrameBits - Len(farBits) + i]
          /\ At(deframer, byte, FrameBits - Len(farBits))
      BY <2>1, <2>4, More DEF IInv, Types, InFrame
    <3>2. byte \in Byte /\ Len(farBits) \in 1..FrameBits
      BY <2>1, <3>1, Sizes
    <3> HIDE DEF byte
    <3>3. At(e, byte, FrameBits - Len(farBits))
      BY <2>2, <3>1
    <3>4. Hunting(Deframe(e, farBits)) /\ Deframe(e, farBits).out = <<byte>>
      BY <2>1, <2>2, <3>1, <3>2, <3>3, RestOfFrame
    <3> QED BY <2>4, <3>4 DEF e, byte
  <2> QED BY <2>3, <2>4
<1> QED BY <1>1, Invariance, PTL

\* What came up is what was decoded, in order, none twice; echoing, it goes back
\* complete (sm_daemon.c:45).
THEOREM RxInOrderAlways == Spec => []RxInOrder
<1>1. IInv => RxInOrder
  <2> SUFFICES ASSUME IInv
               PROVE  RxInOrder
    OBVIOUS
  <2> DEFINE s == pppdGot \o toPppd \o ppy_out \o deframer.out
  <2>1. /\ load.echo /\ ~Retrained => accepted \o deframer.out = decoded
        /\ ~load.echo /\ loss = {} => s = decoded
        /\ ~load.echo => \E e : Embeds(e, s, decoded)
    BY DEF IInv, RxOrder
  <2>2. s \in Seq(Byte) /\ decoded \in Seq(Byte)
    <3>1. /\ pppdGot \in Seq(Byte) /\ toPppd \in Seq(Byte) /\ ppy_out \in Seq(Byte)
          /\ deframer.out \in Seq(Byte) /\ decoded \in Seq(Byte)
      BY Lengths DEF IInv, Streams
    <3> DEFINE out == deframer.out
    <3> HIDE DEF out
    <3>2. pppdGot \o toPppd \o ppy_out \o out \in Seq(Byte)
      BY <3>1 DEF out
    <3> QED BY <3>1, <3>2 DEF out
  <2> HIDE DEF s
  <2>3. ~load.echo => IsSubsequence(s, decoded)
    BY <2>1, <2>2, EmbedsIs
  <2> QED BY <2>1, <2>3 DEF RxInOrder, s
<1> QED BY <1>1, Invariance, PTL

\* A pass takes all that a message brought, so the deframer's output is never
\* emptied for want of room (sm_async.c:65).
THEOREM NeverFlushedAlways == Spec => []NeverFlushed
<1>1. IInv => NeverFlushed
  BY DEF IInv, RxBound, NeverFlushed
<1> QED BY <1>1, Invariance, PTL

\* A byte of pppd's is dropped at the queue only if pppd is further ahead of the
\* far end than the queue is long (sm_call.c:500).
THEOREM DropsOnlyWhenAheadAlways == Spec => DropsOnlyWhenAhead
<1>1. ASSUME IInv, [Next]_vars, "queue" \in loss' \ loss, ~load.echo
      PROVE  (pppdSent - Len(far.got)) * FrameBits > QueueSize
  <2>1. PumpPpp
    <3>1. ~PumpEcho
      BY <1>1 DEF PumpEcho
    <3>2. ~(loss' \subseteq loss \cup {"flush", "retrain"})
      BY <1>1
    <3>3. ReadTimesOut \/ ReadMessage \/ TransmitBit \/ Transmitted \/ TrainingMessage \/ MessageEnds
          \/ PppdWrites \/ PppdReads \/ PppdCloses \/ UNCHANGED vars => loss' = loss
      BY DEF ReadTimesOut, ReadMessage, TransmitBit, Transmitted, TrainingMessage, MessageEnds,
             PppdWrites, PppdReads, PppdCloses, vars
    <3>4. DataBit => loss' \subseteq loss \cup {"flush", "retrain"}
      BY DEF DataBit, PutBit
    <3>5. Retrain => loss' \subseteq loss \cup {"flush", "retrain"}
      BY DEF Retrain
    <3> QED BY <1>1, <3>1, <3>2, <3>3, <3>4, <3>5 DEF Next, Thread, Pppd
  <2> DEFINE R == Readable  c == BitqCount(txbits)
  <2>2. /\ Send(R) /\ far' = far
        /\ loss' = loss \cup UpstreamLoss \cup LostIf(Len(accepted') < Len(accepted) + Len(R), "queue")
    BY <2>1 DEF PumpPpp, Downstream
  <2>3. Len(accepted') < Len(accepted) + Len(R)
    <3>1. "queue" \notin loss \cup UpstreamLoss
      BY <1>1 DEF UpstreamLoss, LostIf
    <3> QED BY <1>1, <2>2, <3>1 DEF LostIf
  <2>4. Retrained' = Retrained
    BY <2>2 DEF Retrained, UpstreamLoss, LostIf
  <2>5. /\ R \in Seq(Byte) /\ Len(R) \in Nat /\ Len(R) <= Len(fromPppd)
    <3>1. /\ R \in Seq(Byte) /\ Len(R) \in Nat
          /\ SubSeq(fromPppd, Len(R) + 1, Len(fromPppd)) \in Seq(Byte)
          /\ Len(SubSeq(fromPppd, Len(R) + 1, Len(fromPppd))) = Len(fromPppd) - Len(R)
      BY <1>1, ReadableIs
    <3> HIDE DEF R
    <3>2. Len(fromPppd) \in Nat /\ Len(fromPppd) - Len(R) >= 0
      BY <1>1, <3>1, Lengths DEF IInv
    <3> QED BY <3>1, <3>2
  <2> HIDE DEF R
  <2>6. c + FrameBits * Len(R) > QueueSize /\ FrameBits * Len(R) \in Nat
    <3>1. PICK framed \in Seq(Byte) :
             /\ Len(accepted') = Len(accepted) + Len(framed)
             /\ FrameBits * Len(R) \in Nat
             /\ c + FrameBits * Len(R) <= QueueSize => framed = R
      BY <1>1, <2>2, <2>4, <2>5, Sends
    <3>2. Len(accepted) \in Nat
      BY <1>1, Lengths DEF IInv
    <3>3. framed # R
      BY <2>3, <2>5, <3>1, <3>2
    <3> QED BY <1>1, <3>1, <3>3, Bounds, Sizes
  <2>7. pppdSent = Len(accepted) + Len(fromPppd)
    <3>1. /\ accepted \o fromPppd = SubSeq(load.down, 1, pppdSent)
          /\ accepted \in Seq(Byte) /\ fromPppd \in Seq(Byte)
          /\ load.down \in Seq(Byte) /\ pppdSent \in 0..Len(load.down)
      BY <1>1, More DEF IInv, FromPppd, Streams, Types
    <3>2. Len(SubSeq(load.down, 1, pppdSent)) = pppdSent
      BY <3>1
    <3>3. Len(accepted \o fromPppd) = Len(accepted) + Len(fromPppd)
      BY <3>1, Joined
    <3> QED BY <3>1, <3>2, <3>3
  <2> DEFINE a == Len(accepted)  f == Len(fromPppd)  g == Len(far.got)  r == Len(R)
  <2>8. /\ a \in Nat /\ f \in Nat /\ g \in Nat /\ r \in Nat /\ r <= f /\ FrameBits \in Nat
        /\ Sent \in Nat /\ c \in Nat /\ QueueSize \in Nat
        /\ FrameBits * a = Sent + c /\ FrameBits * g <= Sent
    <3>1. /\ a \in Nat /\ f \in Nat /\ g \in Nat /\ r \in Nat /\ r <= f
      BY <1>1, <2>5, Lengths DEF IInv
    <3>2. Sent \in Nat /\ c \in 0..QueueSize /\ FrameBits * a = Sent + c
      BY <1>1, QueueIs DEF IInv
    <3>3. FrameBits * g <= Sent
      BY <1>1 DEF IInv, TxPath
    <3> HIDE DEF a, f, g, r, c
    <3>4. c \in Nat /\ FrameBits \in Nat /\ QueueSize \in Nat
      BY <3>2, Sizes
    <3> QED BY <3>1, <3>2, <3>3, <3>4
  <2>9. pppdSent = a + f /\ c + FrameBits * r > QueueSize
    BY <2>6, <2>7
  <2> HIDE DEF a, f, g, r, c
  <2>10. FrameBits * r <= FrameBits * f
    BY <2>8
  <2>11. ((a + f) - g) * FrameBits = FrameBits * a + FrameBits * f - FrameBits * g
    BY <2>8
  <2>12. FrameBits * a \in Nat /\ FrameBits * f \in Nat /\ FrameBits * g \in Nat /\ FrameBits * r \in Nat
    BY <2>8
  <2>13. FrameBits * a + FrameBits * f - FrameBits * g > QueueSize
    BY <2>8, <2>9, <2>10, <2>12
  <2>14. ((a + f) - g) * FrameBits > QueueSize
    BY <2>11, <2>13
  <2>15. pppdSent = a + f
    BY <2>9
  <2>16. (pppdSent - g) * FrameBits = ((a + f) - g) * FrameBits
    BY <2>15, Zenon
  <2>17. (pppdSent - g) * FrameBits > QueueSize
    <3> DEFINE x == ((a + f) - g) * FrameBits
    <3> HIDE DEF x
    <3> QED BY <2>14, <2>16 DEF x
  <2> QED BY <2>17 DEF g
<1> DEFINE A == "queue" \in loss' \ loss /\ ~load.echo
                  => (pppdSent - Len(far.got)) * FrameBits > QueueSize
<1>2. IInv /\ [Next]_vars => A
  BY <1>1
<1> HIDE DEF A
<1>3. Spec => [][A]_vars
  BY <1>2, Invariance, PTL DEF Spec
<1> QED BY <1>3 DEF A, DropsOnlyWhenAhead
=============================================================================

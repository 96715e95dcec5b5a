------------------------------ MODULE Modular -------------------------------
(***************************************************************************)
(* Facts about remainders, for the kernel's ring buffers: their counters   *)
(* are unsigned words that wrap, taken modulo the size of the buffer.      *)
(***************************************************************************)
EXTENDS Integers, TLAPS

\* Division with remainder is unique.
LEMMA ModUnique ==
  ASSUME NEW n \in Nat \ {0}, NEW q \in Int, NEW r \in 0 .. n - 1
  PROVE  (n * q + r) % n = r
OBVIOUS

\* The remainder and the quotient.
LEMMA ModDiv ==
  ASSUME NEW n \in Nat \ {0}, NEW a \in Int
  PROVE  a % n \in 0 .. n - 1 /\ a \div n \in Int /\ a = n * (a \div n) + (a % n)
OBVIOUS

\* A remainder may be taken before an addition.
LEMMA ModPlus ==
  ASSUME NEW n \in Nat \ {0}, NEW a \in Int, NEW b \in Int
  PROVE  ((a % n) + b) % n = (a + b) % n
<1> DEFINE q == a \div n
           c == (a % n) + b
           s == c \div n
<1>1. q \in Int /\ c \in Int /\ s \in Int /\ c % n \in 0 .. n - 1
  BY ModDiv
<1>2. a + b = n * (q + s) + (c % n)
  <2>1. a = n * q + (a % n) /\ c = n * s + (c % n)
    BY <1>1, ModDiv
  <2>2. n * (q + s) = n * q + n * s
    BY <1>1
  <2> QED
    BY <2>1, <2>2, <1>1, ModDiv
<1>3. q + s \in Int
  BY <1>1
<1> QED
  BY <1>1, <1>2, <1>3, ModUnique

\* A multiple of a multiple of n has no remainder.
LEMMA ModOfSum ==
  ASSUME NEW n \in Nat \ {0}, NEW k \in Int, NEW q \in Int, NEW s \in Int, NEW r \in 0 .. n - 1
  PROVE  ((n * k) * q + (n * s + r)) % n = r
<1>1. k * q + s \in Int /\ (n * k) * q + (n * s + r) = n * (k * q + s) + r
  OBVIOUS
<1> QED
  BY <1>1, ModUnique

\* Counting modulo a multiple of n keeps the remainder: uint counters that wrap
\* at 2^32 index a buffer whose size divides 2^32 (nwrite % PIPESIZE in pipe.c,
\* e % INPUT_BUF in console.c).
LEMMA ModMod ==
  ASSUME NEW n \in Nat \ {0}, NEW m \in Nat \ {0}, m % n = 0, NEW a \in Int
  PROVE  (a % m) % n = a % n
<1> DEFINE k == m \div n
           q == a \div m
           c == a % m
           s == c \div n
           r == c % n
<1>1. k \in Int /\ q \in Int /\ c \in Int /\ s \in Int /\ r \in 0 .. n - 1
  BY ModDiv
<1>2. m = n * k
  BY ModDiv
<1>3. a = m * q + c
  BY ModDiv
<1>4. c = n * s + r
  BY <1>1, ModDiv
<1>5. r = (a % m) % n
  OBVIOUS
<1> HIDE DEF k, q, c, s, r
<1>6. a = (n * k) * q + (n * s + r)
  BY <1>2, <1>3, <1>4, Zenon
<1>7. ((n * k) * q + (n * s + r)) % n = r
  BY <1>1, ModOfSum
<1> QED
  BY <1>5, <1>6, <1>7, Zenon

\* n consecutive numbers have different remainders: no two bytes of a ring
\* buffer share a slot.
LEMMA ModDistinct ==
  ASSUME NEW n \in Nat \ {0}, NEW a \in Int, NEW i \in 0 .. n - 1, NEW j \in 0 .. n - 1,
         (a + i) % n = (a + j) % n
  PROVE  i = j
<1> DEFINE q == (a + i) \div n
           s == (a + j) \div n
<1>1. q \in Int /\ s \in Int /\ a + i = n * q + ((a + i) % n) /\ a + j = n * s + ((a + j) % n)
  BY ModDiv
<1>2. i - j = n * (q - s)
  BY <1>1
<1>3. q - s \in Int /\ (q - s >= 1 => n * (q - s) >= n) /\ (q - s <= -1 => n * (q - s) <= -n)
  BY <1>1
<1> QED
  BY <1>1, <1>2, <1>3

\* One addition wraps at most once.
LEMMA AddCases ==
  ASSUME NEW n \in Nat \ {0}, NEW a \in 0 .. n - 1, NEW b \in 0 .. n
  PROVE  (a + b) % n = IF a + b < n THEN a + b ELSE a + b - n
<1>1. CASE a + b < n
  BY <1>1
<1>2. CASE a + b >= n
  <2>1. (n * 1 + (a + b - n)) % n = a + b - n
    BY <1>2, ModUnique
  <2> QED
    BY <1>2, <2>1
<1> QED
  BY <1>1, <1>2

\* The difference of two wrapped counters.
LEMMA SubCases ==
  ASSUME NEW n \in Nat \ {0}, NEW a \in 0 .. n - 1, NEW b \in 0 .. n - 1
  PROVE  (a - b) % n = IF a >= b THEN a - b ELSE a - b + n
<1>1. CASE a >= b
  BY <1>1
<1>2. CASE a < b
  <2>1. (n * (-1) + (a - b + n)) % n = a - b + n
    BY <1>2, ModUnique
  <2> QED
    BY <1>2, <2>1
<1> QED
  BY <1>1, <1>2

\* The remainder is an index of the buffer.
LEMMA ModRange ==
  ASSUME NEW n \in Nat \ {0}, NEW a \in Int
  PROVE  a % n \in 0 .. n - 1 /\ a % n \in Int
OBVIOUS

\* The place in the buffer relative to a counter that has wrapped.
LEMMA ModWrapped ==
  ASSUME NEW n \in Nat \ {0}, NEW m \in Nat \ {0}, m % n = 0
  PROVE  \A a, b \in Int : ((a % m) + b) % n = (a + b) % n
<1> SUFFICES ASSUME NEW a \in Int, NEW b \in Int
             PROVE  ((a % m) + b) % n = (a + b) % n
  BY Zenon
<1>1. (a % m) % n = a % n
  BY ModMod, Zenon
<1>2. a % m \in Int
  BY ModRange, Zenon
<1>3. (((a % m) % n) + b) % n = ((a % m) + b) % n
  BY <1>2, ModPlus, Zenon
<1>4. ((a % n) + b) % n = (a + b) % n
  BY ModPlus, Zenon
<1> QED
  BY <1>1, <1>3, <1>4, Zenon

\* The place of the i-th entry after the next one.
LEMMA ModNext ==
  ASSUME NEW n \in Nat \ {0}, NEW m \in Nat \ {0}, m % n = 0
  PROVE  \A a, i \in Int : (((a + 1) % m) + i - 1) % n = (a + (i + 1) - 1) % n
<1> SUFFICES ASSUME NEW a \in Int, NEW i \in Int
             PROVE  (((a + 1) % m) + i - 1) % n = (a + (i + 1) - 1) % n
  OBVIOUS
<1> DEFINE b == a + 1
           j == i - 1
<1>1. b \in Int /\ j \in Int /\ b + j = a + (i + 1) - 1
  OBVIOUS
<1>2. b % m \in Int
  BY <1>1, ModRange, Zenon
<1>3. (b % m) + j = (b % m) + i - 1
  BY <1>2
<1>4. \A x, y \in Int : ((x % m) + y) % n = (x + y) % n
  BY ModWrapped, Zenon
<1> HIDE DEF b, j
<1>5. ((b % m) + j) % n = (b + j) % n
  BY <1>1, <1>4, Zenon
<1>6. ((b % m) + i - 1) % n = (a + (i + 1) - 1) % n
  BY <1>1, <1>3, <1>5, Zenon
<1> QED
  BY <1>6, Zenon DEF b
=============================================================================

---------------------------- MODULE BcacheProofs ----------------------------
(***************************************************************************)
(* The safety properties of Bcache, for every number of processes, buffers *)
(* and sectors.                                                            *)
(***************************************************************************)
EXTENDS Bcache, FiniteSetTheorems, WellFoundedInduction, TLAPS

-----------------------------------------------------------------------------
(* The inductive invariant.                                                *)

\* A list without repetition.
NoRepeat(s) == \A i, j \in 1 .. Len(s) : s[i] = s[j] => i = j

\* The lists are lists of buffers, the LRU list and the queue without
\* repetition, and processes in a call have what the call works on.
Lists ==
  /\ hold \in [Proc -> Seq(Buf)] /\ idequeue \in Seq(Buf)
  /\ NoRepeat(lru) /\ NoRepeat(idequeue)
  /\ \A p \in Proc :
       /\ NoRepeat(hold[p])
       /\ pc[p] \in InIO => hold[p] # <<>>
       /\ pc[p] \in {"bget", "bsleep"} => want[p] \in Sector /\ Len(hold[p]) < MaxHold
       /\ pc[p] \notin {"bsleep", "iosleep"} => chan[p] = None

\* A buffer is busy while one process has it, and then it has a sector; so has
\* every buffer with contents.
Held ==
  /\ \A b \in Buf : b \in busy <=> \E p \in Proc : b \in Range(hold[p])
  /\ \A p, q \in Proc : p # q => Range(hold[p]) \intersect Range(hold[q]) = {}
  /\ OneBufferPerSector
  /\ \A b \in busy \union valid : bsec[b] # None
  /\ dirty \subseteq valid

\* A buffer in the queue is the last one that a sleeper in iderw got; what a
\* process got before has been read.
Transfers ==
  /\ \A p \in Proc :
       /\ pc[p] = "bsleep" => chan[p] \in busy
       /\ pc[p] = "iosleep" => chan[p] = Last(hold[p]) /\ chan[p] \in Range(idequeue)
       /\ pc[p] = "iowait" => Last(hold[p]) \in valid \ dirty
       /\ pc[p] = "iderw" => Last(hold[p]) \notin valid \ dirty
       /\ \A b \in Range(hold[p]) \ valid : pc[p] \in InIO /\ b = Last(hold[p])
  /\ \A b \in Range(idequeue) : \E p \in Proc : pc[p] = "iosleep" /\ b = Last(hold[p])

\* The controller works on the first buffer of the queue; when it has finished
\* a write the disk has the contents.
Controller ==
  /\ (cmd = None) <=> (idequeue = <<>>)
  /\ idequeue # <<>> => cmd = Command(Head(idequeue))
  /\ irq => cmd # None
  /\ irq /\ cmd.write => disk[cmd.sec] = cmd.val

Inv == TypeOK /\ Lists /\ Held /\ Transfers /\ Controller

\* Without disk errors a clean valid buffer agrees with the disk.
Clean == \A b \in valid \ dirty : data[b] = disk[bsec[b]]

-----------------------------------------------------------------------------
(* Lists.                                                                  *)

\* A set of indices that is not empty has a greatest one: bget's scan from the
\* tail of the LRU list.
LEMMA MaxIn ==
  ASSUME NEW n \in Nat, NEW S \in SUBSET (1 .. n), S # {}
  PROVE  Max(S) \in S
<1> DEFINE R == OpToRel(<, Nat)
           T == {k \in Nat : n - k \in S}
<1>1. IsWellFoundedOn(R, Nat)
  BY NatLessThanWellFounded, Zenon
<1>2. \A x, y \in Nat : <<x, y>> \notin R => y <= x
  BY DEF OpToRel
<1>3. T \subseteq Nat /\ T # {}
  <2>1. PICK i \in S : TRUE
    BY Zenon
  <2>2. n - i \in Nat /\ n - (n - i) = i
    BY <2>1
  <2> QED
    BY <2>1, <2>2, Zenon
<1> HIDE DEF R
<1>4. PICK k \in T : \A y \in T : <<y, k>> \notin R
  <2> HIDE DEF T
  <2> QED
    BY <1>1, <1>3, WFMin, Zenon
<1>5. n - k \in S /\ k \in Nat
  BY <1>4
<1>6. \A i \in S : n - k >= i
  <2> SUFFICES ASSUME NEW i \in S PROVE n - k >= i
    OBVIOUS
  <2>1. n - i \in T /\ i \in Int
    OBVIOUS
  <2>2. n - i \in Nat
    OBVIOUS
  <2>3. k <= n - i
    BY <1>2, <1>4, <1>5, <2>1, <2>2, Zenon
  <2> QED
    BY <1>5, <2>1, <2>3
<1> HIDE DEF T
<1> QED
  BY <1>5, <1>6, Zenon DEF Max

\* The elements of a list, the first and the last among them.
LEMMA RangeFacts ==
  ASSUME NEW S, NEW s \in Seq(S)
  PROVE  /\ Range(s) = {s[i] : i \in 1 .. Len(s)} /\ Range(s) \subseteq S /\ Len(s) \in Nat
         /\ s # <<>> => Last(s) \in Range(s) /\ Head(s) \in Range(s)
<1>1. DOMAIN s = 1 .. Len(s) /\ Len(s) \in Nat
  OBVIOUS
<1>2. Range(s) = {s[i] : i \in 1 .. Len(s)}
  BY <1>1, Zenon DEF Range
<1>3. \A i \in 1 .. Len(s) : s[i] \in S
  OBVIOUS
<1>4. s # <<>> => 1 \in 1 .. Len(s) /\ Len(s) \in 1 .. Len(s) /\ Head(s) = s[1]
  OBVIOUS
<1> QED
  BY <1>1, <1>2, <1>3, <1>4, Zenon DEF Last

\* What an element put at the end changes: bread's new buffer, iderw's queue.
LEMMA AppendFacts ==
  ASSUME NEW S, NEW s \in Seq(S), NEW e \in S
  PROVE  /\ Append(s, e) \in Seq(S) /\ Append(s, e) # <<>> /\ Len(Append(s, e)) = Len(s) + 1
         /\ Range(Append(s, e)) = Range(s) \union {e}
         /\ Last(Append(s, e)) = e
         /\ NoRepeat(s) /\ e \notin Range(s) => NoRepeat(Append(s, e))
<1> DEFINE t == Append(s, e)
<1>1. /\ t \in Seq(S) /\ Len(t) = Len(s) + 1 /\ Len(s) \in Nat
      /\ \A i \in 1 .. Len(s) : t[i] = s[i]
      /\ t[Len(s) + 1] = e
  OBVIOUS
<1>2. Range(s) = {s[i] : i \in 1 .. Len(s)} /\ Range(t) = {t[i] : i \in 1 .. Len(t)}
  BY <1>1, RangeFacts, Zenon
<1> HIDE DEF t
<1>3. Range(t) = Range(s) \union {e}
  BY <1>1, <1>2
<1>4. ASSUME NoRepeat(s), e \notin Range(s) PROVE NoRepeat(t)
  BY <1>1, <1>2, <1>4 DEF NoRepeat
<1>5. Last(t) = e /\ t # <<>>
  BY <1>1 DEF Last
<1> QED
  BY <1>1, <1>3, <1>4, <1>5 DEF t

\* What ideintr leaves in the queue.
LEMMA TailFacts ==
  ASSUME NEW S, NEW s \in Seq(S), s # <<>>, NoRepeat(s)
  PROVE  /\ Tail(s) \in Seq(S) /\ NoRepeat(Tail(s))
         /\ Range(Tail(s)) = Range(s) \ {Head(s)}
<1> DEFINE t == Tail(s)
<1>1. /\ t \in Seq(S) /\ Len(t) = Len(s) - 1 /\ Len(s) \in Nat \ {0} /\ Head(s) = s[1]
      /\ \A i \in 1 .. Len(t) : t[i] = s[i + 1]
  OBVIOUS
<1>2. Range(s) = {s[i] : i \in 1 .. Len(s)} /\ Range(t) = {t[i] : i \in 1 .. Len(t)}
  BY <1>1, RangeFacts, Zenon
<1> HIDE DEF t
<1>3. NoRepeat(t)
  BY <1>1 DEF NoRepeat
<1>4. ASSUME NEW x PROVE x \in Range(t) <=> x \in Range(s) /\ x # Head(s)
  <2>1. ASSUME NEW i \in 1 .. Len(t) PROVE t[i] \in Range(s) /\ t[i] # Head(s)
    BY <1>1, <1>2, <2>1 DEF NoRepeat
  <2>2. ASSUME NEW i \in 1 .. Len(s), i # 1 PROVE s[i] \in Range(t)
    <3>1. i - 1 \in 1 .. Len(t) /\ (i - 1) + 1 = i
      BY <1>1, <2>2
    <3> QED
      BY <1>1, <1>2, <3>1, Zenon
  <2> QED
    BY <1>1, <1>2, <2>1, <2>2
<1> QED
  BY <1>1, <1>3, <1>4 DEF t

\* What unlinking the k-th element leaves.
LEMMA RemoveFacts ==
  ASSUME NEW S, NEW s \in Seq(S), NEW k \in 1 .. Len(s), NoRepeat(s)
  PROVE  /\ RemoveAt(s, k) \in Seq(S) /\ NoRepeat(RemoveAt(s, k))
         /\ Len(RemoveAt(s, k)) = Len(s) - 1
         /\ Range(RemoveAt(s, k)) = Range(s) \ {s[k]}
<1> DEFINE t == RemoveAt(s, k)
<1>1. /\ t \in Seq(S) /\ Len(t) = Len(s) - 1 /\ Len(s) \in Nat \ {0} /\ k \in Nat
      /\ \A i \in 1 .. Len(t) : t[i] = IF i < k THEN s[i] ELSE s[i + 1]
  <2> DEFINE u == SubSeq(s, 1, k - 1)
             v == SubSeq(s, k + 1, Len(s))
  <2>1. u \in Seq(S) /\ Len(u) = k - 1 /\ \A i \in 1 .. k - 1 : u[i] = s[i]
    OBVIOUS
  <2>2. v \in Seq(S) /\ Len(v) = Len(s) - k /\ \A i \in 1 .. Len(s) - k : v[i] = s[k + i]
    OBVIOUS
  <2>3. t = u \o v
    BY DEF RemoveAt
  <2> HIDE DEF u, v, t
  <2>4. t \in Seq(S) /\ Len(t) = Len(u) + Len(v)
    <3>1. u \in Seq(S) /\ v \in Seq(S)
      BY <2>1, <2>2
    <3>2. u \o v \in Seq(S) /\ Len(u \o v) = Len(u) + Len(v)
      BY <3>1
    <3> QED
      BY <2>3, <3>2, Zenon
  <2>5. \A i \in 1 .. Len(u) + Len(v) : t[i] = IF i <= Len(u) THEN u[i] ELSE v[i - Len(u)]
    BY <2>1, <2>2, <2>3
  <2>6. Len(s) \in Nat /\ Len(s) # 0 /\ k \in Nat
    OBVIOUS
  <2>7. ASSUME NEW i \in 1 .. Len(t) PROVE t[i] = IF i < k THEN s[i] ELSE s[i + 1]
    <3>1. CASE i < k
      BY <2>1, <2>2, <2>4, <2>5, <2>6, <3>1
    <3>2. CASE ~(i < k)
      <4>1. i - (k - 1) \in 1 .. Len(s) - k /\ k + (i - (k - 1)) = i + 1
        BY <2>1, <2>2, <2>4, <2>6, <3>2
      <4>2. t[i] = v[i - (k - 1)]
        BY <2>1, <2>2, <2>4, <2>5, <2>6, <3>2
      <4> QED
        BY <2>2, <3>2, <4>1, <4>2
    <3> QED
      BY <3>1, <3>2
  <2> QED
    BY <2>1, <2>2, <2>4, <2>6, <2>7
<1>2. Range(s) = {s[i] : i \in 1 .. Len(s)} /\ Range(t) = {t[i] : i \in 1 .. Len(t)}
  BY <1>1, RangeFacts
<1> HIDE DEF t
<1>3. NoRepeat(t)
  BY <1>1 DEF NoRepeat
<1>4. ASSUME NEW x PROVE x \in Range(t) <=> x \in Range(s) /\ x # s[k]
  <2>1. ASSUME NEW i \in 1 .. Len(t) PROVE t[i] \in Range(s) /\ t[i] # s[k]
    BY <1>1, <1>2, <2>1 DEF NoRepeat
  <2>2. ASSUME NEW i \in 1 .. Len(s), i # k PROVE s[i] \in Range(t)
    <3>1. CASE i < k
      <4>1. i \in 1 .. Len(t) /\ t[i] = s[i]
        BY <1>1, <3>1
      <4> QED
        BY <1>2, <4>1
    <3>2. CASE i > k
      <4>1. i - 1 \in 1 .. Len(t) /\ (i - 1) + 1 = i /\ ~(i - 1 < k)
        BY <1>1, <3>2
      <4> QED
        BY <1>1, <1>2, <4>1, Zenon
    <3> QED
      BY <1>1, <2>2, <3>1, <3>2
  <2> QED
    BY <1>1, <1>2, <2>1, <2>2, Zenon
<1> QED
  BY <1>1, <1>3, <1>4 DEF t

\* brelse's relinking at the front keeps a permutation a permutation.
LEMMA MoveFacts ==
  ASSUME NEW S, NEW s \in Seq(S), NEW k \in 1 .. Len(s), NoRepeat(s)
  PROVE  LET t == <<s[k]>> \o RemoveAt(s, k)
         IN  t \in Seq(S) /\ NoRepeat(t) /\ Len(t) = Len(s) /\ Range(t) = Range(s)
<1> DEFINE r == RemoveAt(s, k)
           h == <<s[k]>>
           t == h \o r
<1>1. r \in Seq(S) /\ NoRepeat(r) /\ Len(r) = Len(s) - 1 /\ Range(r) = Range(s) \ {s[k]}
  BY RemoveFacts
<1>2. h \in Seq(S) /\ Len(h) = 1 /\ h[1] = s[k] /\ Len(s) \in Nat
  OBVIOUS
<1> HIDE DEF r, h
<1>3. t \in Seq(S) /\ Len(t) = Len(h) + Len(r)
  <2>1. h \in Seq(S) /\ r \in Seq(S)
    BY <1>1, <1>2
  <2> QED
    BY <2>1
<1>4. \A i \in 1 .. Len(h) + Len(r) : t[i] = IF i <= Len(h) THEN h[i] ELSE r[i - Len(h)]
  <2>1. h \in Seq(S) /\ r \in Seq(S)
    BY <1>1, <1>2
  <2> QED
    BY <2>1
<1> HIDE DEF t
<1>5. Len(t) = Len(s) /\ t[1] = s[k] /\ \A i \in 2 .. Len(t) : t[i] = r[i - 1] /\ i - 1 \in 1 .. Len(r)
  BY <1>1, <1>2, <1>3, <1>4
<1>6. /\ Range(s) = {s[i] : i \in 1 .. Len(s)} /\ Range(t) = {t[i] : i \in 1 .. Len(t)}
      /\ Range(r) = {r[i] : i \in 1 .. Len(r)}
  BY <1>1, <1>3, RangeFacts
<1>7. \A i \in 2 .. Len(t) : t[i] \in Range(s) /\ t[i] # s[k]
  BY <1>1, <1>5, <1>6, Zenon
<1>8. NoRepeat(t)
  <2> SUFFICES ASSUME NEW i \in 1 .. Len(t), NEW j \in 1 .. Len(t), t[i] = t[j] PROVE i = j
    BY DEF NoRepeat
  <2>1. i = 1 <=> j = 1
    BY <1>2, <1>5, <1>7
  <2>2. CASE i # 1 /\ j # 1
    <3>1. r[i - 1] = r[j - 1] /\ i - 1 \in 1 .. Len(r) /\ j - 1 \in 1 .. Len(r)
      <4>1. i \in 2 .. Len(t) /\ j \in 2 .. Len(t)
        BY <1>2, <1>5, <2>2
      <4> QED
        BY <1>5, <4>1, Zenon
    <3>2. i - 1 = j - 1
      BY <1>1, <3>1 DEF NoRepeat
    <3> QED
      BY <1>2, <1>5, <3>2
  <2> QED
    BY <2>1, <2>2
<1>9. Range(t) = Range(s)
  <2>1. ASSUME NEW i \in 1 .. Len(t) PROVE t[i] \in Range(s)
    BY <1>2, <1>5, <1>6, <1>7
  <2>2. ASSUME NEW i \in 1 .. Len(r) PROVE r[i] \in Range(t)
    <3>1. i + 1 \in 2 .. Len(t) /\ (i + 1) - 1 = i /\ i + 1 \in 1 .. Len(t)
      BY <1>1, <1>2, <1>5
    <3> QED
      BY <1>5, <1>6, <3>1
  <2>3. s[k] \in Range(t)
    BY <1>2, <1>5, <1>6
  <2>4. Range(r) \subseteq Range(t) /\ Range(t) \subseteq Range(s)
    BY <1>6, <2>1, <2>2
  <2> QED
    BY <1>1, <2>3, <2>4, Zenon
<1> QED
  BY <1>3, <1>5, <1>8, <1>9, Zenon DEF t, h, r

-----------------------------------------------------------------------------
(* The steps, with the buffer that each works on and what happens to the   *)
(* lists.                                                                  *)

\* The constants.
LEMMA Sizes ==
  ASSUME BcacheConstants
  PROVE  /\ NBUF \in Nat \ {0} /\ MaxHold \in Nat /\ Zero \in Value
         /\ None \notin Sector /\ None \notin [sec : Sector, write : BOOLEAN, val : Value]
         /\ Buf = 1 .. NBUF
BY Zenon DEF BcacheConstants, Buf

\* What a process holds is busy and nobody else's.
LEMMA HoldFacts ==
  ASSUME Inv
  PROVE  /\ \A p \in Proc :
              /\ Range(hold[p]) \subseteq busy /\ Range(hold[p]) \subseteq Buf /\ Len(hold[p]) \in Nat
              /\ hold[p] # <<>> => Last(hold[p]) \in Range(hold[p])
              /\ pc[p] \in InIO => Last(hold[p]) \in Range(hold[p])
         /\ \A p, q \in Proc : \A b \in Range(hold[p]) : b \in Range(hold[q]) => p = q
<1>1. ASSUME NEW p \in Proc
      PROVE  /\ Range(hold[p]) \subseteq busy /\ Range(hold[p]) \subseteq Buf /\ Len(hold[p]) \in Nat
             /\ hold[p] # <<>> => Last(hold[p]) \in Range(hold[p])
             /\ pc[p] \in InIO => Last(hold[p]) \in Range(hold[p])
  <2>1. hold[p] \in Seq(Buf) /\ (pc[p] \in InIO => hold[p] # <<>>)
    BY DEF Inv, Lists
  <2>2. Range(hold[p]) \subseteq Buf /\ Len(hold[p]) \in Nat /\ (hold[p] # <<>> => Last(hold[p]) \in Range(hold[p]))
    BY <2>1, RangeFacts, Zenon
  <2> QED
    BY <2>1, <2>2 DEF Inv, Held
<1>2. \A p, q \in Proc : \A b \in Range(hold[p]) : b \in Range(hold[q]) => p = q
  BY Zenon DEF Inv, Held
<1> QED
  BY <1>1, <1>2, Zenon

\* A busy buffer has a sector.
LEMMA BusyFacts ==
  ASSUME Inv
  PROVE  \A b \in busy : b \in Buf /\ bsec[b] \in Sector
BY DEF Inv, Held, TypeOK

\* What idestart sends for a busy buffer.
LEMMA CommandType ==
  ASSUME Inv
  PROVE  \A b \in busy : Command(b) \in [sec : Sector, write : BOOLEAN, val : Value]
<1> SUFFICES ASSUME NEW b \in busy PROVE Command(b) \in [sec : Sector, write : BOOLEAN, val : Value]
  BY Zenon
<1>1. bsec[b] \in Sector /\ data[b] \in Value
  BY BusyFacts DEF Inv, TypeOK
<1>2. (b \in dirty) \in BOOLEAN
  OBVIOUS
<1> QED
  BY <1>1, <1>2 DEF Command

\* A buffer in the queue is what a sleeper in iderw got last.
LEMMA QueueFacts ==
  ASSUME Inv
  PROVE  /\ \A b \in Range(idequeue) : b \in busy /\ b \in Buf
         /\ \A b \in Range(idequeue) :
              \E q \in Proc : pc[q] = "iosleep" /\ b = Last(hold[q]) /\ b \in Range(hold[q])
         /\ \A p \in Proc : pc[p] # "iosleep" => Range(hold[p]) \intersect Range(idequeue) = {}
         /\ idequeue # <<>> => Head(idequeue) \in Range(idequeue)
<1>1. ASSUME NEW b \in Range(idequeue)
      PROVE  \E q \in Proc : pc[q] = "iosleep" /\ b = Last(hold[q]) /\ b \in Range(hold[q])
  <2>1. PICK q \in Proc : pc[q] = "iosleep" /\ b = Last(hold[q])
    BY Zenon DEF Inv, Transfers
  <2>2. pc[q] \in InIO
    BY <2>1 DEF InIO
  <2> QED
    BY HoldFacts, <2>1, <2>2, Zenon
<1>2. idequeue # <<>> => Head(idequeue) \in Range(idequeue)
  BY RangeFacts, Zenon DEF Inv, Lists
<1>3. \A b \in Range(idequeue) : b \in busy /\ b \in Buf
  BY <1>1, HoldFacts, Zenon
<1>4. \A p \in Proc : pc[p] # "iosleep" => Range(hold[p]) \intersect Range(idequeue) = {}
  BY <1>1, HoldFacts, Zenon
<1> QED
  BY <1>1, <1>2, <1>3, <1>4, Zenon

\* p gets b.
Gets(p, b) ==
  /\ hold' \in [Proc -> Seq(Buf)] /\ \A q \in Proc \ {p} : hold'[q] = hold[q]
  /\ hold'[p] # <<>> /\ NoRepeat(hold'[p]) /\ Len(hold'[p]) = Len(hold[p]) + 1
  /\ Range(hold'[p]) = Range(hold[p]) \union {b} /\ Last(hold'[p]) = b

\* bget hands out an idle buffer.
LEMMA Getting ==
  ASSUME Inv, NEW p \in Proc, NEW b \in Buf, b \notin busy,
         hold' = [hold EXCEPT ![p] = Append(@, b)]
  PROVE  Gets(p, b)
<1>1. hold \in [Proc -> Seq(Buf)] /\ NoRepeat(hold[p]) /\ hold[p] \in Seq(Buf) /\ b \notin Range(hold[p])
  BY HoldFacts DEF Inv, Lists
<1>2. /\ Append(hold[p], b) \in Seq(Buf) /\ Append(hold[p], b) # <<>>
      /\ Len(Append(hold[p], b)) = Len(hold[p]) + 1
      /\ Range(Append(hold[p], b)) = Range(hold[p]) \union {b}
      /\ Last(Append(hold[p], b)) = b /\ NoRepeat(Append(hold[p], b))
  <2> DEFINE s == hold[p]
  <2>1. s \in Seq(Buf) /\ NoRepeat(s) /\ b \notin Range(s)
    BY <1>1
  <2> HIDE DEF s
  <2>2. /\ Append(s, b) \in Seq(Buf) /\ Append(s, b) # <<>> /\ Len(Append(s, b)) = Len(s) + 1
        /\ Range(Append(s, b)) = Range(s) \union {b} /\ Last(Append(s, b)) = b
    BY <2>1, AppendFacts
  <2>3. NoRepeat(Append(s, b))
    BY <2>1, AppendFacts, Zenon
  <2> QED
    BY <2>2, <2>3, Zenon DEF s
<1>3. hold'[p] = Append(hold[p], b) /\ \A q \in Proc \ {p} : hold'[q] = hold[q]
  BY <1>1, Zenon
<1>4. hold' \in [Proc -> Seq(Buf)]
  BY <1>1, <1>2, Zenon
<1> QED
  BY <1>2, <1>3, <1>4, Zenon DEF Gets

\* bget_hit with the buffer b that caches the sector.
Hit(p, b) ==
  /\ pc[p] = "bget" /\ bsec[b] = want[p] /\ b \notin busy
  /\ busy' = busy \union {b}
  /\ Gets(p, b)
  /\ pc' = [pc EXCEPT ![p] = IF b \in valid THEN "run" ELSE "iderw"]
  /\ want' = [want EXCEPT ![p] = None]
  /\ UNCHANGED <<bsec, data, valid, dirty, lru, ide, chan, panicked>>

\* bget's first loop returns an idle buffer of the sector.
LEMMA Hits ==
  ASSUME Inv, NEW p \in Proc, bget_hit(p)
  PROVE  \E b \in Buf : Hit(p, b)
<1>1. PICK b \in Cached(want[p]) :
        /\ b \notin busy
        /\ busy' = busy \union {b}
        /\ hold' = [hold EXCEPT ![p] = Append(@, b)]
        /\ pc' = [pc EXCEPT ![p] = IF b \in valid THEN "run" ELSE "iderw"]
  BY Zenon DEF bget_hit
<1>2. b \in Buf /\ bsec[b] = want[p]
  BY <1>1, Zenon DEF Cached
<1>3. Gets(p, b)
  BY <1>1, <1>2, Getting, Zenon
<1> QED
  BY <1>1, <1>2, <1>3, Zenon DEF bget_hit, Hit

\* bget_recycle with its victim b.
Recycles(p, b) ==
  /\ pc[p] = "bget" /\ (\A c \in Buf : bsec[c] # want[p]) /\ b \notin busy /\ b \notin dirty
  /\ bsec' = [bsec EXCEPT ![b] = want[p]]
  /\ busy' = busy \union {b}
  /\ valid' = valid \ {b}
  /\ Gets(p, b)
  /\ pc' = [pc EXCEPT ![p] = "iderw"]
  /\ want' = [want EXCEPT ![p] = None]
  /\ UNCHANGED <<data, dirty, lru, ide, chan, panicked>>

\* bget's second loop takes a buffer that is idle and clean.
LEMMA Recycling ==
  ASSUME BcacheConstants, Inv, NEW p \in Proc, bget_recycle(p)
  PROVE  \E b \in Buf : Recycles(p, b)
<1>1. NBUF \in Nat /\ Victims \in SUBSET (1 .. NBUF) /\ Victims # {}
  BY Sizes, Zenon DEF bget_recycle, Victims
<1>2. Max(Victims) \in Victims
  BY <1>1, MaxIn, Zenon
<1>3. lru \in [Buf -> Buf]
  BY DEF Inv, TypeOK
<1>4. Victim \in Buf /\ Victim \notin busy /\ Victim \notin dirty
  BY <1>2, <1>3, Zenon DEF Victim, Victims, Buf
<1>5. Gets(p, Victim)
  BY <1>4, Getting, Zenon DEF bget_recycle
<1>6. \A c \in Buf : bsec[c] # want[p]
  BY Zenon DEF bget_recycle, Cached
<1> QED
  BY <1>4, <1>5, <1>6, Zenon DEF bget_recycle, Recycles

\* brelse of b.
Releases(p, b) ==
  /\ pc[p] = "run" /\ b \in Range(hold[p])
  /\ lru' \in [Buf -> Buf] /\ Range(lru') = Buf /\ NoRepeat(lru')
  /\ busy' = busy \ {b}
  /\ hold' \in [Proc -> Seq(Buf)] /\ \A q \in Proc \ {p} : hold'[q] = hold[q]
  /\ NoRepeat(hold'[p]) /\ Len(hold'[p]) <= Len(hold[p])
  /\ Range(hold'[p]) = Range(hold[p]) \ {b}
  /\ pc' = Woken(b)
  /\ chan' = WokenChan(b)
  /\ UNCHANGED <<bsec, data, valid, dirty, ide, want, panicked>>

\* brelse takes one buffer from its holder and keeps the LRU list complete.
LEMMA Releasing ==
  ASSUME BcacheConstants, Inv, NEW p \in Proc, brelse(p)
  PROVE  \E b \in Buf : Releases(p, b)
<1>1. PICK i \in 1 .. Len(hold[p]), j \in Buf :
        /\ lru[j] = hold[p][i]
        /\ lru' = <<hold[p][i]>> \o RemoveAt(lru, j)
        /\ busy' = busy \ {hold[p][i]}
        /\ hold' = [hold EXCEPT ![p] = RemoveAt(@, i)]
        /\ pc' = Woken(hold[p][i])
        /\ chan' = WokenChan(hold[p][i])
  BY Zenon DEF brelse
<1> DEFINE b == hold[p][i]
<1>2. hold \in [Proc -> Seq(Buf)] /\ hold[p] \in Seq(Buf) /\ NoRepeat(hold[p]) /\ NoRepeat(lru)
  BY DEF Inv, Lists
<1>3. b \in Range(hold[p]) /\ b \in Buf /\ Len(hold[p]) \in Nat
  BY <1>2, RangeFacts
<1>4. lru \in Seq(Buf) /\ Len(lru) = NBUF /\ Range(lru) = Buf /\ j \in 1 .. Len(lru)
  <2>1. NBUF \in Nat /\ lru \in [1 .. NBUF -> Buf] /\ Range(lru) = Buf /\ j \in 1 .. NBUF
    BY Sizes, Zenon DEF Inv, TypeOK
  <2>2. lru \in Seq(Buf) /\ Len(lru) = NBUF
    BY <2>1
  <2> QED
    BY <2>1, <2>2
<1>5. lru' \in Seq(Buf) /\ Len(lru') = NBUF /\ Range(lru') = Buf /\ NoRepeat(lru')
  BY <1>1, <1>2, <1>4, MoveFacts, Zenon
<1>6. lru' \in [Buf -> Buf]
  BY <1>5, Sizes
<1>7. /\ RemoveAt(hold[p], i) \in Seq(Buf) /\ NoRepeat(RemoveAt(hold[p], i))
      /\ Len(RemoveAt(hold[p], i)) = Len(hold[p]) - 1
      /\ Range(RemoveAt(hold[p], i)) = Range(hold[p]) \ {b}
  BY <1>2, RemoveFacts, Zenon
<1>8. hold'[p] = RemoveAt(hold[p], i) /\ \A q \in Proc \ {p} : hold'[q] = hold[q]
  BY <1>1, <1>2, Zenon
<1>9. hold' \in [Proc -> Seq(Buf)]
  BY <1>1, <1>2, <1>7, Zenon
<1>10. Len(hold'[p]) <= Len(hold[p])
  BY <1>3, <1>7, <1>8
<1>11. pc[p] = "run" /\ UNCHANGED <<bsec, data, valid, dirty, ide, want, panicked>>
  BY Zenon DEF brelse
<1> QED
  BY <1>1, <1>3, <1>5, <1>6, <1>7, <1>8, <1>9, <1>10, <1>11, Zenon DEF Releases

\* iderw's first part, for the buffer that p got last.
Queues(p) ==
  /\ pc[p] = "iderw" /\ Last(hold[p]) \notin Range(idequeue)
  /\ idequeue' \in Seq(Buf) /\ NoRepeat(idequeue') /\ idequeue' # <<>>
  /\ Range(idequeue') = Range(idequeue) \union {Last(hold[p])}
  /\ Head(idequeue') = IF idequeue = <<>> THEN Last(hold[p]) ELSE Head(idequeue)
  /\ cmd' = IF idequeue = <<>> THEN Command(Last(hold[p])) ELSE cmd
  /\ chan' = [chan EXCEPT ![p] = Last(hold[p])]
  /\ pc' = [pc EXCEPT ![p] = "iosleep"]
  /\ UNCHANGED <<cache, disk, irq, want, hold, panicked>>

\* iderw puts a buffer into the queue that is not there yet.
LEMMA Queueing ==
  ASSUME Inv, NEW p \in Proc, iderw(p)
  PROVE  Queues(p)
<1> DEFINE b == Last(hold[p])
<1>1. pc[p] = "iderw" /\ pc[p] \in InIO
  BY DEF iderw, InIO
<1>2. b \in Buf /\ b \in Range(hold[p])
  BY <1>1, HoldFacts
<1>3. b \notin Range(idequeue)
  BY <1>1, <1>2, QueueFacts, Zenon
<1>4. idequeue \in Seq(Buf) /\ NoRepeat(idequeue)
  BY DEF Inv, Lists
<1> DEFINE t == Append(idequeue, b)
<1>5. t \in Seq(Buf) /\ NoRepeat(t) /\ t # <<>> /\ Range(t) = Range(idequeue) \union {b}
  <2>1. ASSUME NEW s, s \in Seq(Buf), NoRepeat(s), NEW c \in Buf, c \notin Range(s)
        PROVE  /\ Append(s, c) \in Seq(Buf) /\ NoRepeat(Append(s, c)) /\ Append(s, c) # <<>>
               /\ Range(Append(s, c)) = Range(s) \union {c}
    BY <2>1, AppendFacts
  <2> HIDE DEF b
  <2> QED
    BY <1>2, <1>3, <1>4, <2>1, Zenon
<1>6. Head(t) = IF idequeue = <<>> THEN b ELSE Head(idequeue)
  BY <1>2, <1>4
<1>7. idequeue' = t
  BY Zenon DEF iderw
<1> HIDE DEF t
<1> QED
  BY <1>1, <1>3, <1>5, <1>6, <1>7, Zenon DEF iderw, Queues

\* ideintr for b, the first buffer of the queue.
Completes(b) ==
  /\ irq /\ idequeue # <<>> /\ b = Head(idequeue) /\ b \in Range(idequeue)
  /\ idequeue' \in Seq(Buf) /\ NoRepeat(idequeue') /\ Range(idequeue') = Range(idequeue) \ {b}
  /\ idequeue' # <<>> => Head(idequeue') \in Range(idequeue')
  /\ \/ data' = data /\ (b \in dirty \/ DiskErrors)
     \/ data' = [data EXCEPT ![b] = disk[cmd.sec]] /\ b \notin dirty
  /\ valid' = valid \union {b}
  /\ dirty' = dirty \ {b}
  /\ pc' = Woken(b)
  /\ chan' = WokenChan(b)
  /\ cmd' = IF idequeue' = <<>> THEN None ELSE Command(Head(idequeue'))
  /\ irq' = FALSE
  /\ UNCHANGED <<disk, bsec, busy, lru, want, hold, panicked>>

\* ideintr takes the buffer from the queue.
LEMMA Completing ==
  ASSUME BcacheConstants, Inv, ideintr
  PROVE  \E b \in Buf : Completes(b)
<1> DEFINE b == Head(idequeue)
           t == Tail(idequeue)
<1>1. idequeue \in Seq(Buf) /\ NoRepeat(idequeue) /\ idequeue # <<>> /\ irq
  BY DEF Inv, Lists, ideintr
<1>2. b \in Range(idequeue) /\ b \in Buf
  BY <1>1, RangeFacts
<1>3. t \in Seq(Buf) /\ NoRepeat(t) /\ Range(t) = Range(idequeue) \ {b}
  BY <1>1, TailFacts, Zenon
<1>4. t # <<>> => Head(t) \in Range(t)
  BY <1>3, RangeFacts, Zenon
<1>5. \/ data' = data /\ (b \in dirty \/ DiskErrors)
      \/ data' = [data EXCEPT ![b] = disk[cmd.sec]] /\ b \notin dirty
  <2>1. PICK err \in {FALSE, DiskErrors} :
          data' = IF b \in dirty \/ err THEN data ELSE [data EXCEPT ![b] = disk[cmd.sec]]
    BY Zenon DEF ideintr
  <2>2. CASE err
    BY <2>1, <2>2, Zenon
  <2>3. CASE ~err
    BY <2>1, <2>3, Zenon
  <2> QED
    BY <2>2, <2>3
<1>6. /\ idequeue' = t /\ valid' = valid \union {b} /\ dirty' = dirty \ {b}
      /\ pc' = Woken(b) /\ chan' = WokenChan(b) /\ irq' = FALSE
      /\ cmd' = IF t = <<>> THEN None ELSE Command(Head(t))
      /\ UNCHANGED <<disk, bsec, busy, lru, want, hold, panicked>>
  BY Zenon DEF ideintr
<1> HIDE DEF t
<1> QED
  BY <1>1, <1>2, <1>3, <1>4, <1>5, <1>6, Zenon DEF Completes

-----------------------------------------------------------------------------
(* Every step keeps the invariant, conjunct by conjunct.                   *)

\* Every step keeps the types; the command always has a sector.
LEMMA TypeStep ==
  ASSUME BcacheConstants, Inv, [Next]_vars
  PROVE  TypeOK'
<1>i. TypeOK /\ Lists /\ Transfers /\ Controller
  BY Zenon DEF Inv
<1>f. \A b \in busy : Command(b) \in [sec : Sector, write : BOOLEAN, val : Value]
  BY CommandType, Zenon
<1>1. ASSUME NEW p \in Proc, NEW s \in Sector, bread(p, s) PROVE TypeOK'
  <2>1. pc' \in [Proc -> PC] /\ want' \in [Proc -> Sector \union {None}]
    BY <1>i, <1>1 DEF TypeOK, PC, bread, cache, ide, procs
  <2> QED
    BY <1>i, <1>1, <2>1, Zenon DEF TypeOK, bread, cache, ide, procs
<1>2. ASSUME NEW p \in Proc, NEW b \in Buf, Hit(p, b) PROVE TypeOK'
  <2>1. busy' \subseteq Buf /\ valid' \subseteq Buf /\ dirty' \subseteq Buf
    BY <1>i, <1>2, HoldFacts DEF TypeOK, Hit, Gets, cache, ide, procs
  <2>2. pc' \in [Proc -> PC] /\ want' \in [Proc -> Sector \union {None}]
    BY <1>i, <1>2 DEF TypeOK, PC, Hit, Gets, cache, ide, procs
  <2>3. \A q \in Proc : Range(hold'[q]) \subseteq Buf /\ Len(hold'[q]) <= MaxHold
    <3>1. /\ Range(hold[p]) \subseteq Buf /\ Len(hold[p]) \in Nat /\ MaxHold \in Nat
          /\ Len(hold[p]) < MaxHold /\ Gets(p, b) /\ \A q \in Proc : Range(hold[q]) \subseteq Buf /\ Len(hold[q]) <= MaxHold
      BY <1>i, <1>2, HoldFacts, Sizes DEF TypeOK, Lists, Hit
    <3>2. Range(hold'[p]) \subseteq Buf /\ Len(hold'[p]) <= MaxHold
      BY <3>1 DEF Gets
    <3> QED
      BY <3>1, <3>2, ZenonT(30) DEF Gets
  <2> QED
    BY <1>i, <1>2, <2>1, <2>2, <2>3, ZenonT(30) DEF TypeOK, Hit, cache, ide, procs
<1>3. ASSUME NEW p \in Proc, bget_sleep(p) PROVE TypeOK'
  <2>1. pc' \in [Proc -> PC] /\ want' \in [Proc -> Sector \union {None}]
    BY <1>i, <1>3 DEF TypeOK, PC, bget_sleep, Cached, cache, ide, procs
  <2>2. chan' \in [Proc -> Buf \union {None}]
    BY <1>i, <1>3, HoldFacts DEF TypeOK, InIO, bget_sleep, Cached, cache, ide, procs
  <2> QED
    BY <1>i, <1>3, <2>1, <2>2, ZenonT(30) DEF TypeOK, bget_sleep, cache, ide, procs
<1>4. ASSUME NEW p \in Proc, NEW b \in Buf, Recycles(p, b) PROVE TypeOK'
  <2>1. disk' \in [Sector -> Value] /\ bsec' \in [Buf -> Sector \union {None}]
    BY <1>i, <1>4, HoldFacts DEF TypeOK, Lists, Recycles, Gets, cache, ide, procs
  <2>2. busy' \subseteq Buf /\ valid' \subseteq Buf /\ dirty' \subseteq Buf
    BY <1>i, <1>4, HoldFacts DEF TypeOK, Recycles, Gets, cache, ide, procs
  <2>3. pc' \in [Proc -> PC] /\ want' \in [Proc -> Sector \union {None}]
    BY <1>i, <1>4 DEF TypeOK, PC, Recycles, Gets, cache, ide, procs
  <2>4. \A q \in Proc : Range(hold'[q]) \subseteq Buf /\ Len(hold'[q]) <= MaxHold
    <3>1. /\ Range(hold[p]) \subseteq Buf /\ Len(hold[p]) \in Nat /\ MaxHold \in Nat
          /\ Len(hold[p]) < MaxHold /\ Gets(p, b) /\ \A q \in Proc : Range(hold[q]) \subseteq Buf /\ Len(hold[q]) <= MaxHold
      BY <1>i, <1>4, HoldFacts, Sizes, Zenon DEF TypeOK, Lists, Recycles
    <3>2. Range(hold'[p]) \subseteq Buf /\ Len(hold'[p]) <= MaxHold
      BY <3>1 DEF Gets
    <3> QED
      BY <3>1, <3>2, Zenon DEF Gets
  <2> QED
    BY <1>i, <1>4, <2>1, <2>2, <2>3, <2>4, ZenonT(30) DEF TypeOK, Recycles, cache, ide, procs
<1>5. ASSUME NEW p \in Proc, bget_panic(p) PROVE TypeOK'
  <2>1. irq' \in BOOLEAN /\ panicked' \in BOOLEAN
    BY <1>i, <1>5, Zenon DEF TypeOK, bget_panic, cache, ide, procs
  <2> QED
    BY <1>i, <1>5, <2>1, Zenon DEF TypeOK, bget_panic, cache, ide, procs
<1>6. ASSUME NEW p \in Proc, NEW v \in Value, bwrite(p, v) PROVE TypeOK'
  <2>1. data' \in [Buf -> Value]
    BY <1>i, <1>6, HoldFacts, Zenon DEF TypeOK, Lists, bwrite, cache, ide, procs
  <2>2. busy' \subseteq Buf /\ valid' \subseteq Buf /\ dirty' \subseteq Buf
    <3>1. Last(hold[p]) \in Buf /\ Last(hold[p]) \in busy /\ pc[p] \in PC
      BY <1>i, <1>6, HoldFacts, Zenon DEF TypeOK, InIO, bwrite
    <3> QED
      BY <1>i, <1>f, <1>6, <3>1, Zenon DEF TypeOK, bwrite, cache, ide, procs
  <2>3. pc' \in [Proc -> PC] /\ want' \in [Proc -> Sector \union {None}]
    BY <1>i, <1>6, Zenon DEF TypeOK, PC, bwrite, cache, ide, procs
  <2> QED
    BY <1>i, <1>6, <2>1, <2>2, <2>3, Zenon DEF TypeOK, bwrite, cache, ide, procs
<1>7. ASSUME NEW p \in Proc, NEW v \in Value, log_write(p, v) PROVE TypeOK'
  <2>1. data' \in [Buf -> Value]
    BY <1>i, <1>7, HoldFacts, Zenon DEF TypeOK, Lists, log_write, cache, ide, procs
  <2>2. busy' \subseteq Buf /\ valid' \subseteq Buf /\ dirty' \subseteq Buf
    <3>1. Last(hold[p]) \in Buf /\ Last(hold[p]) \in busy /\ pc[p] \in PC
      BY <1>i, <1>7, HoldFacts, Zenon DEF TypeOK, InIO, log_write
    <3> QED
      BY <1>i, <1>f, <1>7, <3>1, Zenon DEF TypeOK, log_write, cache, ide, procs
  <2> QED
    BY <1>i, <1>7, <2>1, <2>2, Zenon DEF TypeOK, log_write, cache, ide, procs
<1>8. ASSUME NEW p \in Proc, NEW b \in Buf, Releases(p, b) PROVE TypeOK'
  <2>1. busy' \subseteq Buf /\ valid' \subseteq Buf /\ dirty' \subseteq Buf
    BY <1>i, <1>8, HoldFacts, Zenon DEF TypeOK, Releases, Woken, WokenChan, cache, ide, procs
  <2>2. lru' \in [Buf -> Buf] /\ Range(lru') = Buf /\ Range(idequeue') \subseteq Buf
    BY <1>i, <1>8, HoldFacts, Zenon DEF TypeOK, InIO, Releases, Woken, WokenChan, cache, ide, procs
  <2>3. pc' \in [Proc -> PC] /\ want' \in [Proc -> Sector \union {None}]
    BY <1>i, <1>8, Zenon DEF TypeOK, PC, Releases, Woken, WokenChan, cache, ide, procs
  <2>4. chan' \in [Proc -> Buf \union {None}]
    BY <1>i, <1>8, HoldFacts, Zenon DEF TypeOK, InIO, Releases, Woken, WokenChan, cache, ide, procs
  <2>5. \A q \in Proc : Range(hold'[q]) \subseteq Buf /\ Len(hold'[q]) <= MaxHold
    <3>1. /\ Range(hold'[p]) \subseteq Range(hold[p]) /\ Len(hold'[p]) <= Len(hold[p]) /\ hold'[p] \in Seq(Buf)
          /\ Len(hold[p]) \in Nat /\ MaxHold \in Nat
          /\ (\A q \in Proc : Range(hold[q]) \subseteq Buf /\ Len(hold[q]) <= MaxHold)
          /\ \A q \in Proc \ {p} : hold'[q] = hold[q]
      BY <1>i, <1>8, HoldFacts, Sizes, ZenonT(30) DEF TypeOK, Releases
    <3>2. Range(hold'[p]) \subseteq Buf /\ Len(hold'[p]) <= MaxHold
      BY <3>1
    <3> QED
      BY <3>1, <3>2, Zenon
  <2> QED
    BY <1>i, <1>8, <2>1, <2>2, <2>3, <2>4, <2>5, ZenonT(30) DEF TypeOK, Releases, cache, ide, procs
<1>9. ASSUME NEW p \in Proc, Queues(p) PROVE TypeOK'
  <2>1. lru' \in [Buf -> Buf] /\ Range(lru') = Buf /\ Range(idequeue') \subseteq Buf
    <3>1. Last(hold[p]) \in Buf /\ Last(hold[p]) \in busy /\ pc[p] \in PC
      BY <1>i, <1>9, HoldFacts, Zenon DEF TypeOK, InIO, Queues
    <3> QED
      BY <1>i, <1>f, <1>9, <3>1, Zenon DEF TypeOK, Queues, cache, ide, procs
  <2>2. cmd' \in [sec : Sector, write : BOOLEAN, val : Value] \union {None}
    <3>1. Last(hold[p]) \in Buf /\ Last(hold[p]) \in busy /\ pc[p] \in PC
      BY <1>i, <1>9, HoldFacts DEF TypeOK, InIO, Queues
    <3> QED
      BY <1>i, <1>f, <1>9, <3>1, ZenonT(30) DEF TypeOK, Queues, cache, ide, procs
  <2>3. pc' \in [Proc -> PC] /\ want' \in [Proc -> Sector \union {None}]
    BY <1>i, <1>9, Zenon DEF TypeOK, PC, Queues, cache, ide, procs
  <2>4. chan' \in [Proc -> Buf \union {None}]
    BY <1>i, <1>9, HoldFacts, Zenon DEF TypeOK, InIO, Queues, cache, ide, procs
  <2> QED
    BY <1>i, <1>9, <2>1, <2>2, <2>3, <2>4, Zenon DEF TypeOK, Queues, cache, ide, procs
<1>10. ASSUME NEW p \in Proc, iderw_loop(p) PROVE TypeOK'
  <2>1. pc' \in [Proc -> PC] /\ want' \in [Proc -> Sector \union {None}]
    BY <1>i, <1>10, Zenon DEF TypeOK, PC, iderw_loop, cache, ide, procs
  <2>2. chan' \in [Proc -> Buf \union {None}]
    BY <1>i, <1>10, Zenon DEF TypeOK, Transfers, iderw_loop
  <2> QED
    BY <1>i, <1>10, <2>1, <2>2, Zenon DEF TypeOK, iderw_loop, cache, ide, procs
<1>11. ASSUME controller PROVE TypeOK'
  <2>1. disk' \in [Sector -> Value] /\ bsec' \in [Buf -> Sector \union {None}]
    BY <1>i, <1>11, HoldFacts, Zenon DEF TypeOK, Lists, controller, cache, ide, procs
  <2>2. irq' \in BOOLEAN /\ panicked' \in BOOLEAN
    BY <1>i, <1>11, Zenon DEF TypeOK, controller, cache, ide, procs
  <2> QED
    BY <1>i, <1>11, <2>1, <2>2, Zenon DEF TypeOK, controller, cache, ide, procs
<1>12. ASSUME NEW b \in Buf, Completes(b) PROVE TypeOK'
  <2>1. data' \in [Buf -> Value]
    <3>1. cmd \in [sec : Sector, write : BOOLEAN, val : Value]
      BY <1>i, <1>12, ZenonT(30) DEF TypeOK, Controller, Completes
    <3>2. disk[cmd.sec] \in Value
      BY <1>i, <3>1 DEF TypeOK
    <3>3. data \in [Buf -> Value]
      BY <1>i, Zenon DEF TypeOK
    <3> QED
      BY <1>12, <3>2, <3>3, Zenon DEF Completes
  <2>2. busy' \subseteq Buf /\ valid' \subseteq Buf /\ dirty' \subseteq Buf
    BY <1>i, <1>12, HoldFacts, Zenon DEF TypeOK, Completes, Woken, WokenChan, cache, ide, procs
  <2>3. irq' \in BOOLEAN /\ panicked' \in BOOLEAN
    BY <1>i, <1>12, Zenon DEF TypeOK, Completes, Woken, WokenChan, cache, ide, procs
  <2>4. lru' \in [Buf -> Buf] /\ Range(lru') = Buf /\ Range(idequeue') \subseteq Buf
    BY <1>i, <1>12, HoldFacts, Zenon DEF TypeOK, InIO, Completes, Woken, WokenChan, cache, ide, procs
  <2>5. cmd' \in [sec : Sector, write : BOOLEAN, val : Value] \union {None}
    <3>1. idequeue' # <<>> => Head(idequeue') \in busy
      BY <1>12, QueueFacts, Zenon DEF Completes
    <3> QED
      BY <1>f, <1>12, <3>1, Zenon DEF Completes
  <2>6. pc' \in [Proc -> PC] /\ want' \in [Proc -> Sector \union {None}]
    BY <1>i, <1>12, Zenon DEF TypeOK, PC, Completes, Woken, WokenChan, cache, ide, procs
  <2>7. chan' \in [Proc -> Buf \union {None}]
    BY <1>i, <1>12, HoldFacts, Zenon DEF TypeOK, InIO, Completes, Woken, WokenChan, cache, ide, procs
  <2> QED
    BY <1>i, <1>12, <2>1, <2>2, <2>3, <2>4, <2>5, <2>6, <2>7, ZenonT(30) DEF TypeOK, Completes, cache, ide, procs
<1>13. CASE UNCHANGED vars
  BY <1>i, <1>13, ZenonT(30) DEF vars, cache, ide, procs, TypeOK, Lists, Transfers, Controller, Command, OneBufferPerSector, Clean
<1> QED
  BY <1>1, <1>2, <1>3, <1>4, <1>5, <1>6, <1>7, <1>8, <1>9, <1>10, <1>11, <1>12, <1>13,
     Hits, Recycling, Releasing, Queueing, Completing, ZenonT(30)
     DEF Next, Running, bget, sync

\* Every step keeps the lists without repetition.
LEMMA ListsStep ==
  ASSUME BcacheConstants, Inv, [Next]_vars
  PROVE  Lists'
<1>i. TypeOK /\ Lists /\ Transfers
  BY Zenon DEF Inv
<1>1. ASSUME NEW p \in Proc, NEW s \in Sector, bread(p, s) PROVE Lists'
  <2>w. /\ pc[p] = "run" /\ pc'[p] = "bget" /\ want'[p] = s /\ Len(hold[p]) < MaxHold /\ (\A q \in Proc \ {p} : pc'[q] = pc[q] /\ want'[q] = want[q])
        /\ UNCHANGED <<lru, idequeue, hold, chan>>
    BY <1>i, <1>1, Zenon DEF TypeOK, bread, cache, ide, procs
  <2>1. \A q \in Proc : pc'[q] \in InIO => hold'[q] # <<>>
    BY <1>i, <2>w, Zenon DEF Lists, InIO
  <2>2. \A q \in Proc : pc'[q] \in {"bget", "bsleep"} => want'[q] \in Sector /\ Len(hold'[q]) < MaxHold
    BY <1>i, <2>w, Zenon DEF Lists
  <2>3. \A q \in Proc : pc'[q] \notin {"bsleep", "iosleep"} => chan'[q] = None
    BY <1>i, <2>w, Zenon DEF Lists
  <2> QED
    BY <1>i, <2>w, <2>1, <2>2, <2>3, Zenon DEF Lists
<1>2. ASSUME NEW p \in Proc, NEW b \in Buf, Hit(p, b) PROVE Lists'
  <2>w. /\ pc'[p] \in {"run", "iderw"} /\ pc[p] = "bget" /\ (\A q \in Proc \ {p} : pc'[q] = pc[q] /\ want'[q] = want[q])
        /\ UNCHANGED <<lru, idequeue, chan>> /\ Gets(p, b)
    BY <1>i, <1>2, Zenon DEF TypeOK, Hit, cache, ide, procs
  <2>1. hold' \in [Proc -> Seq(Buf)] /\ idequeue' \in Seq(Buf)
    BY <1>i, <2>w, Zenon DEF Lists, Gets
  <2>2. NoRepeat(lru') /\ NoRepeat(idequeue') /\ \A q \in Proc : NoRepeat(hold'[q])
    BY <1>i, <2>w, Zenon DEF Lists, Gets
  <2>3. \A q \in Proc : pc'[q] \in InIO => hold'[q] # <<>>
    BY <1>i, <2>w, Zenon DEF Lists, Gets, InIO
  <2>4. \A q \in Proc : pc'[q] \in {"bget", "bsleep"} => want'[q] \in Sector /\ Len(hold'[q]) < MaxHold
    BY <1>i, <2>w, Zenon DEF Lists, Gets
  <2>5. \A q \in Proc : pc'[q] \notin {"bsleep", "iosleep"} => chan'[q] = None
    BY <1>i, <2>w, Zenon DEF Lists
  <2> QED
    BY <2>1, <2>2, <2>3, <2>4, <2>5, Zenon DEF Lists
<1>3. ASSUME NEW p \in Proc, bget_sleep(p) PROVE Lists'
  <2>w. /\ pc'[p] = "bsleep" /\ pc[p] = "bget" /\ (\A q \in Proc \ {p} : pc'[q] = pc[q] /\ chan'[q] = chan[q])
        /\ UNCHANGED <<lru, idequeue, hold, want>>
    BY <1>i, <1>3, Zenon DEF TypeOK, bget_sleep, Cached, cache, ide, procs
  <2>1. \A q \in Proc : pc'[q] \in InIO => hold'[q] # <<>>
    BY <1>i, <2>w, Zenon DEF Lists, InIO
  <2>2. \A q \in Proc : pc'[q] \in {"bget", "bsleep"} => want'[q] \in Sector /\ Len(hold'[q]) < MaxHold
    BY <1>i, <2>w, Zenon DEF Lists
  <2>3. \A q \in Proc : pc'[q] \notin {"bsleep", "iosleep"} => chan'[q] = None
    BY <1>i, <2>w, Zenon DEF Lists
  <2> QED
    BY <1>i, <2>w, <2>1, <2>2, <2>3, Zenon DEF Lists
<1>4. ASSUME NEW p \in Proc, NEW b \in Buf, Recycles(p, b) PROVE Lists'
  <2>w. /\ pc'[p] = "iderw" /\ pc[p] = "bget" /\ (\A q \in Proc \ {p} : pc'[q] = pc[q] /\ want'[q] = want[q])
        /\ UNCHANGED <<lru, idequeue, chan>> /\ Gets(p, b)
    BY <1>i, <1>4, Zenon DEF TypeOK, Recycles, cache, ide, procs
  <2>1. hold' \in [Proc -> Seq(Buf)] /\ idequeue' \in Seq(Buf)
    BY <1>i, <2>w, Zenon DEF Lists, Gets
  <2>2. NoRepeat(lru') /\ NoRepeat(idequeue') /\ \A q \in Proc : NoRepeat(hold'[q])
    BY <1>i, <2>w, Zenon DEF Lists, Gets
  <2>3. \A q \in Proc : pc'[q] \in InIO => hold'[q] # <<>>
    BY <1>i, <2>w, Zenon DEF Lists, Gets, InIO
  <2>4. \A q \in Proc : pc'[q] \in {"bget", "bsleep"} => want'[q] \in Sector /\ Len(hold'[q]) < MaxHold
    BY <1>i, <2>w, Zenon DEF Lists, Gets
  <2>5. \A q \in Proc : pc'[q] \notin {"bsleep", "iosleep"} => chan'[q] = None
    BY <1>i, <2>w, Zenon DEF Lists
  <2> QED
    BY <2>1, <2>2, <2>3, <2>4, <2>5, Zenon DEF Lists
<1>5. ASSUME NEW p \in Proc, bget_panic(p) PROVE Lists'
  BY <1>i, <1>5, Zenon DEF Lists, bget_panic, cache, ide, procs
<1>6. ASSUME NEW p \in Proc, NEW v \in Value, bwrite(p, v) PROVE Lists'
  <2>w. /\ pc'[p] = "iderw" /\ pc[p] = "run" /\ hold[p] # <<>> /\ (\A q \in Proc \ {p} : pc'[q] = pc[q])
        /\ UNCHANGED <<lru, idequeue, want, chan, hold>>
    BY <1>i, <1>6, Zenon DEF TypeOK, bwrite, cache, ide, procs
  <2>1. \A q \in Proc : pc'[q] \in InIO => hold'[q] # <<>>
    BY <1>i, <2>w, Zenon DEF Lists, InIO
  <2>2. \A q \in Proc : pc'[q] \in {"bget", "bsleep"} => want'[q] \in Sector /\ Len(hold'[q]) < MaxHold
    BY <1>i, <2>w, Zenon DEF Lists
  <2>3. \A q \in Proc : pc'[q] \notin {"bsleep", "iosleep"} => chan'[q] = None
    BY <1>i, <2>w, Zenon DEF Lists
  <2> QED
    BY <1>i, <2>w, <2>1, <2>2, <2>3, Zenon DEF Lists
<1>7. ASSUME NEW p \in Proc, NEW v \in Value, log_write(p, v) PROVE Lists'
  BY <1>i, <1>7, Zenon DEF Lists, log_write, cache, ide, procs
<1>8. ASSUME NEW p \in Proc, NEW b \in Buf, Releases(p, b) PROVE Lists'
  <2>w. /\ (\A q \in Proc : pc'[q] = Woken(b)[q] /\ chan'[q] = WokenChan(b)[q]) /\ pc[p] = "run"
        /\ UNCHANGED <<idequeue, want>> /\ NoRepeat(lru') /\ NoRepeat(hold'[p])
        /\ hold' \in [Proc -> Seq(Buf)] /\ (\A q \in Proc \ {p} : hold'[q] = hold[q])
    BY <1>i, <1>8, Zenon DEF TypeOK, Releases, cache, ide, procs
  <2>1. hold' \in [Proc -> Seq(Buf)] /\ idequeue' \in Seq(Buf)
    BY <1>i, <2>w, Zenon DEF Lists
  <2>2. NoRepeat(lru') /\ NoRepeat(idequeue') /\ \A q \in Proc : NoRepeat(hold'[q])
    BY <1>i, <2>w, Zenon DEF Lists
  <2>3. \A q \in Proc : pc'[q] \in InIO => hold'[q] # <<>>
    BY <1>i, <2>w, ZenonT(30) DEF Lists, Woken, WokenChan, InIO
  <2>4. \A q \in Proc : pc'[q] \in {"bget", "bsleep"} => want'[q] \in Sector /\ Len(hold'[q]) < MaxHold
    BY <1>i, <2>w, Zenon DEF Lists, Woken, WokenChan
  <2>5. \A q \in Proc : pc'[q] \notin {"bsleep", "iosleep"} => chan'[q] = None
    BY <1>i, <2>w, Zenon DEF Lists, Woken, WokenChan
  <2> QED
    BY <2>1, <2>2, <2>3, <2>4, <2>5, Zenon DEF Lists
<1>9. ASSUME NEW p \in Proc, Queues(p) PROVE Lists'
  <2>w. /\ pc'[p] = "iosleep" /\ pc[p] = "iderw" /\ (\A q \in Proc \ {p} : pc'[q] = pc[q] /\ chan'[q] = chan[q])
        /\ UNCHANGED <<lru, want, hold>> /\ idequeue' \in Seq(Buf) /\ NoRepeat(idequeue')
    BY <1>i, <1>9, Zenon DEF TypeOK, Queues, cache, ide, procs
  <2>1. hold' \in [Proc -> Seq(Buf)] /\ idequeue' \in Seq(Buf)
    BY <1>i, <2>w, Zenon DEF Lists
  <2>2. NoRepeat(lru') /\ NoRepeat(idequeue') /\ \A q \in Proc : NoRepeat(hold'[q])
    BY <1>i, <2>w, Zenon DEF Lists
  <2>3. \A q \in Proc : pc'[q] \in InIO => hold'[q] # <<>>
    BY <1>i, <2>w, Zenon DEF Lists, InIO
  <2>4. \A q \in Proc : pc'[q] \in {"bget", "bsleep"} => want'[q] \in Sector /\ Len(hold'[q]) < MaxHold
    BY <1>i, <2>w, Zenon DEF Lists
  <2>5. \A q \in Proc : pc'[q] \notin {"bsleep", "iosleep"} => chan'[q] = None
    BY <1>i, <2>w, Zenon DEF Lists
  <2> QED
    BY <2>1, <2>2, <2>3, <2>4, <2>5, Zenon DEF Lists
<1>10. ASSUME NEW p \in Proc, iderw_loop(p) PROVE Lists'
  <2>w. /\ pc'[p] = "run" /\ pc[p] = "iowait" /\ (\A q \in Proc \ {p} : pc'[q] = pc[q])
        /\ UNCHANGED <<lru, idequeue, want, chan, hold>>
    BY <1>i, <1>10, ZenonT(30) DEF TypeOK, iderw_loop, cache, ide, procs, Transfers
  <2>1. \A q \in Proc : pc'[q] \in InIO => hold'[q] # <<>>
    BY <1>i, <2>w, Zenon DEF Lists, InIO
  <2>2. \A q \in Proc : pc'[q] \in {"bget", "bsleep"} => want'[q] \in Sector /\ Len(hold'[q]) < MaxHold
    BY <1>i, <2>w, Zenon DEF Lists
  <2>3. \A q \in Proc : pc'[q] \notin {"bsleep", "iosleep"} => chan'[q] = None
    BY <1>i, <2>w, Zenon DEF Lists
  <2> QED
    BY <1>i, <2>w, <2>1, <2>2, <2>3, Zenon DEF Lists
<1>11. ASSUME controller PROVE Lists'
  BY <1>i, <1>11, Zenon DEF Lists, controller, cache, ide, procs
<1>12. ASSUME NEW b \in Buf, Completes(b) PROVE Lists'
  <2>w. /\ (\A q \in Proc : pc'[q] = Woken(b)[q] /\ chan'[q] = WokenChan(b)[q])
        /\ UNCHANGED <<lru, hold, want>> /\ idequeue' \in Seq(Buf) /\ NoRepeat(idequeue')
    BY <1>i, <1>12, Zenon DEF TypeOK, Completes, cache, ide, procs
  <2>1. hold' \in [Proc -> Seq(Buf)] /\ idequeue' \in Seq(Buf)
    BY <1>i, <2>w, Zenon DEF Lists
  <2>2. NoRepeat(lru') /\ NoRepeat(idequeue') /\ \A q \in Proc : NoRepeat(hold'[q])
    BY <1>i, <2>w, Zenon DEF Lists
  <2>3. \A q \in Proc : pc'[q] \in InIO => hold'[q] # <<>>
    BY <1>i, <2>w, Zenon DEF Lists, Woken, WokenChan, InIO
  <2>4. \A q \in Proc : pc'[q] \in {"bget", "bsleep"} => want'[q] \in Sector /\ Len(hold'[q]) < MaxHold
    BY <1>i, <2>w, Zenon DEF Lists, Woken, WokenChan
  <2>5. \A q \in Proc : pc'[q] \notin {"bsleep", "iosleep"} => chan'[q] = None
    BY <1>i, <2>w, Zenon DEF Lists, Woken, WokenChan
  <2> QED
    BY <2>1, <2>2, <2>3, <2>4, <2>5, Zenon DEF Lists
<1>13. CASE UNCHANGED vars
  BY <1>i, <1>13, ZenonT(30) DEF vars, cache, ide, procs, TypeOK, Lists, Transfers
<1> QED
  BY <1>1, <1>2, <1>3, <1>4, <1>5, <1>6, <1>7, <1>8, <1>9, <1>10, <1>11, <1>12, <1>13,
     Hits, Recycling, Releasing, Queueing, Completing, Zenon
     DEF Next, Running, bget, sync

\* A buffer has one holder and a sector one buffer through hits, recycling and
\* release.
LEMMA HeldStep ==
  ASSUME BcacheConstants, Inv, [Next]_vars
  PROVE  Held'
<1>i. TypeOK /\ Lists /\ Held /\ Transfers
  BY Zenon DEF Inv
<1>1. ASSUME NEW p \in Proc, NEW s \in Sector, bread(p, s) PROVE Held'
  BY <1>i, <1>1, Zenon DEF Held, OneBufferPerSector, bread, cache, ide, procs
<1>2. ASSUME NEW p \in Proc, NEW b \in Buf, Hit(p, b) PROVE Held'
  <2>w. /\ UNCHANGED <<bsec, valid, dirty>> /\ busy' = busy \union {b} /\ b \notin busy
        /\ bsec[b] = want[p] /\ want[p] \in Sector
        /\ (\A q \in Proc \ {p} : Range(hold'[q]) = Range(hold[q])) /\ Range(hold'[p]) = Range(hold[p]) \union {b}
    <3>1. want[p] \in Sector
      BY <1>i, <1>2, Zenon DEF Lists, Hit
    <3> QED
      BY <1>2, <3>1, Zenon DEF Hit, Gets
  <2>1. \A c \in Buf : c \in busy' <=> \E q \in Proc : c \in Range(hold'[q])
    BY <1>i, <2>w, HoldFacts, Zenon DEF Held
  <2>2. \A q, u \in Proc : q # u => Range(hold'[q]) \intersect Range(hold'[u]) = {}
    <3>1. \A q \in Proc \ {p} : b \notin Range(hold[q])
      BY <2>w, HoldFacts, Zenon
    <3>3. \A q \in Proc \ {p} : Range(hold[q]) \intersect Range(hold[p]) = {}
      BY <1>i, Zenon DEF Held
    <3>4. \A q \in Proc \ {p} : Range(hold'[q]) \intersect Range(hold'[p]) = {}
      BY <2>w, <3>1, <3>3, ZenonT(30)
    <3>2. \A q, u \in Proc \ {p} : q # u => Range(hold'[q]) \intersect Range(hold'[u]) = {}
      BY <1>i, <2>w, Zenon DEF Held
    <3> QED
      BY <3>2, <3>4, Zenon
  <2>3. \A c \in busy' \union valid' : bsec'[c] # None
    BY <1>i, <2>w, Sizes, Zenon DEF Held
  <2> QED
    BY <1>i, <2>w, <2>1, <2>2, <2>3, Zenon DEF Held, OneBufferPerSector
<1>3. ASSUME NEW p \in Proc, bget_sleep(p) PROVE Held'
  BY <1>i, <1>3, Zenon DEF Held, OneBufferPerSector, bget_sleep, cache, ide, procs
<1>4. ASSUME NEW p \in Proc, NEW b \in Buf, Recycles(p, b) PROVE Held'
  <2>w. /\ busy' = busy \union {b} /\ b \notin busy /\ want[p] \in Sector
        /\ bsec'[b] = want[p] /\ (\A c \in Buf \ {b} : bsec'[c] = bsec[c] /\ bsec[c] # want[p])
        /\ valid' = valid \ {b} /\ b \notin dirty /\ dirty' = dirty /\ busy \subseteq Buf /\ valid \subseteq Buf
        /\ (\A q \in Proc \ {p} : Range(hold'[q]) = Range(hold[q])) /\ Range(hold'[p]) = Range(hold[p]) \union {b}
    <3>1. want[p] \in Sector
      BY <1>i, <1>4, Zenon DEF Lists, Recycles
    <3>2. bsec \in [Buf -> Sector \union {None}] /\ busy \subseteq Buf /\ valid \subseteq Buf
      BY <1>i, Zenon DEF TypeOK
    <3> QED
      BY <1>4, <3>1, <3>2, Zenon DEF Recycles, Gets
  <2>1. \A c \in Buf : c \in busy' <=> \E q \in Proc : c \in Range(hold'[q])
    BY <1>i, <2>w, HoldFacts, ZenonT(30) DEF Held
  <2>2. \A q, u \in Proc : q # u => Range(hold'[q]) \intersect Range(hold'[u]) = {}
    <3>1. \A q \in Proc \ {p} : b \notin Range(hold[q])
      BY <2>w, HoldFacts, Zenon
    <3>3. \A q \in Proc \ {p} : Range(hold[q]) \intersect Range(hold[p]) = {}
      BY <1>i, Zenon DEF Held
    <3>4. \A q \in Proc \ {p} : Range(hold'[q]) \intersect Range(hold'[p]) = {}
      BY <2>w, <3>1, <3>3, Zenon
    <3>2. \A q, u \in Proc \ {p} : q # u => Range(hold'[q]) \intersect Range(hold'[u]) = {}
      BY <1>i, <2>w, ZenonT(30) DEF Held
    <3> QED
      BY <3>2, <3>4, Zenon
  <2>3. OneBufferPerSector'
    BY <1>i, <2>w, Zenon DEF Held, OneBufferPerSector
  <2>4. \A c \in busy' \union valid' : bsec'[c] # None
    BY <1>i, <2>w, Sizes, Zenon DEF Held
  <2>5. dirty' \subseteq valid'
    BY <1>i, <2>w, Zenon DEF Held
  <2> QED
    BY <1>i, <2>w, <2>1, <2>2, <2>3, <2>4, <2>5, Zenon DEF Held, OneBufferPerSector
<1>5. ASSUME NEW p \in Proc, bget_panic(p) PROVE Held'
  BY <1>i, <1>5, Zenon DEF Held, OneBufferPerSector, bget_panic, cache, ide, procs
<1>6. ASSUME NEW p \in Proc, NEW v \in Value, bwrite(p, v) PROVE Held'
  <2>w. UNCHANGED <<busy, hold, bsec, valid>> /\ dirty' = dirty \union {Last(hold[p])} /\ Last(hold[p]) \in valid
    <3>1. Last(hold[p]) \in Range(hold[p]) /\ pc[p] \notin InIO
      BY <1>6, HoldFacts, Zenon DEF InIO, bwrite
    <3>2. Last(hold[p]) \in valid
      BY <1>i, <3>1, ZenonT(30) DEF Transfers
    <3> QED
      BY <1>6, <3>2, Zenon DEF bwrite, procs
  <2>1. dirty' \subseteq valid'
    BY <1>i, <2>w, Zenon DEF Held
  <2> QED
    BY <1>i, <2>w, <2>1, Zenon DEF Held, OneBufferPerSector
<1>7. ASSUME NEW p \in Proc, NEW v \in Value, log_write(p, v) PROVE Held'
  <2>w. UNCHANGED <<busy, hold, bsec, valid>> /\ dirty' = dirty \union {Last(hold[p])} /\ Last(hold[p]) \in valid
    <3>1. Last(hold[p]) \in Range(hold[p]) /\ pc[p] \notin InIO
      BY <1>7, HoldFacts, ZenonT(30) DEF InIO, log_write
    <3>2. Last(hold[p]) \in valid
      BY <1>i, <3>1, Zenon DEF Transfers
    <3> QED
      BY <1>7, <3>2, Zenon DEF log_write, procs
  <2>1. dirty' \subseteq valid'
    BY <1>i, <2>w DEF Held
  <2> QED
    BY <1>i, <2>w, <2>1, Zenon DEF Held, OneBufferPerSector
<1>8. ASSUME NEW p \in Proc, NEW b \in Buf, Releases(p, b) PROVE Held'
  <2>w. /\ UNCHANGED <<bsec, valid, dirty>> /\ busy' = busy \ {b} /\ b \in Range(hold[p])
        /\ (\A q \in Proc \ {p} : Range(hold'[q]) = Range(hold[q])) /\ Range(hold'[p]) = Range(hold[p]) \ {b}
    BY <1>8, Zenon DEF Releases, cache, ide, procs
  <2>1. \A c \in Buf : c \in busy' <=> \E q \in Proc : c \in Range(hold'[q])
    <3> SUFFICES ASSUME NEW c \in Buf PROVE c \in busy' <=> \E q \in Proc : c \in Range(hold'[q])
      BY Zenon
    <3>1. CASE c = b
      BY <2>w, <3>1, HoldFacts, Zenon
    <3>2. CASE c # b
      <4>1. c \in busy' <=> c \in busy
        BY <2>w, <3>2, Zenon
      <4>2. \A q \in Proc : c \in Range(hold'[q]) <=> c \in Range(hold[q])
        BY <2>w, <3>2, Zenon
      <4> QED
        BY <1>i, <4>1, <4>2, Zenon DEF Held
    <3> QED
      BY <3>1, <3>2, Zenon
  <2>2. \A q, u \in Proc : q # u => Range(hold'[q]) \intersect Range(hold'[u]) = {}
    BY <1>i, <2>w, HoldFacts, Zenon DEF Held
  <2>3. \A c \in busy' \union valid' : bsec'[c] # None
    BY <1>i, <2>w, Zenon DEF Held
  <2> QED
    BY <1>i, <2>w, <2>1, <2>2, <2>3, Zenon DEF Held, OneBufferPerSector
<1>9. ASSUME NEW p \in Proc, Queues(p) PROVE Held'
  BY <1>i, <1>9, Zenon DEF Held, OneBufferPerSector, Queues, cache, ide, procs
<1>10. ASSUME NEW p \in Proc, iderw_loop(p) PROVE Held'
  BY <1>i, <1>10, Zenon DEF Held, OneBufferPerSector, iderw_loop, cache, ide, procs
<1>11. ASSUME controller PROVE Held'
  BY <1>i, <1>11, Zenon DEF Held, OneBufferPerSector, controller, cache, ide, procs
<1>12. ASSUME NEW b \in Buf, Completes(b) PROVE Held'
  <2>w. UNCHANGED <<busy, hold, bsec>> /\ valid' = valid \union {b} /\ dirty' = dirty \ {b} /\ b \in busy
    BY <1>12, QueueFacts, ZenonT(30) DEF Completes
  <2>1. \A c \in busy' \union valid' : bsec'[c] # None
    BY <1>i, <2>w, ZenonT(30) DEF Held
  <2>2. dirty' \subseteq valid'
    BY <1>i, <2>w, Zenon DEF Held
  <2> QED
    BY <1>i, <2>w, <2>1, <2>2, Zenon DEF Held, OneBufferPerSector
<1>13. CASE UNCHANGED vars
  BY <1>i, <1>13, ZenonT(30) DEF vars, cache, ide, procs, TypeOK, Lists, Held, Transfers, Command, OneBufferPerSector, Clean
<1> QED
  BY <1>1, <1>2, <1>3, <1>4, <1>5, <1>6, <1>7, <1>8, <1>9, <1>10, <1>11, <1>12, <1>13,
     Hits, Recycling, Releasing, Queueing, Completing, Zenon
     DEF Next, Running, bget, sync

\* Sleepers and the queue agree through wakeups that reach both kinds of sleeper.
LEMMA TransfersStep ==
  ASSUME BcacheConstants, Inv, [Next]_vars
  PROVE  Transfers'
<1>i. TypeOK /\ Transfers
  BY Zenon DEF Inv
<1>1. ASSUME NEW p \in Proc, NEW s \in Sector, bread(p, s) PROVE Transfers'
  <2>w. /\ pc[p] = "run" /\ pc'[p] = "bget" /\ (\A q \in Proc \ {p} : pc'[q] = pc[q])
        /\ UNCHANGED <<chan, hold, idequeue, busy, valid, dirty>>
    BY <1>i, <1>1, Zenon DEF TypeOK, bread, cache, ide, procs
  <2>1. \A q \in Proc : pc'[q] = "bsleep" => chan'[q] \in busy'
    BY <1>i, <2>w, HoldFacts, Zenon DEF Transfers
  <2>2. \A q \in Proc : pc'[q] = "iosleep" => chan'[q] = Last(hold'[q]) /\ chan'[q] \in Range(idequeue')
    BY <1>i, <2>w, HoldFacts, Zenon DEF Transfers, InIO
  <2>3. \A q \in Proc : pc'[q] = "iowait" => Last(hold'[q]) \in valid' \ dirty'
    <3> SUFFICES ASSUME NEW q \in Proc PROVE pc'[q] = "iowait" => Last(hold'[q]) \in valid' \ dirty'
      BY Zenon
    <3>1. CASE q = p
      BY <1>i, <2>w, <3>1, HoldFacts, Zenon DEF Transfers, InIO
    <3>2. CASE q # p
      BY <1>i, <2>w, <3>2, HoldFacts, Zenon DEF Transfers, InIO
    <3> QED
      BY <3>1, <3>2, Zenon
  <2>4. \A q \in Proc : pc'[q] = "iderw" => Last(hold'[q]) \notin valid' \ dirty'
    BY <1>i, <2>w, HoldFacts, Zenon DEF Transfers, InIO
  <2>5. \A q \in Proc : \A c \in Range(hold'[q]) \ valid' : pc'[q] \in InIO /\ c = Last(hold'[q])
    <3> SUFFICES ASSUME NEW q \in Proc PROVE \A c \in Range(hold'[q]) \ valid' : pc'[q] \in InIO /\ c = Last(hold'[q])
      BY Zenon
    <3>1. CASE q = p
      BY <1>i, <2>w, <3>1, HoldFacts, Zenon DEF Transfers, InIO
    <3>2. CASE q # p
      BY <1>i, <2>w, <3>2, HoldFacts, Zenon DEF Transfers, InIO
    <3> QED
      BY <3>1, <3>2, Zenon
  <2>6. \A c \in Range(idequeue') : \E q \in Proc : pc'[q] = "iosleep" /\ c = Last(hold'[q])
    <3> SUFFICES ASSUME NEW c \in Range(idequeue') PROVE \E q \in Proc : pc'[q] = "iosleep" /\ c = Last(hold'[q])
      BY Zenon
    <3>1. PICK q \in Proc : pc[q] = "iosleep" /\ c = Last(hold[q])
      BY <1>i, <2>w, Zenon DEF Transfers
    <3>2. q # p /\ pc'[q] = "iosleep" /\ hold'[q] = hold[q]
      BY <2>w, <3>1, Zenon
    <3> QED
      BY <3>1, <3>2, Zenon
  <2> QED
    BY <2>1, <2>2, <2>3, <2>4, <2>5, <2>6, Zenon DEF Transfers
<1>2. ASSUME NEW p \in Proc, NEW b \in Buf, Hit(p, b) PROVE Transfers'
  <2>w. /\ pc'[p] \in {"run", "iderw"} /\ (pc'[p] = "iderw" <=> b \notin valid) /\ (\A q \in Proc \ {p} : pc'[q] = pc[q])
        /\ UNCHANGED <<chan, idequeue, valid, dirty>> /\ busy' = busy \union {b} /\ Gets(p, b)
        /\ b \notin busy /\ pc[p] = "bget"
    BY <1>i, <1>2, Zenon DEF TypeOK, Hit, cache, ide, procs
  <2>1. \A q \in Proc : pc'[q] = "bsleep" => chan'[q] \in busy'
    BY <1>i, <2>w, HoldFacts, Zenon DEF Transfers, Gets
  <2>2. \A q \in Proc : pc'[q] = "iosleep" => chan'[q] = Last(hold'[q]) /\ chan'[q] \in Range(idequeue')
    BY <1>i, <2>w, HoldFacts, Zenon DEF Transfers, Gets, InIO
  <2>3. \A q \in Proc : pc'[q] = "iowait" => Last(hold'[q]) \in valid' \ dirty'
    <3> SUFFICES ASSUME NEW q \in Proc PROVE pc'[q] = "iowait" => Last(hold'[q]) \in valid' \ dirty'
      BY Zenon
    <3>1. CASE q = p
      BY <1>i, <2>w, <3>1, HoldFacts, Zenon DEF Transfers, InIO, Gets
    <3>2. CASE q # p
      <4>1. hold'[q] = hold[q] /\ pc'[q] = pc[q]
        BY <2>w, <3>2, Zenon DEF Gets
      <4>2. b \notin Range(hold[q]) /\ (pc[q] \in InIO => Last(hold[q]) # b)
        BY <2>w, HoldFacts, ZenonT(30)
      <4>3. pc[q] = "iowait" => pc[q] \in InIO
        BY DEF InIO
      <4> QED
        BY <1>i, <2>w, <4>1, <4>2, <4>3, Zenon DEF Transfers
    <3> QED
      BY <3>1, <3>2, Zenon
  <2>4. \A q \in Proc : pc'[q] = "iderw" => Last(hold'[q]) \notin valid' \ dirty'
    BY <1>i, <2>w, HoldFacts, Zenon DEF Transfers, Gets, InIO
  <2>5. \A q \in Proc : \A c \in Range(hold'[q]) \ valid' : pc'[q] \in InIO /\ c = Last(hold'[q])
    <3> SUFFICES ASSUME NEW q \in Proc PROVE \A c \in Range(hold'[q]) \ valid' : pc'[q] \in InIO /\ c = Last(hold'[q])
      BY Zenon
    <3>1. CASE q = p
      BY <1>i, <2>w, <3>1, HoldFacts, ZenonT(30) DEF Transfers, InIO, Gets
    <3>2. CASE q # p
      <4>1. hold'[q] = hold[q] /\ pc'[q] = pc[q]
        BY <2>w, <3>2, Zenon DEF Gets
      <4>2. b \notin Range(hold[q]) /\ (pc[q] \in InIO => Last(hold[q]) # b)
        BY <2>w, HoldFacts, Zenon
      <4>3. pc[q] = "iowait" => pc[q] \in InIO
        BY DEF InIO
      <4> QED
        BY <1>i, <2>w, <4>1, <4>2, <4>3, Zenon DEF Transfers
    <3> QED
      BY <3>1, <3>2, Zenon
  <2>6. \A c \in Range(idequeue') : \E q \in Proc : pc'[q] = "iosleep" /\ c = Last(hold'[q])
    <3> SUFFICES ASSUME NEW c \in Range(idequeue') PROVE \E q \in Proc : pc'[q] = "iosleep" /\ c = Last(hold'[q])
      BY Zenon
    <3>1. PICK q \in Proc : pc[q] = "iosleep" /\ c = Last(hold[q])
      BY <1>i, <2>w, Zenon DEF Transfers
    <3>2. q # p /\ pc'[q] = "iosleep" /\ hold'[q] = hold[q]
      BY <2>w, <3>1, Zenon DEF Gets
    <3> QED
      BY <3>1, <3>2, Zenon
  <2> QED
    BY <2>1, <2>2, <2>3, <2>4, <2>5, <2>6, Zenon DEF Transfers
<1>3. ASSUME NEW p \in Proc, bget_sleep(p) PROVE Transfers'
  <2>w. /\ pc'[p] = "bsleep" /\ chan'[p] \in busy /\ (\A q \in Proc \ {p} : pc'[q] = pc[q] /\ chan'[q] = chan[q])
        /\ UNCHANGED <<hold, idequeue, busy, valid, dirty>> /\ pc[p] = "bget"
    BY <1>i, <1>3, Zenon DEF TypeOK, bget_sleep, Cached, cache, ide, procs
  <2>1. \A q \in Proc : pc'[q] = "bsleep" => chan'[q] \in busy'
    BY <1>i, <2>w, HoldFacts, Zenon DEF Transfers
  <2>2. \A q \in Proc : pc'[q] = "iosleep" => chan'[q] = Last(hold'[q]) /\ chan'[q] \in Range(idequeue')
    BY <1>i, <2>w, HoldFacts, Zenon DEF Transfers, InIO
  <2>3. \A q \in Proc : pc'[q] = "iowait" => Last(hold'[q]) \in valid' \ dirty'
    <3> SUFFICES ASSUME NEW q \in Proc PROVE pc'[q] = "iowait" => Last(hold'[q]) \in valid' \ dirty'
      BY Zenon
    <3>1. CASE q = p
      BY <1>i, <2>w, <3>1, HoldFacts, Zenon DEF Transfers, InIO
    <3>2. CASE q # p
      BY <1>i, <2>w, <3>2, HoldFacts, Zenon DEF Transfers, InIO
    <3> QED
      BY <3>1, <3>2, Zenon
  <2>4. \A q \in Proc : pc'[q] = "iderw" => Last(hold'[q]) \notin valid' \ dirty'
    BY <1>i, <2>w, HoldFacts, Zenon DEF Transfers, InIO
  <2>5. \A q \in Proc : \A c \in Range(hold'[q]) \ valid' : pc'[q] \in InIO /\ c = Last(hold'[q])
    <3> SUFFICES ASSUME NEW q \in Proc PROVE \A c \in Range(hold'[q]) \ valid' : pc'[q] \in InIO /\ c = Last(hold'[q])
      BY Zenon
    <3>1. CASE q = p
      BY <1>i, <2>w, <3>1, HoldFacts, Zenon DEF Transfers, InIO
    <3>2. CASE q # p
      BY <1>i, <2>w, <3>2, HoldFacts, Zenon DEF Transfers, InIO
    <3> QED
      BY <3>1, <3>2, Zenon
  <2>6. \A c \in Range(idequeue') : \E q \in Proc : pc'[q] = "iosleep" /\ c = Last(hold'[q])
    <3> SUFFICES ASSUME NEW c \in Range(idequeue') PROVE \E q \in Proc : pc'[q] = "iosleep" /\ c = Last(hold'[q])
      BY Zenon
    <3>1. PICK q \in Proc : pc[q] = "iosleep" /\ c = Last(hold[q])
      BY <1>i, <2>w, Zenon DEF Transfers
    <3>2. q # p /\ pc'[q] = "iosleep" /\ hold'[q] = hold[q]
      BY <2>w, <3>1, ZenonT(30)
    <3> QED
      BY <3>1, <3>2, Zenon
  <2> QED
    BY <2>1, <2>2, <2>3, <2>4, <2>5, <2>6, Zenon DEF Transfers
<1>4. ASSUME NEW p \in Proc, NEW b \in Buf, Recycles(p, b) PROVE Transfers'
  <2>w. /\ pc'[p] = "iderw" /\ (\A q \in Proc \ {p} : pc'[q] = pc[q]) /\ pc[p] = "bget"
        /\ UNCHANGED <<chan, idequeue, dirty>> /\ valid' = valid \ {b} /\ busy' = busy \union {b}
        /\ Gets(p, b) /\ b \notin busy
    BY <1>i, <1>4, Zenon DEF TypeOK, Recycles, cache, ide, procs
  <2>1. \A q \in Proc : pc'[q] = "bsleep" => chan'[q] \in busy'
    BY <1>i, <2>w, HoldFacts, Zenon DEF Transfers, Gets
  <2>2. \A q \in Proc : pc'[q] = "iosleep" => chan'[q] = Last(hold'[q]) /\ chan'[q] \in Range(idequeue')
    BY <1>i, <2>w, HoldFacts, ZenonT(30) DEF Transfers, Gets, InIO
  <2>3. \A q \in Proc : pc'[q] = "iowait" => Last(hold'[q]) \in valid' \ dirty'
    <3> SUFFICES ASSUME NEW q \in Proc PROVE pc'[q] = "iowait" => Last(hold'[q]) \in valid' \ dirty'
      BY Zenon
    <3>1. CASE q = p
      BY <1>i, <2>w, <3>1, HoldFacts, Zenon DEF Transfers, InIO, Gets
    <3>2. CASE q # p
      <4>1. hold'[q] = hold[q] /\ pc'[q] = pc[q]
        BY <2>w, <3>2, Zenon DEF Gets
      <4>2. b \notin Range(hold[q]) /\ (pc[q] \in InIO => Last(hold[q]) # b)
        BY <2>w, HoldFacts, Zenon
      <4>3. pc[q] = "iowait" => pc[q] \in InIO
        BY DEF InIO
      <4> QED
        BY <1>i, <2>w, <4>1, <4>2, <4>3, Zenon DEF Transfers
    <3> QED
      BY <3>1, <3>2, Zenon
  <2>4. \A q \in Proc : pc'[q] = "iderw" => Last(hold'[q]) \notin valid' \ dirty'
    BY <1>i, <2>w, HoldFacts, Zenon DEF Transfers, Gets, InIO
  <2>5. \A q \in Proc : \A c \in Range(hold'[q]) \ valid' : pc'[q] \in InIO /\ c = Last(hold'[q])
    <3> SUFFICES ASSUME NEW q \in Proc PROVE \A c \in Range(hold'[q]) \ valid' : pc'[q] \in InIO /\ c = Last(hold'[q])
      BY Zenon
    <3>1. CASE q = p
      BY <1>i, <2>w, <3>1, HoldFacts, Zenon DEF Transfers, InIO, Gets
    <3>2. CASE q # p
      <4>1. hold'[q] = hold[q] /\ pc'[q] = pc[q]
        BY <2>w, <3>2, Zenon DEF Gets
      <4>2. b \notin Range(hold[q]) /\ (pc[q] \in InIO => Last(hold[q]) # b)
        BY <2>w, HoldFacts, Zenon
      <4>3. pc[q] = "iowait" => pc[q] \in InIO
        BY DEF InIO
      <4> QED
        BY <1>i, <2>w, <4>1, <4>2, <4>3, ZenonT(30) DEF Transfers
    <3> QED
      BY <3>1, <3>2, Zenon
  <2>6. \A c \in Range(idequeue') : \E q \in Proc : pc'[q] = "iosleep" /\ c = Last(hold'[q])
    <3> SUFFICES ASSUME NEW c \in Range(idequeue') PROVE \E q \in Proc : pc'[q] = "iosleep" /\ c = Last(hold'[q])
      BY Zenon
    <3>1. PICK q \in Proc : pc[q] = "iosleep" /\ c = Last(hold[q])
      BY <1>i, <2>w, Zenon DEF Transfers
    <3>2. q # p /\ pc'[q] = "iosleep" /\ hold'[q] = hold[q]
      BY <2>w, <3>1, Zenon DEF Gets
    <3> QED
      BY <3>1, <3>2, Zenon
  <2> QED
    BY <2>1, <2>2, <2>3, <2>4, <2>5, <2>6, Zenon DEF Transfers
<1>5. ASSUME NEW p \in Proc, bget_panic(p) PROVE Transfers'
  BY <1>i, <1>5, ZenonT(30) DEF Transfers, bget_panic, cache, ide, procs
<1>6. ASSUME NEW p \in Proc, NEW v \in Value, bwrite(p, v) PROVE Transfers'
  <2>w. /\ pc'[p] = "iderw" /\ (\A q \in Proc \ {p} : pc'[q] = pc[q]) /\ pc[p] = "run" /\ hold[p] # <<>>
        /\ UNCHANGED <<chan, hold, idequeue, busy, valid>> /\ dirty' = dirty \union {Last(hold[p])}
    BY <1>i, <1>6, Zenon DEF TypeOK, bwrite, cache, ide, procs
  <2>1. \A q \in Proc : pc'[q] = "bsleep" => chan'[q] \in busy'
    BY <1>i, <2>w, HoldFacts, Zenon DEF Transfers
  <2>2. \A q \in Proc : pc'[q] = "iosleep" => chan'[q] = Last(hold'[q]) /\ chan'[q] \in Range(idequeue')
    BY <1>i, <2>w, HoldFacts, Zenon DEF Transfers, InIO
  <2>3. \A q \in Proc : pc'[q] = "iowait" => Last(hold'[q]) \in valid' \ dirty'
    <3> SUFFICES ASSUME NEW q \in Proc, pc'[q] = "iowait" PROVE Last(hold'[q]) \in valid' \ dirty'
      BY ZenonT(30)
    <3>1. q # p /\ pc[q] = "iowait" /\ pc[q] \in InIO
      BY <2>w, Zenon DEF InIO
    <3>2. Last(hold[q]) \in Range(hold[q]) /\ Last(hold[p]) \in Range(hold[p])
      BY <2>w, <3>1, HoldFacts, Zenon
    <3>3. Last(hold[q]) # Last(hold[p])
      BY <3>1, <3>2, HoldFacts, Zenon
    <3> QED
      BY <1>i, <2>w, <3>1, <3>3, Zenon DEF Transfers
  <2>4. \A q \in Proc : pc'[q] = "iderw" => Last(hold'[q]) \notin valid' \ dirty'
    BY <1>i, <2>w, HoldFacts, Zenon DEF Transfers, InIO
  <2>5. \A q \in Proc : \A c \in Range(hold'[q]) \ valid' : pc'[q] \in InIO /\ c = Last(hold'[q])
    <3> SUFFICES ASSUME NEW q \in Proc PROVE \A c \in Range(hold'[q]) \ valid' : pc'[q] \in InIO /\ c = Last(hold'[q])
      BY Zenon
    <3>1. CASE q = p
      BY <1>i, <2>w, <3>1, HoldFacts, Zenon DEF Transfers, InIO
    <3>2. CASE q # p
      BY <1>i, <2>w, <3>2, HoldFacts, Zenon DEF Transfers, InIO
    <3> QED
      BY <3>1, <3>2, Zenon
  <2>6. \A c \in Range(idequeue') : \E q \in Proc : pc'[q] = "iosleep" /\ c = Last(hold'[q])
    <3> SUFFICES ASSUME NEW c \in Range(idequeue') PROVE \E q \in Proc : pc'[q] = "iosleep" /\ c = Last(hold'[q])
      BY Zenon
    <3>1. PICK q \in Proc : pc[q] = "iosleep" /\ c = Last(hold[q])
      BY <1>i, <2>w, Zenon DEF Transfers
    <3>2. q # p /\ pc'[q] = "iosleep" /\ hold'[q] = hold[q]
      BY <2>w, <3>1, ZenonT(30)
    <3> QED
      BY <3>1, <3>2, Zenon
  <2> QED
    BY <2>1, <2>2, <2>3, <2>4, <2>5, <2>6, Zenon DEF Transfers
<1>7. ASSUME NEW p \in Proc, NEW v \in Value, log_write(p, v) PROVE Transfers'
  <2>w. /\ pc[p] = "run" /\ hold[p] # <<>>
        /\ UNCHANGED <<pc, chan, hold, idequeue, busy, valid>> /\ dirty' = dirty \union {Last(hold[p])}
    BY <1>i, <1>7, Zenon DEF TypeOK, log_write, cache, ide, procs
  <2>1. \A q \in Proc : pc'[q] = "bsleep" => chan'[q] \in busy'
    BY <1>i, <2>w, HoldFacts, Zenon DEF Transfers
  <2>2. \A q \in Proc : pc'[q] = "iosleep" => chan'[q] = Last(hold'[q]) /\ chan'[q] \in Range(idequeue')
    BY <1>i, <2>w, HoldFacts, Zenon DEF Transfers, InIO
  <2>3. \A q \in Proc : pc'[q] = "iowait" => Last(hold'[q]) \in valid' \ dirty'
    BY <1>i, <2>w, HoldFacts, Zenon DEF Transfers, InIO
  <2>4. \A q \in Proc : pc'[q] = "iderw" => Last(hold'[q]) \notin valid' \ dirty'
    BY <1>i, <2>w, HoldFacts, Zenon DEF Transfers, InIO
  <2>5. \A q \in Proc : \A c \in Range(hold'[q]) \ valid' : pc'[q] \in InIO /\ c = Last(hold'[q])
    BY <1>i, <2>w, HoldFacts, Zenon DEF Transfers, InIO
  <2>6. \A c \in Range(idequeue') : \E q \in Proc : pc'[q] = "iosleep" /\ c = Last(hold'[q])
    BY <1>i, <2>w, HoldFacts, ZenonT(30) DEF Transfers, InIO
  <2> QED
    BY <2>1, <2>2, <2>3, <2>4, <2>5, <2>6, Zenon DEF Transfers
<1>8. ASSUME NEW p \in Proc, NEW b \in Buf, Releases(p, b) PROVE Transfers'
  <2>w. /\ (\A q \in Proc : pc'[q] = Woken(b)[q] /\ chan'[q] = WokenChan(b)[q]) /\ pc[p] = "run"
        /\ UNCHANGED <<idequeue, valid, dirty>> /\ busy' = busy \ {b} /\ b \in Range(hold[p])
        /\ Range(hold'[p]) = Range(hold[p]) \ {b} /\ (\A q \in Proc \ {p} : hold'[q] = hold[q])
    BY <1>i, <1>8, Zenon DEF TypeOK, Releases, cache, ide, procs
  <2>v. \A q \in Proc :
          /\ pc'[q] = "bsleep" => pc[q] = "bsleep" /\ chan[q] # b /\ chan'[q] = chan[q]
          /\ pc'[q] = "iosleep" => pc[q] = "iosleep" /\ chan[q] # b /\ chan'[q] = chan[q]
          /\ pc[q] = "iosleep" /\ chan[q] # b => pc'[q] = "iosleep"
          /\ pc'[q] = "iowait" => pc[q] = "iowait" \/ (pc[q] = "iosleep" /\ chan[q] = b)
          /\ pc'[q] = "iderw" => pc[q] = "iderw"
          /\ pc[q] \in InIO => pc'[q] \in InIO
    BY <2>w, ZenonT(30) DEF Woken, WokenChan, InIO
  <2>u. \A q \in Proc :
          /\ pc[q] \in InIO => q # p /\ hold'[q] = hold[q] /\ Last(hold[q]) # b
          /\ pc[q] = "iosleep" => chan[q] # b
    <3>1. \A q \in Proc : pc[q] \in InIO => q # p
      BY <2>w, Zenon DEF InIO
    <3>2. \A q \in Proc : pc[q] \in InIO => Last(hold[q]) # b
      <4>1. \A q \in Proc : pc[q] \in InIO => Last(hold[q]) \in Range(hold[q])
        BY HoldFacts, Zenon
      <4>2. \A q \in Proc : b \in Range(hold[q]) => q = p
        BY <2>w, HoldFacts, ZenonT(30)
      <4> QED
        BY <3>1, <4>1, <4>2, Zenon
    <3>3. \A q \in Proc : pc[q] = "iosleep" => pc[q] \in InIO
      BY DEF InIO
    <3> QED
      BY <1>i, <2>w, <3>1, <3>2, <3>3, Zenon DEF Transfers
  <2>1. \A q \in Proc : pc'[q] = "bsleep" => chan'[q] \in busy'
    BY <1>i, <2>w, <2>v, Zenon DEF Transfers
  <2>2. \A q \in Proc : pc'[q] = "iosleep" => chan'[q] = Last(hold'[q]) /\ chan'[q] \in Range(idequeue')
    BY <1>i, <2>w, <2>v, <2>u, Zenon DEF Transfers, InIO
  <2>3. \A q \in Proc : pc'[q] = "iowait" => Last(hold'[q]) \in valid' \ dirty'
    BY <1>i, <2>w, <2>v, <2>u, Zenon DEF Transfers, InIO
  <2>4. \A q \in Proc : pc'[q] = "iderw" => Last(hold'[q]) \notin valid' \ dirty'
    BY <1>i, <2>w, <2>v, <2>u, Zenon DEF Transfers, InIO
  <2>5. \A q \in Proc : \A c \in Range(hold'[q]) \ valid' : pc'[q] \in InIO /\ c = Last(hold'[q])
    <3> SUFFICES ASSUME NEW q \in Proc, NEW c \in Range(hold'[q]) \ valid'
                 PROVE  pc'[q] \in InIO /\ c = Last(hold'[q])
      BY Zenon
    <3>1. c \in Range(hold[q]) \ valid
      BY <2>w, Zenon
    <3>2. pc[q] \in InIO /\ c = Last(hold[q])
      BY <1>i, <3>1, Zenon DEF Transfers
    <3> QED
      BY <2>u, <2>v, <3>2, Zenon
  <2>6. \A c \in Range(idequeue') : \E q \in Proc : pc'[q] = "iosleep" /\ c = Last(hold'[q])
    <3> SUFFICES ASSUME NEW c \in Range(idequeue') PROVE \E q \in Proc : pc'[q] = "iosleep" /\ c = Last(hold'[q])
      BY Zenon
    <3>1. PICK q \in Proc : pc[q] = "iosleep" /\ c = Last(hold[q])
      BY <1>i, <2>w, ZenonT(30) DEF Transfers
    <3>2. chan[q] # b /\ hold'[q] = hold[q]
      BY <2>u, <3>1, ZenonT(30) DEF InIO
    <3> QED
      BY <2>v, <3>1, <3>2, Zenon
  <2> QED
    BY <2>1, <2>2, <2>3, <2>4, <2>5, <2>6, Zenon DEF Transfers
<1>9. ASSUME NEW p \in Proc, Queues(p) PROVE Transfers'
  <2>w. /\ pc'[p] = "iosleep" /\ chan'[p] = Last(hold[p]) /\ (\A q \in Proc \ {p} : pc'[q] = pc[q] /\ chan'[q] = chan[q])
        /\ UNCHANGED <<hold, busy, valid, dirty>> /\ pc[p] = "iderw"
        /\ Range(idequeue') = Range(idequeue) \union {Last(hold[p])}
    BY <1>i, <1>9, Zenon DEF TypeOK, Queues, cache, ide, procs
  <2>1. \A q \in Proc : pc'[q] = "bsleep" => chan'[q] \in busy'
    BY <1>i, <2>w, HoldFacts, Zenon DEF Transfers
  <2>2. \A q \in Proc : pc'[q] = "iosleep" => chan'[q] = Last(hold'[q]) /\ chan'[q] \in Range(idequeue')
    BY <1>i, <2>w, HoldFacts, ZenonT(30) DEF Transfers, InIO
  <2>3. \A q \in Proc : pc'[q] = "iowait" => Last(hold'[q]) \in valid' \ dirty'
    <3> SUFFICES ASSUME NEW q \in Proc PROVE pc'[q] = "iowait" => Last(hold'[q]) \in valid' \ dirty'
      BY Zenon
    <3>1. CASE q = p
      BY <1>i, <2>w, <3>1, HoldFacts, Zenon DEF Transfers, InIO
    <3>2. CASE q # p
      BY <1>i, <2>w, <3>2, HoldFacts, Zenon DEF Transfers, InIO
    <3> QED
      BY <3>1, <3>2, Zenon
  <2>4. \A q \in Proc : pc'[q] = "iderw" => Last(hold'[q]) \notin valid' \ dirty'
    BY <1>i, <2>w, HoldFacts, ZenonT(30) DEF Transfers, InIO
  <2>5. \A q \in Proc : \A c \in Range(hold'[q]) \ valid' : pc'[q] \in InIO /\ c = Last(hold'[q])
    <3> SUFFICES ASSUME NEW q \in Proc PROVE \A c \in Range(hold'[q]) \ valid' : pc'[q] \in InIO /\ c = Last(hold'[q])
      BY Zenon
    <3>1. CASE q = p
      BY <1>i, <2>w, <3>1, HoldFacts, Zenon DEF Transfers, InIO
    <3>2. CASE q # p
      BY <1>i, <2>w, <3>2, HoldFacts, Zenon DEF Transfers, InIO
    <3> QED
      BY <3>1, <3>2, Zenon
  <2>6. \A c \in Range(idequeue') : \E q \in Proc : pc'[q] = "iosleep" /\ c = Last(hold'[q])
    <3> SUFFICES ASSUME NEW c \in Range(idequeue') PROVE \E q \in Proc : pc'[q] = "iosleep" /\ c = Last(hold'[q])
      BY Zenon
    <3>1. CASE c = Last(hold[p])
      BY <2>w, <3>1, Zenon
    <3>2. CASE c # Last(hold[p])
      <4>1. PICK q \in Proc : pc[q] = "iosleep" /\ c = Last(hold[q])
        BY <1>i, <2>w, <3>2, Zenon DEF Transfers
      <4>2. q # p /\ pc'[q] = "iosleep" /\ hold'[q] = hold[q]
        BY <2>w, <4>1, ZenonT(30)
      <4> QED
        BY <4>1, <4>2, Zenon
    <3> QED
      BY <3>1, <3>2, Zenon
  <2> QED
    BY <2>1, <2>2, <2>3, <2>4, <2>5, <2>6, Zenon DEF Transfers
<1>10. ASSUME NEW p \in Proc, iderw_loop(p) PROVE Transfers'
  <2>w. /\ pc'[p] = "run" /\ chan' = chan /\ (\A q \in Proc \ {p} : pc'[q] = pc[q]) /\ pc[p] = "iowait"
        /\ UNCHANGED <<hold, idequeue, busy, valid, dirty>>
    BY <1>i, <1>10, ZenonT(30) DEF TypeOK, iderw_loop, cache, ide, procs, Transfers
  <2>1. \A q \in Proc : pc'[q] = "bsleep" => chan'[q] \in busy'
    BY <1>i, <2>w, HoldFacts, Zenon DEF Transfers
  <2>2. \A q \in Proc : pc'[q] = "iosleep" => chan'[q] = Last(hold'[q]) /\ chan'[q] \in Range(idequeue')
    BY <1>i, <2>w, HoldFacts, Zenon DEF Transfers, InIO
  <2>3. \A q \in Proc : pc'[q] = "iowait" => Last(hold'[q]) \in valid' \ dirty'
    <3> SUFFICES ASSUME NEW q \in Proc PROVE pc'[q] = "iowait" => Last(hold'[q]) \in valid' \ dirty'
      BY Zenon
    <3>1. CASE q = p
      BY <1>i, <2>w, <3>1, HoldFacts, Zenon DEF Transfers, InIO
    <3>2. CASE q # p
      BY <1>i, <2>w, <3>2, HoldFacts, Zenon DEF Transfers, InIO
    <3> QED
      BY <3>1, <3>2, Zenon
  <2>4. \A q \in Proc : pc'[q] = "iderw" => Last(hold'[q]) \notin valid' \ dirty'
    BY <1>i, <2>w, HoldFacts, Zenon DEF Transfers, InIO
  <2>5. \A q \in Proc : \A c \in Range(hold'[q]) \ valid' : pc'[q] \in InIO /\ c = Last(hold'[q])
    <3> SUFFICES ASSUME NEW q \in Proc PROVE \A c \in Range(hold'[q]) \ valid' : pc'[q] \in InIO /\ c = Last(hold'[q])
      BY Zenon
    <3>1. CASE q = p
      <4>1. Last(hold[p]) \in valid /\ \A c \in Range(hold[p]) \ valid : c = Last(hold[p])
        BY <1>i, <2>w, Zenon DEF Transfers
      <4> QED
        BY <2>w, <3>1, <4>1, Zenon
    <3>2. CASE q # p
      BY <1>i, <2>w, <3>2, HoldFacts, Zenon DEF Transfers, InIO
    <3> QED
      BY <3>1, <3>2, Zenon
  <2>6. \A c \in Range(idequeue') : \E q \in Proc : pc'[q] = "iosleep" /\ c = Last(hold'[q])
    <3> SUFFICES ASSUME NEW c \in Range(idequeue') PROVE \E q \in Proc : pc'[q] = "iosleep" /\ c = Last(hold'[q])
      BY Zenon
    <3>1. PICK q \in Proc : pc[q] = "iosleep" /\ c = Last(hold[q])
      BY <1>i, <2>w, Zenon DEF Transfers
    <3>2. q # p /\ pc'[q] = "iosleep" /\ hold'[q] = hold[q]
      BY <2>w, <3>1, Zenon
    <3> QED
      BY <3>1, <3>2, Zenon
  <2> QED
    BY <2>1, <2>2, <2>3, <2>4, <2>5, <2>6, Zenon DEF Transfers
<1>11. ASSUME controller PROVE Transfers'
  BY <1>i, <1>11, Zenon DEF Transfers, controller, cache, ide, procs
<1>12. ASSUME NEW b \in Buf, Completes(b) PROVE Transfers'
  <2>w. /\ (\A q \in Proc : pc'[q] = Woken(b)[q] /\ chan'[q] = WokenChan(b)[q])
        /\ UNCHANGED <<hold, busy>> /\ valid' = valid \union {b} /\ dirty' = dirty \ {b}
        /\ Range(idequeue') = Range(idequeue) \ {b} /\ b \in Range(idequeue)
    BY <1>i, <1>12, Zenon DEF TypeOK, Completes, cache, ide, procs
  <2>v. \A q \in Proc :
          /\ pc'[q] = "bsleep" => pc[q] = "bsleep" /\ chan[q] # b /\ chan'[q] = chan[q]
          /\ pc'[q] = "iosleep" => pc[q] = "iosleep" /\ chan[q] # b /\ chan'[q] = chan[q]
          /\ pc[q] = "iosleep" /\ chan[q] # b => pc'[q] = "iosleep"
          /\ pc'[q] = "iowait" => pc[q] = "iowait" \/ (pc[q] = "iosleep" /\ chan[q] = b)
          /\ pc'[q] = "iderw" => pc[q] = "iderw"
          /\ pc[q] \in InIO => pc'[q] \in InIO
    BY <2>w, Zenon DEF Woken, WokenChan, InIO
  <2>1. \A q \in Proc : pc'[q] = "bsleep" => chan'[q] \in busy'
    BY <1>i, <2>w, <2>v, Zenon DEF Transfers
  <2>2. \A q \in Proc : pc'[q] = "iosleep" => chan'[q] = Last(hold'[q]) /\ chan'[q] \in Range(idequeue')
    BY <1>i, <2>w, <2>v, ZenonT(30) DEF Transfers
  <2>3. \A q \in Proc : pc'[q] = "iowait" => Last(hold'[q]) \in valid' \ dirty'
    <3> SUFFICES ASSUME NEW q \in Proc, pc'[q] = "iowait" PROVE Last(hold'[q]) \in valid' \ dirty'
      BY Zenon
    <3>1. Last(hold[q]) \in valid \ dirty \/ Last(hold[q]) = b
      BY <1>i, <2>v, Zenon DEF Transfers
    <3> QED
      BY <2>w, <3>1, Zenon
  <2>4. \A q \in Proc : pc'[q] = "iderw" => Last(hold'[q]) \notin valid' \ dirty'
    <3> SUFFICES ASSUME NEW q \in Proc, pc'[q] = "iderw" PROVE Last(hold'[q]) \notin valid' \ dirty'
      BY ZenonT(30)
    <3>1. pc[q] = "iderw" /\ pc[q] \in InIO
      BY <2>v, Zenon DEF InIO
    <3>2. Last(hold[q]) # b
      <4>1. Last(hold[q]) \in Range(hold[q]) /\ pc[q] # "iosleep"
        BY <3>1, HoldFacts, Zenon
      <4> QED
        BY <2>w, <4>1, QueueFacts, ZenonT(30)
    <3> QED
      BY <1>i, <2>w, <3>1, <3>2, Zenon DEF Transfers
  <2>5. \A q \in Proc : \A c \in Range(hold'[q]) \ valid' : pc'[q] \in InIO /\ c = Last(hold'[q])
    <3> SUFFICES ASSUME NEW q \in Proc, NEW c \in Range(hold'[q]) \ valid'
                 PROVE  pc'[q] \in InIO /\ c = Last(hold'[q])
      BY Zenon
    <3>1. c \in Range(hold[q]) \ valid
      BY <2>w, Zenon
    <3>2. pc[q] \in InIO /\ c = Last(hold[q])
      BY <1>i, <3>1, Zenon DEF Transfers
    <3> QED
      BY <2>w, <2>v, <3>2, Zenon
  <2>6. \A c \in Range(idequeue') : \E q \in Proc : pc'[q] = "iosleep" /\ c = Last(hold'[q])
    <3> SUFFICES ASSUME NEW c \in Range(idequeue') PROVE \E q \in Proc : pc'[q] = "iosleep" /\ c = Last(hold'[q])
      BY Zenon
    <3>1. PICK q \in Proc : pc[q] = "iosleep" /\ c = Last(hold[q])
      BY <1>i, <2>w, Zenon DEF Transfers
    <3>2. chan[q] # b /\ hold'[q] = hold[q]
      BY <1>i, <2>w, <3>1, Zenon DEF Transfers
    <3> QED
      BY <2>v, <3>1, <3>2, Zenon
  <2> QED
    BY <2>1, <2>2, <2>3, <2>4, <2>5, <2>6, ZenonT(30) DEF Transfers
<1>13. CASE UNCHANGED vars
  BY <1>i, <1>13, ZenonT(30) DEF vars, cache, ide, procs, TypeOK, Transfers, Command, OneBufferPerSector, Clean
<1> QED
  BY <1>1, <1>2, <1>3, <1>4, <1>5, <1>6, <1>7, <1>8, <1>9, <1>10, <1>11, <1>12, <1>13,
     Hits, Recycling, Releasing, Queueing, Completing, Zenon
     DEF Next, Running, bget, sync

\* Nobody changes the buffer that the controller works on.
LEMMA ControllerStep ==
  ASSUME BcacheConstants, Inv, [Next]_vars
  PROVE  Controller'
<1>i. TypeOK /\ Controller
  BY Zenon DEF Inv
<1>f. \A c \in busy : Command(c) # None
  BY CommandType, Sizes, Zenon
<1>1. ASSUME NEW p \in Proc, NEW s \in Sector, bread(p, s) PROVE Controller'
  BY <1>i, <1>1, Zenon DEF Controller, Command, bread, cache, ide, procs
<1>2. ASSUME NEW p \in Proc, NEW b \in Buf, Hit(p, b) PROVE Controller'
  BY <1>i, <1>2, Zenon DEF Controller, Command, Hit, cache, ide, procs
<1>3. ASSUME NEW p \in Proc, bget_sleep(p) PROVE Controller'
  BY <1>i, <1>3, Zenon DEF Controller, Command, bget_sleep, cache, ide, procs
<1>4. ASSUME NEW p \in Proc, NEW b \in Buf, Recycles(p, b) PROVE Controller'
  <2>w. /\ UNCHANGED <<disk, idequeue, cmd, irq>> /\ UNCHANGED <<dirty, data>>
        /\ (\A c \in Buf \ {b} : bsec'[c] = bsec[c]) /\ b \notin busy
    <3>1. bsec \in [Buf -> Sector \union {None}]
      BY <1>i, Zenon DEF TypeOK
    <3> QED
      BY <1>4, <3>1, Zenon DEF Recycles, ide
  <2>1. (cmd' = None) <=> (idequeue' = <<>>)
    BY <1>i, <2>w, Zenon DEF Controller, Command
  <2>2. idequeue' # <<>> => cmd' = Command(Head(idequeue))'
    <3> SUFFICES ASSUME idequeue # <<>> PROVE cmd' = Command(Head(idequeue))'
      BY <2>w, Zenon
    <3> DEFINE h == Head(idequeue)
    <3>1. h \in Range(idequeue) /\ h \in busy /\ h \in Buf
      BY QueueFacts, Zenon
    <3>2. h # b
      BY <2>w, <3>1, Zenon
    <3>3. bsec'[h] = bsec[h] /\ data'[h] = data[h] /\ (h \in dirty' <=> h \in dirty)
      BY <2>w, <3>1, <3>2, Zenon
    <3>4. idequeue' = idequeue /\ cmd' = cmd /\ cmd = Command(h)
      BY <1>i, <2>w, ZenonT(30) DEF Controller
    <3> HIDE DEF h
    <3>5. (h \in dirty') = (h \in dirty)
      BY <3>3
    <3>6. Command(Head(idequeue))' = [sec |-> bsec'[h], write |-> h \in dirty', val |-> data'[h]]
      BY <3>4, Zenon DEF Command, h
    <3>7. Command(h) = [sec |-> bsec'[h], write |-> h \in dirty', val |-> data'[h]]
      BY <3>3, <3>5, Zenon DEF Command
    <3> QED
      BY <3>4, <3>6, <3>7, Zenon
  <2>3. irq' => cmd' # None
    BY <1>i, <2>w, Zenon DEF Controller, Command
  <2>4. irq' /\ cmd'.write => disk'[cmd'.sec] = cmd'.val
    BY <1>i, <2>w, Zenon DEF Controller, Command
  <2> QED
    BY <2>1, <2>2, <2>3, <2>4, Zenon DEF Controller
<1>5. ASSUME NEW p \in Proc, bget_panic(p) PROVE Controller'
  BY <1>i, <1>5, Zenon DEF Controller, Command, bget_panic, cache, ide, procs
<1>6. ASSUME NEW p \in Proc, NEW v \in Value, bwrite(p, v) PROVE Controller'
  <2>w. /\ UNCHANGED <<disk, idequeue, cmd, irq>> /\ bsec' = bsec
        /\ (\A c \in Buf \ {Last(hold[p])} : data'[c] = data[c] /\ (c \in dirty' <=> c \in dirty))
        /\ Last(hold[p]) \notin Range(idequeue)
    <3>1. Last(hold[p]) \in Range(hold[p]) /\ pc[p] # "iosleep"
      BY <1>6, HoldFacts, Zenon DEF bwrite
    <3>2. Last(hold[p]) \notin Range(idequeue)
      BY <3>1, QueueFacts, Zenon
    <3>3. data \in [Buf -> Value]
      BY <1>i, Zenon DEF TypeOK
    <3> QED
      BY <1>6, <3>2, <3>3, Zenon DEF bwrite, ide
  <2>1. (cmd' = None) <=> (idequeue' = <<>>)
    BY <1>i, <2>w, Zenon DEF Controller, Command
  <2>2. idequeue' # <<>> => cmd' = Command(Head(idequeue))'
    <3> SUFFICES ASSUME idequeue # <<>> PROVE cmd' = Command(Head(idequeue))'
      BY <2>w, Zenon
    <3> DEFINE h == Head(idequeue)
    <3>1. h \in Range(idequeue) /\ h \in busy /\ h \in Buf
      BY QueueFacts, Zenon
    <3>2. h # Last(hold[p])
      BY <2>w, <3>1, Zenon
    <3>3. bsec'[h] = bsec[h] /\ data'[h] = data[h] /\ (h \in dirty' <=> h \in dirty)
      BY <2>w, <3>1, <3>2, Zenon
    <3>4. idequeue' = idequeue /\ cmd' = cmd /\ cmd = Command(h)
      BY <1>i, <2>w, ZenonT(30) DEF Controller
    <3> HIDE DEF h
    <3>5. (h \in dirty') = (h \in dirty)
      BY <3>3
    <3>6. Command(Head(idequeue))' = [sec |-> bsec'[h], write |-> h \in dirty', val |-> data'[h]]
      BY <3>4, Zenon DEF Command, h
    <3>7. Command(h) = [sec |-> bsec'[h], write |-> h \in dirty', val |-> data'[h]]
      BY <3>3, <3>5, Zenon DEF Command
    <3> QED
      BY <3>4, <3>6, <3>7, Zenon
  <2>3. irq' => cmd' # None
    BY <1>i, <2>w, Zenon DEF Controller, Command
  <2>4. irq' /\ cmd'.write => disk'[cmd'.sec] = cmd'.val
    BY <1>i, <2>w, Zenon DEF Controller, Command
  <2> QED
    BY <2>1, <2>2, <2>3, <2>4, Zenon DEF Controller
<1>7. ASSUME NEW p \in Proc, NEW v \in Value, log_write(p, v) PROVE Controller'
  <2>w. /\ UNCHANGED <<disk, idequeue, cmd, irq>> /\ bsec' = bsec
        /\ (\A c \in Buf \ {Last(hold[p])} : data'[c] = data[c] /\ (c \in dirty' <=> c \in dirty))
        /\ Last(hold[p]) \notin Range(idequeue)
    <3>1. Last(hold[p]) \in Range(hold[p]) /\ pc[p] # "iosleep"
      BY <1>7, HoldFacts, ZenonT(30) DEF log_write
    <3>2. Last(hold[p]) \notin Range(idequeue)
      BY <3>1, QueueFacts, Zenon
    <3>3. data \in [Buf -> Value]
      BY <1>i, Zenon DEF TypeOK
    <3> QED
      BY <1>7, <3>2, <3>3, Zenon DEF log_write, ide
  <2>1. (cmd' = None) <=> (idequeue' = <<>>)
    BY <1>i, <2>w, Zenon DEF Controller, Command
  <2>2. idequeue' # <<>> => cmd' = Command(Head(idequeue))'
    <3> SUFFICES ASSUME idequeue # <<>> PROVE cmd' = Command(Head(idequeue))'
      BY <2>w, Zenon
    <3> DEFINE h == Head(idequeue)
    <3>1. h \in Range(idequeue) /\ h \in busy /\ h \in Buf
      BY QueueFacts, Zenon
    <3>2. h # Last(hold[p])
      BY <2>w, <3>1, Zenon
    <3>3. bsec'[h] = bsec[h] /\ data'[h] = data[h] /\ (h \in dirty' <=> h \in dirty)
      BY <2>w, <3>1, <3>2, Zenon
    <3>4. idequeue' = idequeue /\ cmd' = cmd /\ cmd = Command(h)
      BY <1>i, <2>w, Zenon DEF Controller
    <3> HIDE DEF h
    <3>5. (h \in dirty') = (h \in dirty)
      BY <3>3
    <3>6. Command(Head(idequeue))' = [sec |-> bsec'[h], write |-> h \in dirty', val |-> data'[h]]
      BY <3>4, Zenon DEF Command, h
    <3>7. Command(h) = [sec |-> bsec'[h], write |-> h \in dirty', val |-> data'[h]]
      BY <3>3, <3>5, Zenon DEF Command
    <3> QED
      BY <3>4, <3>6, <3>7, Zenon
  <2>3. irq' => cmd' # None
    BY <1>i, <2>w, Zenon DEF Controller, Command
  <2>4. irq' /\ cmd'.write => disk'[cmd'.sec] = cmd'.val
    BY <1>i, <2>w, Zenon DEF Controller, Command
  <2> QED
    BY <2>1, <2>2, <2>3, <2>4, Zenon DEF Controller
<1>8. ASSUME NEW p \in Proc, NEW b \in Buf, Releases(p, b) PROVE Controller'
  BY <1>i, <1>8, Zenon DEF Controller, Command, Releases, cache, ide, procs
<1>9. ASSUME NEW p \in Proc, Queues(p) PROVE Controller'
  <2>w. /\ idequeue' # <<>> /\ Head(idequeue') = (IF idequeue = <<>> THEN Last(hold[p]) ELSE Head(idequeue))
        /\ cmd' = (IF idequeue = <<>> THEN Command(Last(hold[p])) ELSE cmd)
        /\ UNCHANGED <<disk, irq, bsec, dirty, data>> /\ Last(hold[p]) \in busy
    <3>1. Last(hold[p]) \in busy
      BY <1>9, HoldFacts, Zenon DEF Queues, InIO
    <3> QED
      BY <1>9, <3>1, Zenon DEF Queues, cache
  <2>1. (cmd' = None) <=> (idequeue' = <<>>)
    <3>2. Command(Last(hold[p])) # None
      BY <2>w, <1>f, Zenon
    <3> QED
      BY <1>i, <2>w, <3>2, Zenon DEF Controller
  <2>2. idequeue' # <<>> => cmd' = Command(Head(idequeue))'
    BY <1>i, <2>w, Zenon DEF Controller, Command
  <2>3. irq' => cmd' # None
    BY <1>i, <2>w, <1>f, Zenon DEF Controller
  <2>4. irq' /\ cmd'.write => disk'[cmd'.sec] = cmd'.val
    <3>1. CASE idequeue = <<>>
      BY <1>i, <2>w, <3>1, Zenon DEF Controller
    <3>2. CASE idequeue # <<>>
      BY <1>i, <2>w, <3>2, Zenon DEF Controller
    <3> QED
      BY <3>1, <3>2, Zenon
  <2> QED
    BY <2>1, <2>2, <2>3, <2>4, Zenon DEF Controller
<1>10. ASSUME NEW p \in Proc, iderw_loop(p) PROVE Controller'
  BY <1>i, <1>10, Zenon DEF Controller, Command, iderw_loop, cache, ide, procs
<1>11. ASSUME controller PROVE Controller'
  <2>w. /\ cmd # None /\ irq' = TRUE /\ disk' = (IF cmd.write THEN [disk EXCEPT ![cmd.sec] = cmd.val] ELSE disk)
        /\ UNCHANGED <<idequeue, cmd, bsec, dirty, data>>
    BY <1>11, Zenon DEF controller, cache, ide, procs
  <2>1. (cmd' = None) <=> (idequeue' = <<>>)
    BY <1>i, <2>w, Zenon DEF Controller, Command
  <2>2. idequeue' # <<>> => cmd' = Command(Head(idequeue))'
    BY <1>i, <2>w, Zenon DEF Controller, Command
  <2>3. irq' => cmd' # None
    BY <1>i, <2>w, Zenon DEF Controller, Command
  <2>4. irq' /\ cmd'.write => disk'[cmd'.sec] = cmd'.val
    <3>1. disk \in [Sector -> Value] /\ cmd.sec \in Sector
      BY <1>i, <2>w, Zenon DEF TypeOK
    <3> QED
      BY <2>w, <3>1, Zenon
  <2> QED
    BY <2>1, <2>2, <2>3, <2>4, Zenon DEF Controller
<1>12. ASSUME NEW b \in Buf, Completes(b) PROVE Controller'
  <2>w. /\ irq' = FALSE /\ cmd' = (IF idequeue' = <<>> THEN None ELSE Command(Head(idequeue')))
        /\ bsec' = bsec /\ (\A c \in Buf \ {b} : data'[c] = data[c] /\ (c \in dirty' <=> c \in dirty))
        /\ idequeue' # <<>> => Head(idequeue') \in Buf \ {b} /\ Head(idequeue') \in busy
    <3>1. data \in [Buf -> Value] /\ bsec' = bsec
      BY <1>i, <1>12, Zenon DEF TypeOK, Completes
    <3>2. \A c \in Buf \ {b} : data'[c] = data[c] /\ (c \in dirty' <=> c \in dirty)
      BY <1>12, <3>1, Zenon DEF Completes
    <3>3. idequeue' # <<>> => Head(idequeue') \in Buf \ {b} /\ Head(idequeue') \in busy
      BY <1>12, QueueFacts, Zenon DEF Completes
    <3> QED
      BY <1>12, <3>1, <3>2, <3>3, Zenon DEF Completes
  <2>1. (cmd' = None) <=> (idequeue' = <<>>)
    BY <2>w, <1>f, Zenon
  <2>2. idequeue' # <<>> => cmd' = Command(Head(idequeue))'
    <3> DEFINE h == Head(idequeue')
    <3> SUFFICES ASSUME idequeue' # <<>> PROVE cmd' = Command(Head(idequeue))'
      BY Zenon
    <3>1. bsec'[h] = bsec[h] /\ data'[h] = data[h] /\ (h \in dirty' <=> h \in dirty) /\ cmd' = Command(h)
      BY <2>w, Zenon
    <3> HIDE DEF h
    <3>2. Command(Head(idequeue))' = [sec |-> bsec'[h], write |-> h \in dirty', val |-> data'[h]]
      BY ZenonT(30) DEF Command, h
    <3>3. (h \in dirty') = (h \in dirty)
      BY <3>1
    <3>4. Command(h) = [sec |-> bsec'[h], write |-> h \in dirty', val |-> data'[h]]
      BY <3>1, <3>3, Zenon DEF Command
    <3> QED
      BY <3>1, <3>2, <3>4, Zenon
  <2>3. irq' => cmd' # None
    BY <2>w, Zenon
  <2>4. irq' /\ cmd'.write => disk'[cmd'.sec] = cmd'.val
    BY <2>w, Zenon
  <2> QED
    BY <2>1, <2>2, <2>3, <2>4, Zenon DEF Controller
<1>13. CASE UNCHANGED vars
  BY <1>i, <1>13, Zenon DEF vars, cache, ide, procs, TypeOK, Controller, Command, OneBufferPerSector, Clean
<1> QED
  BY <1>1, <1>2, <1>3, <1>4, <1>5, <1>6, <1>7, <1>8, <1>9, <1>10, <1>11, <1>12, <1>13,
     Hits, Recycling, Releasing, Queueing, Completing, Zenon
     DEF Next, Running, bget, sync

\* What ideintr finds without disk errors: what the controller read or wrote is
\* what the sector of the first buffer holds.
LEMMA CompletesRead ==
  ASSUME Inv, ~DiskErrors, NEW b \in Buf, Completes(b)
  PROVE  /\ data' = IF b \in dirty THEN data ELSE [data EXCEPT ![b] = disk[bsec[b]]]
         /\ b \in dirty => data[b] = disk[bsec[b]]
<1>1. cmd = Command(b) /\ irq /\ (irq /\ cmd.write => disk[cmd.sec] = cmd.val)
  BY Zenon DEF Inv, Controller, Completes
<1>2. cmd.sec = bsec[b] /\ cmd.val = data[b] /\ (cmd.write <=> b \in dirty)
  BY <1>1, Zenon DEF Command
<1> QED
  BY <1>1, <1>2, Zenon DEF Completes

\* Clean buffers go on agreeing with the disk.
LEMMA CleanStep ==
  ASSUME BcacheConstants, ~DiskErrors, Clean, Inv, [Next]_vars
  PROVE  Clean'
<1>i. TypeOK /\ Held /\ Controller /\ Clean
  BY Zenon DEF Inv
<1>1. ASSUME NEW p \in Proc, NEW s \in Sector, bread(p, s) PROVE Clean'
  BY <1>i, <1>1, Zenon DEF Clean, bread, cache, ide, procs
<1>2. ASSUME NEW p \in Proc, NEW b \in Buf, Hit(p, b) PROVE Clean'
  BY <1>i, <1>2, Zenon DEF Clean, Hit, cache, ide, procs
<1>3. ASSUME NEW p \in Proc, bget_sleep(p) PROVE Clean'
  BY <1>i, <1>3, Zenon DEF Clean, bget_sleep, cache, ide, procs
<1>4. ASSUME NEW p \in Proc, NEW b \in Buf, Recycles(p, b) PROVE Clean'
  <2>w. /\ \A c \in Buf \ {b} : bsec'[c] = bsec[c]
        /\ valid' = valid \ {b} /\ valid \subseteq Buf /\ UNCHANGED <<disk, data, dirty>>
    BY <1>i, <1>4, Zenon DEF TypeOK, Recycles, ide
  <2> QED
    BY <1>i, <2>w, Zenon DEF Clean
<1>5. ASSUME NEW p \in Proc, bget_panic(p) PROVE Clean'
  BY <1>i, <1>5, Zenon DEF Clean, bget_panic, cache, ide, procs
<1>6. ASSUME NEW p \in Proc, NEW v \in Value, bwrite(p, v) PROVE Clean'
  <2>w. /\ \A c \in Buf \ {Last(hold[p])} : data'[c] = data[c]
        /\ dirty' = dirty \union {Last(hold[p])} /\ valid \subseteq Buf /\ UNCHANGED <<disk, bsec, valid>>
    BY <1>i, <1>6, Zenon DEF TypeOK, bwrite, ide
  <2> QED
    BY <1>i, <2>w, Zenon DEF Clean
<1>7. ASSUME NEW p \in Proc, NEW v \in Value, log_write(p, v) PROVE Clean'
  <2>w. /\ \A c \in Buf \ {Last(hold[p])} : data'[c] = data[c]
        /\ dirty' = dirty \union {Last(hold[p])} /\ valid \subseteq Buf /\ UNCHANGED <<disk, bsec, valid>>
    BY <1>i, <1>7, Zenon DEF TypeOK, log_write, ide
  <2> QED
    BY <1>i, <2>w, Zenon DEF Clean
<1>8. ASSUME NEW p \in Proc, NEW b \in Buf, Releases(p, b) PROVE Clean'
  BY <1>i, <1>8, Zenon DEF Clean, Releases, cache, ide, procs
<1>9. ASSUME NEW p \in Proc, Queues(p) PROVE Clean'
  BY <1>i, <1>9, Zenon DEF Clean, Queues, cache, ide, procs
<1>10. ASSUME NEW p \in Proc, iderw_loop(p) PROVE Clean'
  BY <1>i, <1>10, Zenon DEF Clean, iderw_loop, cache, ide, procs
<1>11. ASSUME controller PROVE Clean'
  <2> SUFFICES ASSUME NEW c \in valid \ dirty PROVE data[c] = disk'[bsec[c]]
    BY <1>11, Zenon DEF controller, cache, Clean
  <2>1. data[c] = disk[bsec[c]] /\ c \in Buf /\ bsec[c] # None
    BY <1>i, Zenon DEF Clean, TypeOK, Held
  <2>2. CASE ~cmd.write
    BY <1>11, <2>1, <2>2, Zenon DEF controller
  <2>3. CASE cmd.write
    <3> DEFINE h == Head(idequeue)
    <3>1. cmd = Command(h) /\ h \in Buf
      BY <1>i, <1>11, QueueFacts, Zenon DEF Controller, controller
    <3>2. cmd.sec = bsec[h] /\ (cmd.write <=> h \in dirty)
      BY <3>1, Zenon DEF Command
    <3>3. bsec[c] # cmd.sec
      BY <1>i, <2>1, <2>3, <3>1, <3>2, ZenonT(30) DEF Held, OneBufferPerSector
    <3>4. disk \in [Sector -> Value] /\ bsec[c] \in Sector
      BY <1>i, <2>1, ZenonT(30) DEF TypeOK
    <3> QED
      BY <1>11, <2>1, <3>3, <3>4, Zenon DEF controller
  <2> QED
    BY <2>2, <2>3, Zenon
<1>12. ASSUME NEW b \in Buf, Completes(b) PROVE Clean'
  <2>1. data' = IF b \in dirty THEN data ELSE [data EXCEPT ![b] = disk[bsec[b]]]
    BY <1>12, CompletesRead, Zenon
  <2>2. b \in dirty => data[b] = disk[bsec[b]]
    BY <1>12, CompletesRead, Zenon
  <2>3. valid' = valid \union {b} /\ dirty' = dirty \ {b} /\ UNCHANGED <<disk, bsec>>
    BY <1>12, Zenon DEF Completes
  <2>4. data \in [Buf -> Value] /\ valid \subseteq Buf
    BY <1>i, Zenon DEF TypeOK
  <2>5. data'[b] = disk[bsec[b]]
    BY <2>1, <2>2, <2>4, Zenon
  <2>6. \A c \in Buf \ {b} : data'[c] = data[c]
    BY <2>1, <2>4, Zenon
  <2> QED
    BY <1>i, <2>3, <2>4, <2>5, <2>6, Zenon DEF Clean
<1>13. CASE UNCHANGED vars
  BY <1>i, <1>13, Zenon DEF vars, cache, ide, procs, TypeOK, Held, Controller, Command, OneBufferPerSector, Clean
<1> QED
  BY <1>1, <1>2, <1>3, <1>4, <1>5, <1>6, <1>7, <1>8, <1>9, <1>10, <1>11, <1>12, <1>13,
     Hits, Recycling, Releasing, Queueing, Completing, ZenonT(30)
     DEF Next, Running, bget, sync

-----------------------------------------------------------------------------
(* What bread returns.                                                     *)

\* The buffer of a sector is unique, so Contents needs no choice.
LEMMA ContentsAre ==
  ASSUME Inv, NEW s \in Sector
  PROVE  /\ \A b \in valid : bsec[b] = s => Contents(s) = data[b]
         /\ (\A b \in valid : bsec[b] # s) => Contents(s) = disk[s]
<1>1. OneBufferPerSector /\ dirty \subseteq valid /\ valid \subseteq Buf /\ \A b \in valid : bsec[b] # None
  BY Zenon DEF Inv, TypeOK, Held
<1>2. ASSUME NEW b \in valid, bsec[b] = s PROVE Contents(s) = data[b]
  <2>1. b \in Cached(s) /\ b \in valid \union dirty
    BY <1>1, <1>2, Zenon DEF Cached
  <2>2. \A c \in Cached(s) : c = b
    BY <1>1, <1>2, ZenonT(30) DEF Cached, OneBufferPerSector
  <2>3. (CHOOSE c \in Cached(s) : c \in valid \union dirty) = b
    BY <2>1, <2>2
  <2> QED
    BY <2>1, <2>3, Zenon DEF Contents
<1>3. ASSUME \A b \in valid : bsec[b] # s PROVE Contents(s) = disk[s]
  BY <1>1, <1>3 DEF Contents, Cached
<1> QED
  BY <1>2, <1>3, Zenon

\* The same in the next state.
LEMMA ContentsAreNext ==
  ASSUME Inv', NEW s \in Sector
  PROVE  /\ \A b \in valid' : bsec'[b] = s => Contents(s)' = data'[b]
         /\ (\A b \in valid' : bsec'[b] # s) => Contents(s)' = disk'[s]
<1>1. /\ \A b, c \in Buf : bsec'[b] = bsec'[c] /\ bsec'[b] # None => b = c
      /\ dirty' \subseteq valid' /\ valid' \subseteq Buf /\ \A b \in valid' : bsec'[b] # None
  BY Zenon DEF Inv, TypeOK, Held, OneBufferPerSector
<1>2. ASSUME NEW b \in valid', bsec'[b] = s PROVE Contents(s)' = data'[b]
  <2>1. b \in Cached(s)' /\ b \in valid' \union dirty'
    BY <1>1, <1>2, Zenon DEF Cached
  <2>2. \A c \in Cached(s)' : c = b
    BY <1>1, <1>2, ZenonT(30) DEF Cached
  <2>3. (CHOOSE c \in Cached(s)' : c \in valid' \union dirty') = b
    BY <2>1, <2>2
  <2> QED
    BY <2>1, <2>3, Zenon DEF Contents
<1>3. ASSUME \A b \in valid' : bsec'[b] # s PROVE Contents(s)' = disk'[s]
  BY <1>1, <1>3 DEF Contents, Cached
<1> QED
  BY <1>2, <1>3, Zenon

\* The same, from what a step does to the cache and the disk.
LEMMA ContentsKept ==
  ASSUME Inv, Inv', NEW s \in Sector,
         \/ \E b \in valid, c \in valid' : bsec[b] = s /\ bsec'[c] = s /\ data[b] = data'[c]
         \/ \E b \in valid : bsec[b] = s /\ data[b] = disk'[s] /\ \A c \in valid' : bsec'[c] # s
         \/ \E c \in valid' : bsec'[c] = s /\ data'[c] = disk[s] /\ \A b \in valid : bsec[b] # s
         \/ disk'[s] = disk[s] /\ (\A b \in valid : bsec[b] # s) /\ \A c \in valid' : bsec'[c] # s
  PROVE  Contents(s)' = Contents(s)
<1>1. /\ \A b \in valid : bsec[b] = s => Contents(s) = data[b]
      /\ (\A b \in valid : bsec[b] # s) => Contents(s) = disk[s]
  BY ContentsAre, Zenon
<1>2. /\ \A b \in valid' : bsec'[b] = s => Contents(s)' = data'[b]
      /\ (\A b \in valid' : bsec'[b] # s) => Contents(s)' = disk'[s]
  BY ContentsAreNext, Zenon
<1>3. CASE \E b \in valid, c \in valid' : bsec[b] = s /\ bsec'[c] = s /\ data[b] = data'[c]
  <2>1. PICK b \in valid, c \in valid' : bsec[b] = s /\ bsec'[c] = s /\ data[b] = data'[c]
    BY <1>3, Zenon
  <2>2. Contents(s) = data[b] /\ Contents(s)' = data'[c]
    BY <1>1, <1>2, <2>1, Zenon
  <2> QED
    BY <2>1, <2>2, Zenon
<1>4. CASE \E b \in valid : bsec[b] = s /\ data[b] = disk'[s] /\ \A c \in valid' : bsec'[c] # s
  BY <1>1, <1>2, <1>4, Zenon
<1>5. CASE \E c \in valid' : bsec'[c] = s /\ data'[c] = disk[s] /\ \A b \in valid : bsec[b] # s
  BY <1>1, <1>2, <1>5, Zenon
<1>6. CASE disk'[s] = disk[s] /\ (\A b \in valid : bsec[b] # s) /\ \A c \in valid' : bsec'[c] # s
  BY <1>1, <1>2, <1>6, Zenon
<1> QED
  BY <1>3, <1>4, <1>5, <1>6, Zenon

\* A process may write s.
Writes(s) == \E p \in Proc : pc[p] = "run" /\ hold[p] # <<>> /\ bsec[Last(hold[p])] = s

\* A step changes what a reader of s gets only if it is a write by the holder.
LEMMA WriteStep ==
  ASSUME BcacheConstants, ~DiskErrors, Clean, Inv', NEW s \in Sector, Inv, [Next]_vars
  PROVE  Contents(s)' = Contents(s) \/ Writes(s)
<1>i. TypeOK /\ Held /\ Controller /\ Clean
  BY Zenon DEF Inv
<1>1. ASSUME NEW p \in Proc, NEW t \in Sector, bread(p, t) PROVE Contents(s)' = Contents(s) \/ Writes(s)
  BY <1>1, Zenon DEF Contents, Cached, bread, cache, ide, procs
<1>2. ASSUME NEW p \in Proc, NEW b \in Buf, Hit(p, b) PROVE Contents(s)' = Contents(s) \/ Writes(s)
  BY <1>2, Zenon DEF Contents, Cached, Hit, cache, ide, procs
<1>3. ASSUME NEW p \in Proc, bget_sleep(p) PROVE Contents(s)' = Contents(s) \/ Writes(s)
  BY <1>3, Zenon DEF Contents, Cached, bget_sleep, cache, ide, procs
<1>4. ASSUME NEW p \in Proc, NEW b \in Buf, Recycles(p, b) PROVE Contents(s)' = Contents(s) \/ Writes(s)
  <2>1. valid' = valid \ {b} /\ b \notin dirty /\ UNCHANGED <<disk, data>> /\ valid \subseteq Buf
    BY <1>i, <1>4, Zenon DEF TypeOK, Recycles, ide
  <2>2. bsec'[b] = want[p] /\ \A c \in Buf \ {b} : bsec'[c] = bsec[c]
    BY <1>i, <1>4, Zenon DEF TypeOK, Recycles
  <2>3. CASE b \in valid /\ bsec[b] = s
    <3>1. data[b] = disk[s]
      BY <1>i, <2>1, <2>3, Zenon DEF Clean
    <3>2. \A c \in valid' : bsec'[c] # s
      BY <1>i, <2>1, <2>2, <2>3, Sizes, ZenonT(30) DEF Held, OneBufferPerSector
    <3> QED
      BY <2>1, <2>3, <3>1, <3>2, ContentsKept, Zenon
  <2>4. CASE ~(b \in valid /\ bsec[b] = s)
    <3>1. \A c \in valid' : c \in valid /\ bsec'[c] = bsec[c] /\ data'[c] = data[c]
      BY <2>1, <2>2, Zenon
    <3>2. \A c \in valid : bsec[c] = s => c \in valid'
      BY <2>1, <2>4, Zenon
    <3> QED
      BY <2>1, <3>1, <3>2, ContentsKept, Zenon
  <2> QED
    BY <2>3, <2>4, Zenon
<1>5. ASSUME NEW p \in Proc, bget_panic(p) PROVE Contents(s)' = Contents(s) \/ Writes(s)
  BY <1>5, Zenon DEF Contents, Cached, bget_panic, cache, ide, procs
<1>6. ASSUME NEW p \in Proc, NEW v \in Value, bwrite(p, v) PROVE Contents(s)' = Contents(s) \/ Writes(s)
  <2>1. /\ pc[p] = "run" /\ hold[p] # <<>> /\ UNCHANGED <<disk, bsec, valid>>
        /\ \A c \in Buf \ {Last(hold[p])} : data'[c] = data[c]
    BY <1>i, <1>6, Zenon DEF TypeOK, bwrite, ide
  <2>2. CASE bsec[Last(hold[p])] = s
    BY <2>1, <2>2, Zenon DEF Writes
  <2>3. CASE bsec[Last(hold[p])] # s
    <3>1. \A c \in valid : bsec[c] = s => data'[c] = data[c]
      BY <1>i, <2>1, <2>3, Zenon DEF TypeOK
    <3>2. CASE \E c \in valid : bsec[c] = s
      BY <2>1, <3>1, <3>2, ContentsKept, Zenon
    <3>3. CASE \A c \in valid : bsec[c] # s
      BY <2>1, <3>3, ContentsKept, Zenon
    <3> QED
      BY <3>2, <3>3, Zenon
  <2> QED
    BY <2>2, <2>3, Zenon
<1>7. ASSUME NEW p \in Proc, NEW v \in Value, log_write(p, v) PROVE Contents(s)' = Contents(s) \/ Writes(s)
  <2>1. /\ pc[p] = "run" /\ hold[p] # <<>> /\ UNCHANGED <<disk, bsec, valid>>
        /\ \A c \in Buf \ {Last(hold[p])} : data'[c] = data[c]
    BY <1>i, <1>7, ZenonT(30) DEF TypeOK, log_write, ide
  <2>2. CASE bsec[Last(hold[p])] = s
    BY <2>1, <2>2, Zenon DEF Writes
  <2>3. CASE bsec[Last(hold[p])] # s
    <3>1. \A c \in valid : bsec[c] = s => data'[c] = data[c]
      BY <1>i, <2>1, <2>3, Zenon DEF TypeOK
    <3>2. CASE \E c \in valid : bsec[c] = s
      BY <2>1, <3>1, <3>2, ContentsKept, Zenon
    <3>3. CASE \A c \in valid : bsec[c] # s
      BY <2>1, <3>3, ContentsKept, Zenon
    <3> QED
      BY <3>2, <3>3, Zenon
  <2> QED
    BY <2>2, <2>3, Zenon
<1>8. ASSUME NEW p \in Proc, NEW b \in Buf, Releases(p, b) PROVE Contents(s)' = Contents(s) \/ Writes(s)
  BY <1>8, Zenon DEF Contents, Cached, Releases, cache, ide, procs
<1>9. ASSUME NEW p \in Proc, Queues(p) PROVE Contents(s)' = Contents(s) \/ Writes(s)
  BY <1>9, Zenon DEF Contents, Cached, Queues, cache, ide, procs
<1>10. ASSUME NEW p \in Proc, iderw_loop(p) PROVE Contents(s)' = Contents(s) \/ Writes(s)
  BY <1>10, Zenon DEF Contents, Cached, iderw_loop, cache, ide, procs
<1>11. ASSUME controller PROVE Contents(s)' = Contents(s) \/ Writes(s)
  <2>1. UNCHANGED <<bsec, valid, dirty, data>> /\ cmd # None
    BY <1>11, Zenon DEF controller, cache
  <2>2. CASE \E c \in valid : bsec[c] = s
    BY <2>1, <2>2, ContentsKept, Zenon
  <2>3. CASE \A c \in valid : bsec[c] # s
    <3> DEFINE h == Head(idequeue)
    <3>1. cmd = Command(h)
      BY <1>i, <2>1, Zenon DEF Controller
    <3>2. cmd.sec = bsec[h] /\ (cmd.write <=> h \in dirty)
      BY <3>1, Zenon DEF Command
    <3>3. cmd.write => cmd.sec # s
      BY <1>i, <2>3, <3>2, Zenon DEF Held
    <3>4. disk \in [Sector -> Value]
      BY <1>i, Zenon DEF TypeOK
    <3>5. disk'[s] = disk[s]
      BY <1>11, <3>3, <3>4, Zenon DEF controller
    <3> QED
      BY <2>1, <2>3, <3>5, ContentsKept, Zenon
  <2> QED
    BY <2>2, <2>3, Zenon
<1>12. ASSUME NEW b \in Buf, Completes(b) PROVE Contents(s)' = Contents(s) \/ Writes(s)
  <2>1. data' = (IF b \in dirty THEN data ELSE [data EXCEPT ![b] = disk[bsec[b]]])
    BY <1>12, CompletesRead, Zenon
  <2>2. valid' = valid \union {b} /\ UNCHANGED <<disk, bsec>>
    BY <1>12, Zenon DEF Completes
  <2>3. data \in [Buf -> Value] /\ valid \subseteq Buf /\ dirty \subseteq valid
    BY <1>i, Zenon DEF TypeOK, Held
  <2>4. b \in valid => data'[b] = data[b]
    BY <1>i, <2>1, <2>3, Zenon DEF Clean
  <2>5. b \notin valid => data'[b] = disk[bsec[b]]
    BY <2>1, <2>3, Zenon
  <2>6. \A c \in Buf \ {b} : data'[c] = data[c]
    BY <2>1, <2>3, Zenon
  <2>7. CASE \E c \in valid : bsec[c] = s
    <3>1. PICK c \in valid : bsec[c] = s
      BY <2>7, Zenon
    <3>2. data'[c] = data[c] /\ c \in valid' /\ bsec'[c] = s
      BY <2>2, <2>3, <2>4, <2>6, <3>1, Zenon
    <3> QED
      BY <3>1, <3>2, ContentsKept, Zenon
  <2>8. CASE (\A c \in valid : bsec[c] # s) /\ bsec[b] = s
    <3>1. b \notin valid /\ data'[b] = disk[s] /\ b \in valid' /\ bsec'[b] = s
      BY <2>2, <2>5, <2>8, Zenon
    <3> QED
      BY <2>8, <3>1, ContentsKept, Zenon
  <2>9. CASE (\A c \in valid : bsec[c] # s) /\ bsec[b] # s
    <3>1. \A c \in valid' : bsec'[c] # s
      BY <2>2, <2>9, Zenon
    <3> QED
      BY <2>2, <2>9, <3>1, ContentsKept, Zenon
  <2> QED
    BY <2>7, <2>8, <2>9, Zenon
<1>13. CASE UNCHANGED vars
  BY <1>13, Zenon DEF Contents, Cached, vars, cache, ide
<1> QED
  BY <1>1, <1>2, <1>3, <1>4, <1>5, <1>6, <1>7, <1>8, <1>9, <1>10, <1>11, <1>12, <1>13,
     Hits, Recycling, Releasing, Queueing, Completing, ZenonT(30)
     DEF Next, Running, bget, sync

-----------------------------------------------------------------------------
(* The theorems.                                                           *)

\* binit leaves every buffer idle and on the list.
LEMMA InitInv ==
  ASSUME BcacheConstants, Init
  PROVE  Inv /\ Clean
<1>1. NBUF \in Nat \ {0} /\ Buf = 1 .. NBUF /\ Zero \in Value /\ MaxHold \in Nat
  BY Sizes, Zenon
<1>2. lru \in Seq(Buf) /\ Len(lru) = NBUF /\ lru \in [Buf -> Buf] /\ \A i \in Buf : lru[i] = NBUF + 1 - i
  <2>1. lru = [i \in Buf |-> NBUF + 1 - i]
    BY ZenonT(30) DEF Init
  <2>2. \A i \in Buf : NBUF + 1 - i \in Buf
    BY <1>1
  <2>3. lru \in [Buf -> Buf] /\ \A i \in Buf : lru[i] = NBUF + 1 - i
    BY <2>1, <2>2, Zenon
  <2>4. lru \in [1 .. NBUF -> Buf]
    BY <1>1, <2>3, ZenonT(30)
  <2>5. lru \in Seq(Buf) /\ Len(lru) = NBUF
    BY <1>1, <2>4
  <2> QED
    BY <2>3, <2>5, Zenon
<1>3. Range(lru) = {lru[i] : i \in 1 .. Len(lru)}
  BY <1>2, RangeFacts
<1>4. Range(lru) = Buf
  <2>1. \A b \in Buf : NBUF + 1 - b \in Buf /\ lru[NBUF + 1 - b] = b
    BY <1>1, <1>2
  <2>2. \A i \in 1 .. Len(lru) : lru[i] \in Buf
    BY <1>1, <1>2, ZenonT(30)
  <2>3. Buf \subseteq Range(lru)
    <3> SUFFICES ASSUME NEW b \in Buf PROVE \E i \in 1 .. Len(lru) : lru[i] = b
      BY <1>3, ZenonT(30)
    <3> QED
      BY <1>1, <1>2, <2>1
  <2> QED
    BY <1>3, <2>2, <2>3, ZenonT(30)
<1>5. NoRepeat(lru)
  BY <1>1, <1>2 DEF NoRepeat
<1>6. <<>> \in Seq(Buf) /\ Range(<<>>) = {} /\ NoRepeat(<<>>) /\ Len(<<>>) = 0
  BY DEF Range, NoRepeat
<1>7. /\ busy = {} /\ valid = {} /\ dirty = {} /\ idequeue = <<>> /\ cmd = None /\ irq = FALSE /\ panicked = FALSE
      /\ disk \in [Sector -> Value] /\ bsec = [b \in Buf |-> None] /\ data = [b \in Buf |-> Zero]
      /\ \A p \in Proc : pc[p] = "run" /\ chan[p] = None /\ hold[p] = <<>>
      /\ pc \in [Proc -> PC] /\ want \in [Proc -> Sector \union {None}] /\ chan \in [Proc -> Buf \union {None}]
  BY Zenon DEF Init, PC
<1>8. hold \in [Proc -> Seq(Buf)]
  BY <1>6, Zenon DEF Init
<1>9. TypeOK
  <2>1. irq \in BOOLEAN /\ panicked \in BOOLEAN
    BY <1>7, ZenonT(30)
  <2>2. bsec \in [Buf -> Sector \union {None}] /\ data \in [Buf -> Value]
    BY <1>1, <1>7, ZenonT(30)
  <2>3. \A p \in Proc : Range(hold[p]) \subseteq Buf /\ Len(hold[p]) <= MaxHold
    <3>1. 0 <= MaxHold /\ {} \subseteq Buf
      BY <1>1
    <3>2. \A p \in Proc : hold[p] = <<>>
      BY <1>7, Zenon
    <3> QED
      BY <1>6, <3>1, <3>2, ZenonT(30)
  <2> QED
    BY <1>2, <1>4, <1>6, <1>7, <2>1, <2>2, <2>3, ZenonT(30) DEF TypeOK
<1>10. Lists
  BY <1>5, <1>6, <1>7, <1>8, Zenon DEF Lists, InIO
<1>11. Held
  BY <1>6, <1>7, Zenon DEF Held, OneBufferPerSector
<1>12. Transfers
  BY <1>6, <1>7, Zenon DEF Transfers
<1>13. Controller /\ Clean
  BY <1>7, Zenon DEF Controller, Clean
<1> QED
  BY <1>9, <1>10, <1>11, <1>12, <1>13, Zenon DEF Inv

\* The invariant is inductive: for every number of processes, buffers and
\* sectors, whether or not the disk reports errors.
THEOREM Invariance ==
  ASSUME BcacheConstants
  PROVE  Spec => []Inv
<1>1. Init => Inv
  BY InitInv, Zenon
<1>2. Inv /\ [Next]_vars => Inv'
  BY TypeStep, ListsStep, HeldStep, TransfersStep, ControllerStep, Zenon DEF Inv
<1> QED
  BY <1>1, <1>2, PTL DEF Spec

\* B_BUSY is a lock: a busy buffer has exactly one holder, a sector never has
\* two buffers although bget sleeps and scans again, and the LRU list stays a
\* permutation of the buffers through brelse's relinking.
THEOREM Exclusive ==
  ASSUME BcacheConstants
  PROVE  Spec => []ExclusiveUse
<1>1. Inv => ExclusiveUse
  <2> SUFFICES ASSUME Inv PROVE ExclusiveUse
    OBVIOUS
  <2>1. TypeOK /\ Held
    BY Zenon DEF Inv
  <2>2. busy \subseteq Buf /\ \A p \in Proc : Range(hold[p]) \subseteq Buf
    BY <2>1, ZenonT(30) DEF TypeOK
  <2>3. busy = UNION {Range(hold[p]) : p \in Proc}
    BY <2>1, <2>2 DEF Held
  <2> QED
    BY <2>1, <2>3, Zenon DEF Held, ExclusiveUse, OneHolder
<1> QED
  BY <1>1, Invariance, PTL

\* bget and iderw sleep on one channel, and still nobody sleeps in vain: the
\* buffer waited for is busy, or queued exactly once; a process woken in iderw
\* finds its transfer done.
THEOREM Wakeups ==
  ASSUME BcacheConstants
  PROVE  Spec => []NoLostWakeup
<1>1. Inv => NoLostWakeup
  <2> SUFFICES ASSUME Inv, NEW p \in Proc, pc[p] = "iosleep"
               PROVE  Cardinality({i \in 1 .. Len(idequeue) : idequeue[i] = chan[p]}) = 1
    BY Zenon DEF Inv, Transfers, NoLostWakeup
  <2>1. chan[p] \in Range(idequeue) /\ idequeue \in Seq(Buf) /\ NoRepeat(idequeue)
    BY Zenon DEF Inv, Transfers, Lists
  <2>2. Range(idequeue) = {idequeue[i] : i \in 1 .. Len(idequeue)}
    BY <2>1, RangeFacts, Zenon
  <2>3. PICK k \in 1 .. Len(idequeue) : idequeue[k] = chan[p]
    BY <2>1, <2>2, ZenonT(30)
  <2>4. {i \in 1 .. Len(idequeue) : idequeue[i] = chan[p]} = {k}
    BY <2>1, <2>3 DEF NoRepeat
  <2> QED
    BY <2>4, FS_Singleton, Zenon
<1> QED
  BY <1>1, Invariance, PTL

\* While the disk reports no errors, clean buffers agree with it.
THEOREM CleanInvariance ==
  ASSUME BcacheConstants, ~DiskErrors
  PROVE  Spec => [](Inv /\ Clean)
<1>1. Init => Inv /\ Clean
  BY InitInv, Zenon
<1>2. Inv /\ Clean /\ [Next]_vars => Clean'
  BY CleanStep, Zenon
<1> QED
  BY <1>1, <1>2, Invariance, PTL DEF Spec

\* Without disk errors a valid buffer that is not dirty holds what is on the
\* disk, and the controller has the sector, direction and data of the first
\* buffer in the queue until ideintr: nothing is written stale.
THEOREM MatchesDisk ==
  ASSUME BcacheConstants, ~DiskErrors
  PROVE  Spec => []BufferMatchesDisk
<1>1. Inv /\ Clean => BufferMatchesDisk
  BY Zenon DEF Inv, Controller, Clean, BufferMatchesDisk
<1> QED
  BY <1>1, CleanInvariance, PTL

\* bread keeps its promise while the disk reports no errors: what a running
\* process holds is valid and, unless written since, equal to the disk.
THEOREM BreadReturns ==
  ASSUME BcacheConstants, ~DiskErrors
  PROVE  Spec => []BreadReturnsContents
<1>1. Inv /\ Clean => BreadReturnsContents
  <2> SUFFICES ASSUME Inv, Clean, NEW p \in Proc, pc[p] = "run", NEW b \in Range(hold[p])
               PROVE  b \in valid /\ (b \notin dirty => data[b] = disk[bsec[b]])
    BY ZenonT(30) DEF BreadReturnsContents
  <2>1. pc[p] \notin InIO
    BY DEF InIO
  <2>2. b \in valid
    BY <2>1, Zenon DEF Inv, Transfers
  <2> QED
    BY <2>2, Zenon DEF Clean
<1> QED
  BY <1>1, CleanInvariance, PTL

\* Recycling, transfers and interrupts never lose or revive data: what a reader
\* of a sector gets changes only in a write by the process that holds its
\* buffer.
THEOREM HolderWrites ==
  ASSUME BcacheConstants, ~DiskErrors
  PROVE  Spec => OnlyHolderWrites
<1>1. Inv /\ Clean /\ Inv' /\ [Next]_vars =>
        [\A s \in Sector : Contents(s)' # Contents(s) =>
           \E p \in Proc : pc[p] = "run" /\ hold[p] # <<>> /\ bsec[Last(hold[p])] = s]_vars
  BY WriteStep, Zenon DEF Writes
<1> QED
  BY <1>1, CleanInvariance, PTL DEF Spec, OnlyHolderWrites
=============================================================================

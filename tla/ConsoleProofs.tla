--------------------------- MODULE ConsoleProofs ----------------------------
(***************************************************************************)
(* The safety properties of Console, for every number of readers, every    *)
(* size of the ring buffer and every width of the indices.                 *)
(***************************************************************************)
EXTENDS Console, Modular, TLAPS

-----------------------------------------------------------------------------
(* The inductive invariant.                                                *)

Char == {"x", "X", "nl", "eof"}

\* r, w and e follow each other and are at most INPUT_BUF apart.
Ring ==
  /\ buf \in [0 .. INPUT_BUF - 1 -> Char]
  /\ r \in 0 .. WORD - 1 /\ w \in 0 .. WORD - 1 /\ e \in 0 .. WORD - 1
  /\ Sub(e, r) = Sub(w, r) + Sub(e, w) /\ Sub(e, r) <= INPUT_BUF

\* A newline and an end-of-file mark are committed when they come, so ^U finds
\* none after w.
Uncommitted == \A i \in 1 .. Sub(e, w) : buf[Slot(w + i - 1)] \notin {"nl", "eof"}

\* A call of consoleread is one of these; the reader in its loop, or
\* about to sleep, has the lock.
Calls ==
  /\ rd \in [Reader -> [pc : {"user", "acquire", "loop", "sleep", "asleep"}, n : Nat, got : Seq(Char)]]
  /\ killed \in [Reader -> BOOLEAN]
  /\ \A p \in Reader : /\ rd[p].pc = "user" => rd[p] = Idle
                       /\ rd[p].pc # "user" => rd[p].n # 0
                       /\ rd[p].pc \in {"loop", "sleep"} <=> lock = p

\* A modifier bit is set while a key that sets it is down, and E0ESC between
\* the two bytes of an extended key.
Modifiers ==
  /\ shift \subseteq {"CTL", "SHIFT", "CAPS", "E0ESC"}
  /\ "E0ESC" \in shift <=> code # <<>>
  /\ "CTL" \in shift => \E ext \in BOOLEAN : <<"ctl", ext>> \in held
  /\ "SHIFT" \in shift => <<"shift", FALSE>> \in held

Inv == Ring /\ Uncommitted /\ Calls /\ SleepsOnEmpty /\ Modifiers

-----------------------------------------------------------------------------
(* The indices.                                                            *)

\* The constants.
LEMMA Sizes ==
  /\ INPUT_BUF \in Nat \ {0} /\ WORD \in Nat \ {0} /\ WORD > INPUT_BUF
  /\ Counts \subseteq Nat \ {0} /\ "free" \notin Reader
BY ConsoleConstants

\* Subtraction and addition of unsigned words, without the remainder.
LEMMA Words ==
  /\ \A a, b \in 0 .. WORD - 1 : Sub(a, b) = IF a >= b THEN a - b ELSE a - b + WORD
  /\ \A a \in 0 .. WORD - 1 : \A b \in 0 .. INPUT_BUF :
       (a + b) % WORD = IF a + b < WORD THEN a + b ELSE a + b - WORD
<1>1. ASSUME NEW a \in 0 .. WORD - 1, NEW b \in 0 .. WORD - 1
      PROVE  Sub(a, b) = IF a >= b THEN a - b ELSE a - b + WORD
  BY Sizes, SubCases, Zenon DEF Sub
<1>2. ASSUME NEW a \in 0 .. WORD - 1, NEW b \in 0 .. INPUT_BUF
      PROVE  (a + b) % WORD = IF a + b < WORD THEN a + b ELSE a + b - WORD
  <2>1. b \in 0 .. WORD
    BY Sizes
  <2> QED
    BY Sizes, <2>1, AddCases, Zenon
<1> QED
  BY <1>1, <1>2, Zenon

\* How far apart two indices are.
LEMMA Distance ==
  ASSUME NEW a \in 0 .. WORD - 1, NEW b \in 0 .. WORD - 1
  PROVE  /\ Sub(a, b) \in 0 .. WORD - 1 /\ Sub(a, a) = 0 /\ (Sub(a, b) = 0 <=> a = b)
         /\ Sub(a, b) <= INPUT_BUF => a = (b + Sub(a, b)) % WORD
<1>1. Sub(a, b) = (IF a >= b THEN a - b ELSE a - b + WORD) /\ Sub(a, a) = 0
  BY Words
<1>2. Sub(a, b) \in 0 .. WORD - 1 /\ (Sub(a, b) = 0 <=> a = b)
  BY <1>1, Sizes
<1>3. ASSUME Sub(a, b) <= INPUT_BUF PROVE a = (b + Sub(a, b)) % WORD
  <2>1. Sub(a, b) \in 0 .. INPUT_BUF
    BY <1>2, <1>3, Sizes
  <2>2. (b + Sub(a, b)) % WORD = IF b + Sub(a, b) < WORD THEN b + Sub(a, b) ELSE b + Sub(a, b) - WORD
    BY <2>1, Words, Zenon
  <2> QED
    BY <1>1, <2>2, Sizes
<1> QED
  BY <1>1, <1>2, <1>3, Zenon

\* A character more: e + 1.
LEMMA Longer ==
  ASSUME NEW a \in 0 .. WORD - 1, NEW b \in 0 .. WORD - 1, Sub(a, b) < INPUT_BUF
  PROVE  /\ (a + 1) % WORD \in 0 .. WORD - 1
         /\ Sub((a + 1) % WORD, b) = Sub(a, b) + 1
<1>1. (a + 1) % WORD = IF a + 1 < WORD THEN a + 1 ELSE a + 1 - WORD
  <2>1. 1 \in 0 .. INPUT_BUF
    BY Sizes
  <2> QED
    BY <2>1, Words, Zenon
<1>2. (a + 1) % WORD \in 0 .. WORD - 1
  BY <1>1, Sizes
<1>3. /\ Sub(a, b) = IF a >= b THEN a - b ELSE a - b + WORD
      /\ Sub((a + 1) % WORD, b) = IF (a + 1) % WORD >= b THEN ((a + 1) % WORD) - b
                                  ELSE ((a + 1) % WORD) - b + WORD
  BY <1>2, Words, Zenon
<1> DEFINE d == (a + 1) % WORD
<1> HIDE DEF d
<1>4. /\ d = IF a + 1 < WORD THEN a + 1 ELSE a + 1 - WORD
      /\ Sub(d, b) = IF d >= b THEN d - b ELSE d - b + WORD
  BY <1>1, <1>3, Zenon DEF d
<1>5. Sub(d, b) = Sub(a, b) + 1
  BY <1>3, <1>4, Sizes
<1> QED
  BY <1>2, <1>5, Zenon DEF d

\* A character less at the end: e - 1.
LEMMA Shorter ==
  ASSUME NEW a \in 0 .. WORD - 1, NEW b \in 0 .. WORD - 1, a # b
  PROVE  /\ Sub(a, 1) \in 0 .. WORD - 1
         /\ Sub(Sub(a, 1), b) = Sub(a, b) - 1
<1>1. 1 \in 0 .. WORD - 1
  BY Sizes
<1>2. Sub(a, 1) = IF a >= 1 THEN a - 1 ELSE a - 1 + WORD
  BY <1>1, Words, Zenon
<1>3. Sub(a, 1) \in 0 .. WORD - 1
  BY <1>2, Sizes
<1>4. /\ Sub(a, b) = IF a >= b THEN a - b ELSE a - b + WORD
      /\ Sub(Sub(a, 1), b) = IF Sub(a, 1) >= b THEN Sub(a, 1) - b ELSE Sub(a, 1) - b + WORD
  BY <1>3, Words, Zenon
<1> QED
  BY <1>2, <1>3, <1>4, Sizes

\* A character less at the front: r + 1.
LEMMA Later ==
  ASSUME NEW a \in 0 .. WORD - 1, NEW b \in 0 .. WORD - 1, a # b
  PROVE  /\ (b + 1) % WORD \in 0 .. WORD - 1
         /\ Sub(a, (b + 1) % WORD) = Sub(a, b) - 1
<1>1. (b + 1) % WORD = IF b + 1 < WORD THEN b + 1 ELSE b + 1 - WORD
  <2>1. 1 \in 0 .. INPUT_BUF
    BY Sizes
  <2> QED
    BY <2>1, Words, Zenon
<1> DEFINE d == (b + 1) % WORD
<1>2. d = IF b + 1 < WORD THEN b + 1 ELSE b + 1 - WORD
  BY <1>1, Zenon
<1> HIDE DEF d
<1>3. d \in 0 .. WORD - 1
  BY <1>2, Sizes
<1>4. /\ Sub(a, b) = IF a >= b THEN a - b ELSE a - b + WORD
      /\ Sub(a, d) = IF a >= d THEN a - d ELSE a - d + WORD
  BY <1>3, Words, Zenon
<1>5. Sub(a, d) = Sub(a, b) - 1
  BY <1>2, <1>3, <1>4, Sizes
<1> QED
  BY <1>3, <1>5, Zenon DEF d

\* The distances from r, w and e, and the room that consoleintr tests.
LEMMA RingFacts ==
  ASSUME Ring
  PROVE  /\ Sub(e, r) \in Nat /\ Sub(w, r) \in Nat /\ Sub(e, w) \in Nat
         /\ Sub(w, r) <= Sub(e, r) /\ Sub(e, w) <= Sub(e, r)
         /\ (Sub(e, w) = 0 <=> e = w) /\ (Sub(w, r) = 0 <=> w = r)
         /\ w = (r + Sub(w, r)) % WORD /\ e = (w + Sub(e, w)) % WORD /\ e = (r + Sub(e, r)) % WORD
<1>1. /\ r \in 0 .. WORD - 1 /\ w \in 0 .. WORD - 1 /\ e \in 0 .. WORD - 1
      /\ Sub(e, r) = Sub(w, r) + Sub(e, w) /\ Sub(e, r) <= INPUT_BUF
  BY Zenon DEF Ring
<1>2. /\ Sub(e, r) \in 0 .. WORD - 1 /\ Sub(w, r) \in 0 .. WORD - 1 /\ Sub(e, w) \in 0 .. WORD - 1
      /\ (Sub(e, w) = 0 <=> e = w) /\ (Sub(w, r) = 0 <=> w = r)
  BY <1>1, Distance, Zenon
<1>3. Sub(w, r) <= Sub(e, r) /\ Sub(e, w) <= Sub(e, r) /\ Sub(e, r) \in Nat /\ Sub(w, r) \in Nat /\ Sub(e, w) \in Nat
  BY <1>1, <1>2, Sizes
<1>4. Sub(w, r) <= INPUT_BUF /\ Sub(e, w) <= INPUT_BUF
  BY <1>1, <1>3, Sizes
<1>5. w = (r + Sub(w, r)) % WORD /\ e = (w + Sub(e, w)) % WORD /\ e = (r + Sub(e, r)) % WORD
  BY <1>1, <1>4, Distance, Zenon
<1> QED
  BY <1>2, <1>3, <1>5, Zenon

\* The place after the last character is none of those in use.
LEMMA Free ==
  ASSUME NEW a \in 0 .. WORD - 1, NEW b \in 0 .. WORD - 1, Sub(b, a) < INPUT_BUF
  PROVE  /\ Slot(b) = Slot(a + (Sub(b, a) + 1) - 1) /\ Slot(b) \in 0 .. INPUT_BUF - 1
         /\ \A i \in 1 .. Sub(b, a) : Slot(a + i - 1) # Slot(b)
<1> DEFINE d == Sub(b, a)
<1>1. d \in 0 .. INPUT_BUF - 1 /\ d <= INPUT_BUF /\ d \in Int /\ a \in Int /\ b \in Int
  <2>1. d \in 0 .. WORD - 1
    BY Distance, Zenon
  <2> QED
    BY <2>1, Sizes
<1>2. b = (a + d) % WORD
  BY <1>1, Distance, Zenon
<1>3. WORD % INPUT_BUF = 0 /\ INPUT_BUF \in Nat \ {0} /\ WORD \in Nat \ {0} /\ a + d \in Int
  BY <1>1, ConsoleConstants, Sizes
<1> HIDE DEF d
<1>4. ((a + d) % WORD) % INPUT_BUF = (a + d) % INPUT_BUF
  BY <1>3, ModMod, Zenon
<1>5. Slot(b) = (a + d) % INPUT_BUF
  BY <1>2, <1>4, Zenon DEF Slot
<1>6. a + (d + 1) - 1 = a + d
  BY <1>1
<1>7. Slot(b) \in 0 .. INPUT_BUF - 1
  BY <1>1, <1>3, ModRange, Zenon DEF Slot
<1>8. ASSUME NEW i \in 1 .. d, Slot(a + i - 1) = Slot(b) PROVE FALSE
  <2>1. i - 1 \in 0 .. INPUT_BUF - 1 /\ a + i - 1 = a + (i - 1) /\ i - 1 # d
    BY <1>1, <1>3
  <2>2. (a + (i - 1)) % INPUT_BUF = (a + d) % INPUT_BUF
    BY <1>5, <1>8, <2>1, Zenon DEF Slot
  <2> QED
    BY <1>1, <1>3, <2>1, <2>2, ModDistinct, Zenon
<1> QED
  BY <1>5, <1>6, <1>7, <1>8, Zenon DEF d, Slot

\* Places counted from two indices.
LEMMA SamePlace ==
  ASSUME NEW a \in 0 .. WORD - 1, NEW d \in Int
  PROVE  \A i \in Int : Slot(((a + d) % WORD) + i - 1) = Slot(a + (d + i) - 1)
<1> SUFFICES ASSUME NEW i \in Int PROVE Slot(((a + d) % WORD) + i - 1) = Slot(a + (d + i) - 1)
  BY Zenon
<1>1. WORD % INPUT_BUF = 0 /\ INPUT_BUF \in Nat \ {0} /\ WORD \in Nat \ {0} /\ a + d \in Int /\ i - 1 \in Int
  BY ConsoleConstants, Sizes
<1>2. (((a + d) % WORD) + (i - 1)) % INPUT_BUF = ((a + d) + (i - 1)) % INPUT_BUF
  <2>1. \A x, y \in Int : ((x % WORD) + y) % INPUT_BUF = (x + y) % INPUT_BUF
    BY <1>1, ModWrapped, Zenon
  <2> QED
    BY <1>1, <2>1, Zenon
<1>3. (a + d) % WORD \in Int
  BY <1>1, ModRange, Zenon
<1> DEFINE u == (a + d) % WORD
<1> HIDE DEF u
<1>4. u + i - 1 = u + (i - 1) /\ (a + d) + (i - 1) = a + (d + i) - 1
  BY <1>1, <1>3 DEF u
<1> QED
  BY <1>2, <1>4, Zenon DEF Slot, u

\* A place lies in the buffer.
LEMMA InBuffer ==
  ASSUME NEW a \in Int
  PROVE  Slot(a) \in 0 .. INPUT_BUF - 1
BY Sizes, ModRange, Zenon DEF Slot

-----------------------------------------------------------------------------
(* What one character does in consoleintr.                                 *)

Rejected == UNCHANGED <<input, rd>>
Erases == e # w /\ e' = Sub(e, 1) /\ UNCHANGED <<buf, r, w, rd>>
Kills == e' = w /\ UNCHANGED <<buf, r, w, rd>>
Puts(c) ==
  /\ Sub(e, r) < INPUT_BUF
  /\ buf' = [buf EXCEPT ![Slot(e)] = c] /\ e' = (e + 1) % WORD /\ r' = r
  /\ \/ c \notin {"nl", "eof"} /\ Sub(e, r) + 1 # INPUT_BUF /\ UNCHANGED <<w, rd>>
     \/ (c \in {"nl", "eof"} \/ Sub(e, r) + 1 = INPUT_BUF) /\ w' = e' /\ rd' = Woken
Edits == Rejected \/ Erases \/ Kills \/ \E c \in Char : Puts(c)

\* consoleintr does one of these: ^U stops at w because no newline lies after
\* it, and the test for a full buffer is one for the last free place.
LEMMA Editing ==
  ASSUME Ring, Uncommitted, NEW c, consoleintr(c)
  PROVE  Edits /\ lock = "free" /\ UNCHANGED <<lock, killed>>
<1>1. lock = "free" /\ UNCHANGED <<lock, killed>>
  BY Zenon DEF consoleintr
<1>2. w \in 0 .. WORD - 1 /\ e \in 0 .. WORD - 1 /\ r \in 0 .. WORD - 1
  BY Zenon DEF Ring
<1>3. CASE /\ c = "kill"
           /\ LET keep == {k \in 1 .. Sub(e, w) : buf[Slot(w + k - 1)] = "nl"} IN
              e' = (w + Max(keep \union {0})) % WORD
           /\ Erased
  <2>1. {k \in 1 .. Sub(e, w) : buf[Slot(w + k - 1)] = "nl"} = {}
    BY Zenon DEF Uncommitted
  <2>2. e' = (w + Max({} \union {0})) % WORD
    BY <1>3, <2>1, Zenon
  <2>3. {} \union {0} = {0} /\ Max({0}) = 0
    BY DEF Max
  <2>4. (w + 0) % WORD = w
    <3>1. 0 \in 0 .. INPUT_BUF
      BY Sizes
    <3>2. (w + 0) % WORD = IF w + 0 < WORD THEN w + 0 ELSE w + 0 - WORD
      BY <1>2, <3>1, Words, Zenon
    <3> QED
      BY <1>2, <3>2, Sizes
  <2>5. e' = w
    BY <2>2, <2>3, <2>4, Zenon
  <2> QED
    BY <1>1, <1>3, <2>5, Zenon DEF Edits, Kills, Erased
<1>4. CASE c = "bs" /\ e' = (IF Erasable THEN Sub(e, 1) ELSE e) /\ Erased
  BY <1>1, <1>4, Zenon DEF Edits, Erases, Rejected, Erased, Erasable, input
<1>5. CASE UNCHANGED <<input, rd>>
  BY <1>1, <1>5, Zenon DEF Edits, Rejected
<1>6. CASE /\ c \in {"x", "X", "nl", "eof"} /\ Sub(e, r) < INPUT_BUF
           /\ buf' = [buf EXCEPT ![Slot(e)] = c]
           /\ e' = (e + 1) % WORD
           /\ IF c \in {"nl", "eof"} \/ e' = (r + INPUT_BUF) % WORD
              THEN w' = e' /\ rd' = Woken
              ELSE UNCHANGED <<w, rd>>
           /\ UNCHANGED r
  <2>1. e' = (r + INPUT_BUF) % WORD <=> Sub(e, r) + 1 = INPUT_BUF
    <3>1. 1 \in 0 .. INPUT_BUF /\ INPUT_BUF \in 0 .. INPUT_BUF
      BY Sizes
    <3>2. e' = IF e + 1 < WORD THEN e + 1 ELSE e + 1 - WORD
      BY <1>2, <1>6, <3>1, Words, Zenon
    <3>3. (r + INPUT_BUF) % WORD = IF r + INPUT_BUF < WORD THEN r + INPUT_BUF ELSE r + INPUT_BUF - WORD
      BY <1>2, <3>1, Words, Zenon
    <3>4. Sub(e, r) = IF e >= r THEN e - r ELSE e - r + WORD
      BY <1>2, Words, Zenon
    <3>5. Sub(e, r) < INPUT_BUF
      BY <1>6, Zenon
    <3> DEFINE f == (r + INPUT_BUF) % WORD
    <3> HIDE DEF f
    <3>6. f = IF r + INPUT_BUF < WORD THEN r + INPUT_BUF ELSE r + INPUT_BUF - WORD
      BY <3>3, Zenon DEF f
    <3>7. e' = f <=> Sub(e, r) + 1 = INPUT_BUF
      BY <1>2, <3>2, <3>4, <3>5, <3>6, Sizes
    <3> QED
      BY <3>7, Zenon DEF f
  <2>2. Puts(c)
    BY <1>6, <2>1, Zenon DEF Puts
  <2> QED
    BY <1>1, <1>6, <2>2, Zenon DEF Edits, Char
<1> QED
  BY <1>3, <1>4, <1>5, <1>6, Zenon DEF consoleintr

\* The steps: one character, from the serial line or the keyboard, or a step of
\* a reader.
LEMMA Steps ==
  ASSUME Ring, Uncommitted, [Next]_vars
  PROVE  \/ Edits /\ lock = "free" /\ UNCHANGED <<lock, killed>>
         \/ \E p \in Reader, n \in Counts : consoleread(p, n)
         \/ \E p \in Reader : \/ acquire(p) \/ read_empty(p) \/ read_sleep(p) \/ read_char(p)
                              \/ kill(p) \/ exit(p)
         \/ UNCHANGED vars
<1>1. ASSUME NEW c, uartintr(c) PROVE Edits /\ lock = "free" /\ UNCHANGED <<lock, killed>>
  BY <1>1, Editing, Zenon DEF uartintr
<1>2. ASSUME NEW k, NEW down, kbdgetc_E0(k, down) PROVE Edits /\ lock = "free" /\ UNCHANGED <<lock, killed>>
  BY <1>2, Editing, Zenon DEF kbdgetc_E0
<1>3. ASSUME NEW k, NEW down, kbdgetc(k, down) PROVE Edits /\ lock = "free" /\ UNCHANGED <<lock, killed>>
  <2>1. \E c : consoleintr(c)
    BY <1>3, Zenon DEF kbdgetc
  <2> QED
    BY <2>1, Editing, Zenon
<1> QED
  BY <1>1, <1>2, <1>3, Zenon DEF Next, Read

-----------------------------------------------------------------------------
(* Every step keeps the invariant.                                         *)

\* The indices stay in order: only consoleintr moves e and w, only read_char
\* moves r.
LEMMA RingStep ==
  ASSUME Inv, [Next]_vars
  PROVE  Ring'
<1>1. Ring /\ Uncommitted
  BY Zenon DEF Inv
<1>2. /\ r \in 0 .. WORD - 1 /\ w \in 0 .. WORD - 1 /\ e \in 0 .. WORD - 1
      /\ Sub(e, r) = Sub(w, r) + Sub(e, w) /\ Sub(e, r) <= INPUT_BUF
      /\ buf \in [0 .. INPUT_BUF - 1 -> Char]
  BY <1>1, Zenon DEF Ring
<1>3. /\ Sub(e, r) \in Nat /\ Sub(w, r) \in Nat /\ Sub(e, w) \in Nat
      /\ Sub(w, r) <= Sub(e, r) /\ Sub(e, w) <= Sub(e, r)
  BY <1>1, RingFacts, Zenon
<1>4. CASE Rejected \/ UNCHANGED vars
  BY <1>2, <1>4, Zenon DEF Ring, Rejected, vars, input, Sub
<1>5. CASE Erases
  <2>1. UNCHANGED <<buf, r, w>> /\ e' = Sub(e, 1)
    BY <1>5, Zenon DEF Erases
  <2>2. Sub(e, w) # 0 /\ e # w /\ e # r
    BY <1>1, <1>3, <1>5, RingFacts, Distance, <1>2 DEF Erases
  <2>3. e' \in 0 .. WORD - 1 /\ Sub(e', r) = Sub(e, r) - 1 /\ Sub(e', w) = Sub(e, w) - 1
    BY <1>2, <2>1, <2>2, Shorter, Zenon
  <2>4. Sub(e', r) = Sub(w, r) + Sub(e', w) /\ Sub(e', r) <= INPUT_BUF
    BY <1>2, <1>3, <2>3, Sizes
  <2> QED
    BY <1>2, <2>1, <2>3, <2>4, Zenon DEF Ring, Sub
<1>6. CASE Kills
  <2>1. UNCHANGED <<buf, r, w>> /\ e' = w
    BY <1>6, Zenon DEF Kills
  <2>2. Sub(w, w) = 0
    BY <1>2, Distance, Zenon
  <2>3. Sub(w, r) = Sub(w, r) + Sub(w, w) /\ Sub(w, r) <= INPUT_BUF
    BY <1>2, <1>3, <2>2, Sizes
  <2> QED
    BY <1>2, <2>1, <2>3, Zenon DEF Ring, Sub
<1>7. ASSUME NEW c \in Char, Puts(c) PROVE Ring'
  <2>1. /\ Sub(e, r) < INPUT_BUF /\ buf' = [buf EXCEPT ![Slot(e)] = c] /\ e' = (e + 1) % WORD /\ r' = r
        /\ w' = w \/ w' = e'
    BY <1>7, Zenon DEF Puts
  <2>2. e' \in 0 .. WORD - 1 /\ Sub(e', r) = Sub(e, r) + 1
    BY <1>2, <2>1, Longer, Zenon
  <2>3. Sub(e, w) < INPUT_BUF
    BY <1>3, <2>1, Sizes
  <2>4. Sub(e', w) = Sub(e, w) + 1 /\ Sub(e', e') = 0
    BY <1>2, <2>1, <2>2, <2>3, Longer, Distance, Zenon
  <2>5. Slot(e) \in 0 .. INPUT_BUF - 1
    BY <1>2, InBuffer
  <2>6. buf' \in [0 .. INPUT_BUF - 1 -> Char]
    BY <1>2, <2>1, <2>5, Zenon
  <2>7. CASE w' = w
    <3>1. Sub(e', r) = Sub(w, r) + Sub(e', w) /\ Sub(e', r) <= INPUT_BUF
      BY <1>2, <1>3, <2>1, <2>2, <2>4, Sizes
    <3> QED
      BY <1>2, <2>1, <2>2, <2>6, <2>7, <3>1, Zenon DEF Ring, Sub
  <2>8. CASE w' = e'
    <3>1. Sub(e', r) = Sub(e', r) + Sub(e', e') /\ Sub(e', r) <= INPUT_BUF
      BY <1>2, <1>3, <2>1, <2>2, <2>4, Sizes
    <3> QED
      BY <1>2, <2>1, <2>2, <2>6, <2>8, <3>1, Zenon DEF Ring, Sub
  <2> QED
    BY <2>1, <2>7, <2>8, Zenon
<1>8. ASSUME NEW p \in Reader, read_char(p) PROVE Ring'
  <2>1. UNCHANGED <<buf, w, e>> /\ r # w /\ (r' = r \/ r' = (r + 1) % WORD)
    BY <1>8, Zenon DEF read_char
  <2>2. CASE r' = r
    BY <1>2, <2>1, <2>2, Zenon DEF Ring, Sub
  <2>3. CASE r' = (r + 1) % WORD
    <3>1. e # r
      BY <1>1, <1>2, <1>3, <2>1, RingFacts, Distance
    <3>2. r' \in 0 .. WORD - 1 /\ Sub(w, r') = Sub(w, r) - 1 /\ Sub(e, r') = Sub(e, r) - 1
      BY <1>2, <2>1, <2>3, <3>1, Later, Zenon
    <3>3. Sub(e, r') = Sub(w, r') + Sub(e, w) /\ Sub(e, r') <= INPUT_BUF
      BY <1>2, <1>3, <3>2, Sizes
    <3> QED
      BY <1>2, <2>1, <3>2, <3>3, Zenon DEF Ring, Sub
  <2> QED
    BY <2>1, <2>2, <2>3, Zenon
<1>9. CASE UNCHANGED input
  BY <1>2, <1>9, Zenon DEF Ring, input, Sub
<1> QED
  BY <1>1, <1>4, <1>5, <1>6, <1>7, <1>8, <1>9, Steps, Zenon
     DEF Edits, consoleread, acquire, read_empty, read_sleep, kill, exit

\* What is put into the buffer after w is neither a newline nor a mark, or w
\* moves past it.
LEMMA UncommittedStep ==
  ASSUME Inv, [Next]_vars
  PROVE  Uncommitted'
<1>1. Ring /\ Uncommitted
  BY Zenon DEF Inv
<1>2. /\ r \in 0 .. WORD - 1 /\ w \in 0 .. WORD - 1 /\ e \in 0 .. WORD - 1
      /\ buf \in [0 .. INPUT_BUF - 1 -> Char]
  BY <1>1, Zenon DEF Ring
<1>3. /\ Sub(e, r) \in Nat /\ Sub(w, r) \in Nat /\ Sub(e, w) \in Nat
      /\ Sub(w, r) <= Sub(e, r) /\ Sub(e, w) <= Sub(e, r)
  BY <1>1, RingFacts, Zenon
<1>4. CASE UNCHANGED <<buf, w, e>>
  BY <1>1, <1>4, Zenon DEF Uncommitted, Sub, Slot
<1>5. CASE Erases
  <2>1. UNCHANGED <<buf, r, w>> /\ e' = Sub(e, 1) /\ e # w
    BY <1>5, Zenon DEF Erases
  <2>2. Sub(e', w) = Sub(e, w) - 1
    BY <1>2, <2>1, Shorter, Zenon
  <2>3. \A i \in 1 .. Sub(e', w) : i \in 1 .. Sub(e, w)
    BY <1>3, <2>2
  <2> QED
    BY <1>1, <2>1, <2>3, Zenon DEF Uncommitted, Sub, Slot
<1>6. ASSUME w' = e', w' \in 0 .. WORD - 1 PROVE Uncommitted'
  <2>1. Sub(w', w') = 0
    BY <1>6, Distance, Zenon
  <2>2. 1 .. Sub(w', w') = {}
    BY <2>1
  <2>3. (1 .. Sub(e, w))' = {}
    BY <1>6, <2>2, Zenon DEF Sub
  <2> QED
    BY <2>3, Zenon DEF Uncommitted
<1>7. ASSUME NEW c \in Char, Puts(c) PROVE Uncommitted'
  <2>1. /\ Sub(e, r) < INPUT_BUF /\ buf' = [buf EXCEPT ![Slot(e)] = c] /\ e' = (e + 1) % WORD
        /\ (c \notin {"nl", "eof"} /\ w' = w) \/ w' = e'
    BY <1>7, Zenon DEF Puts
  <2>2. Sub(e, w) < INPUT_BUF
    BY <1>3, <2>1, Sizes
  <2>3. e' \in 0 .. WORD - 1 /\ Sub(e', w) = Sub(e, w) + 1
    BY <1>2, <2>1, <2>2, Longer, Zenon
  <2>4. /\ Slot(e) = Slot(w + (Sub(e, w) + 1) - 1) /\ Slot(e) \in 0 .. INPUT_BUF - 1
        /\ \A i \in 1 .. Sub(e, w) : Slot(w + i - 1) # Slot(e)
    BY <1>2, <2>2, Free, Zenon
  <2>5. CASE c \notin {"nl", "eof"} /\ w' = w
    <3> SUFFICES ASSUME NEW i \in 1 .. Sub(e', w) PROVE buf'[Slot(w + i - 1)] \notin {"nl", "eof"}
      BY <2>5, Zenon DEF Uncommitted, Sub, Slot
    <3>1. i \in 1 .. Sub(e, w) \/ i = Sub(e, w) + 1
      BY <1>3, <2>3
    <3>2. CASE i \in 1 .. Sub(e, w)
      <4>1. w + i - 1 \in Int
        BY <1>2
      <4>2. Slot(w + i - 1) \in 0 .. INPUT_BUF - 1 /\ Slot(w + i - 1) # Slot(e)
        BY <2>4, <3>2, <4>1, InBuffer, Zenon
      <4>3. buf'[Slot(w + i - 1)] = buf[Slot(w + i - 1)]
        BY <1>2, <2>1, <4>2, Zenon
      <4> QED
        BY <1>1, <3>2, <4>3, Zenon DEF Uncommitted
    <3>3. CASE i = Sub(e, w) + 1
      <4>1. Slot(w + i - 1) = Slot(e)
        BY <2>4, <3>3, Zenon
      <4>2. buf'[Slot(e)] = c
        BY <1>2, <2>1, <2>4, Zenon
      <4> QED
        BY <2>5, <4>1, <4>2, Zenon
    <3> QED
      BY <3>1, <3>2, <3>3, Zenon
  <2> QED
    BY <1>6, <2>1, <2>3, <2>5, Zenon
<1>8. CASE Kills
  BY <1>2, <1>6, <1>8, Zenon DEF Kills
<1> QED
  BY <1>1, <1>4, <1>5, <1>7, <1>8, Steps, Zenon
     DEF Edits, Rejected, consoleread, acquire, read_empty, read_sleep, read_char, kill, exit, vars, input

\* The calls: their types, and that the reader in the loop has the lock.
LEMMA CallsStep ==
  ASSUME Inv, [Next]_vars
  PROVE  Calls'
<1>1. Ring /\ Uncommitted /\ Calls
  BY Zenon DEF Inv
<1> DEFINE Call == [pc : {"user", "acquire", "loop", "sleep", "asleep"}, n : Nat, got : Seq(Char)]
           Good(c, k, l, p) == /\ c \in Call
                               /\ c.pc = "user" => c = Idle
                               /\ c.pc # "user" => c.n # 0
                               /\ c.pc \in {"loop", "sleep"} <=> l = p
<1>2. /\ rd \in [Reader -> Call] /\ killed \in [Reader -> BOOLEAN]
      /\ \A p \in Reader : Good(rd[p], killed[p], lock, p)
  BY <1>1 DEF Calls
<1>3. ASSUME rd' \in [Reader -> Call], killed' \in [Reader -> BOOLEAN],
             \A p \in Reader : Good(rd'[p], killed'[p], lock', p)
      PROVE  Calls'
  BY <1>3 DEF Calls
<1>4. CASE UNCHANGED <<rd, killed, lock>>
  BY <1>2, <1>3, <1>4, Zenon
<1>5. CASE rd' = Woken /\ UNCHANGED <<killed, lock>>
  <2>1. \A p \in Reader : Good(rd'[p], killed'[p], lock', p)
    BY <1>2, <1>5, Zenon DEF Woken, Idle
  <2>2. rd' \in [Reader -> Call]
    BY <2>1, <1>5 DEF Woken
  <2> QED
    BY <1>2, <1>3, <1>5, <2>1, <2>2, Zenon
<1>6. ASSUME NEW p \in Reader, NEW c, NEW k \in BOOLEAN,
             rd' = [rd EXCEPT ![p] = c], Good(c, k, lock', p), killed' = [killed EXCEPT ![p] = k],
             \A q \in Reader \ {p} : lock' = q <=> lock = q
      PROVE  Calls'
  <2>1. c \in Call
    BY <1>6, Zenon
  <2>2. rd' \in [Reader -> Call] /\ killed' \in [Reader -> BOOLEAN]
    BY <1>2, <1>6, <2>1, Zenon
  <2>3. ASSUME NEW q \in Reader PROVE Good(rd'[q], killed'[q], lock', q)
    <3>1. CASE q = p
      BY <1>2, <1>6, <3>1, Zenon
    <3>2. CASE q # p
      <4>1. rd'[q] = rd[q] /\ (lock' = q <=> lock = q)
        BY <1>2, <1>6, <3>2, Zenon
      <4> QED
        BY <1>2, <4>1, Zenon
    <3> QED
      BY <3>1, <3>2, Zenon
  <2> QED
    BY <1>3, <2>2, <2>3, Zenon
<1>7. CASE Edits /\ lock = "free" /\ UNCHANGED <<lock, killed>>
  BY <1>4, <1>5, <1>7, Zenon DEF Edits, Rejected, Erases, Kills, Puts
<1>8. ASSUME NEW p \in Reader, UNCHANGED killed PROVE killed[p] \in BOOLEAN /\ killed' = [killed EXCEPT ![p] = killed[p]]
  BY <1>2, <1>8, Zenon
<1>9. ASSUME NEW p \in Reader, NEW n \in Counts, consoleread(p, n) PROVE Calls'
  <2> DEFINE c == [pc |-> "acquire", n |-> n, got |-> <<>>]
  <2>1. rd' = [rd EXCEPT ![p] = c] /\ UNCHANGED <<lock, killed>> /\ rd[p].pc = "user"
    BY <1>9, Zenon DEF consoleread
  <2>3. lock' # p
    BY <1>2, <2>1, Zenon
  <2>4. c \in Call /\ c.pc = "acquire" /\ c.n # 0
    BY Sizes
  <2>2. Good(c, killed[p], lock', p)
    BY <2>3, <2>4, Zenon
  <2> HIDE DEF c, Good
  <2> QED
    BY <1>6, <1>8, <2>1, <2>2, Zenon
<1>10. ASSUME NEW p \in Reader, acquire(p) PROVE Calls'
  <2> DEFINE c == [rd[p] EXCEPT !.pc = "loop"]
  <2>1. rd' = [rd EXCEPT ![p] = c] /\ UNCHANGED killed /\ rd[p].pc = "acquire" /\ lock = "free" /\ lock' = p
    BY <1>10 DEF acquire
  <2>2. Good(c, killed[p], lock', p)
    BY <1>2, <2>1, Zenon
  <2>3. \A q \in Reader \ {p} : lock' = q <=> lock = q
    BY <2>1, Sizes, Zenon
  <2> HIDE DEF c, Good
  <2> QED
    BY <1>6, <1>8, <2>1, <2>2, <2>3, Zenon
<1>11. ASSUME NEW p \in Reader, read_empty(p) PROVE Calls'
  <2> DEFINE c == IF killed[p] THEN Idle ELSE [rd[p] EXCEPT !.pc = "sleep"]
  <2>1. /\ rd' = [rd EXCEPT ![p] = c] /\ UNCHANGED killed /\ rd[p].pc = "loop"
        /\ lock' = IF killed[p] THEN "free" ELSE p
    BY <1>11 DEF read_empty
  <2>2. lock = p
    BY <1>2, <2>1, Zenon
  <2>3. Good(c, killed[p], lock', p)
    <3>1. CASE killed[p]
      <4>1. c = Idle
        BY <3>1, Zenon
      <4>2. c \in Call /\ c.pc = "user" /\ c = Idle
        BY <4>1 DEF Idle
      <4>3. lock' # p
        BY <2>1, <3>1, Sizes, Zenon
      <4> HIDE DEF c
      <4> QED
        BY <4>2, <4>3, Zenon
    <3>2. CASE ~killed[p]
      <4>1. c = [rd[p] EXCEPT !.pc = "sleep"]
        BY <3>2, Zenon
      <4>2. rd[p] \in Call /\ rd[p].n # 0
        BY <1>2, <2>1, Zenon
      <4>3. c \in Call /\ c.pc = "sleep" /\ c.n # 0
        BY <4>1, <4>2
      <4>4. lock' = p
        BY <2>1, <3>2, Zenon
      <4> HIDE DEF c
      <4> QED
        BY <4>3, <4>4, Zenon
    <3> QED
      BY <3>1, <3>2, Zenon
  <2>4. \A q \in Reader \ {p} : lock' = q <=> lock = q
    BY <2>1, <2>2, Sizes, Zenon
  <2> HIDE DEF c, Good
  <2> QED
    BY <1>6, <1>8, <2>1, <2>3, <2>4, Zenon
<1>16. ASSUME NEW p \in Reader, read_sleep(p) PROVE Calls'
  <2> DEFINE c == [rd[p] EXCEPT !.pc = "asleep"]
  <2>1. rd' = [rd EXCEPT ![p] = c] /\ UNCHANGED killed /\ rd[p].pc = "sleep" /\ lock' = "free"
    BY <1>16 DEF read_sleep
  <2>2. lock = p
    BY <1>2, <2>1, Zenon
  <2>3. Good(c, killed[p], lock', p)
    BY <1>2, <2>1, Sizes, Zenon
  <2>4. \A q \in Reader \ {p} : lock' = q <=> lock = q
    BY <2>1, <2>2, Sizes, Zenon
  <2> HIDE DEF c, Good
  <2> QED
    BY <1>6, <1>8, <2>1, <2>3, <2>4, Zenon
<1>12. ASSUME NEW p \in Reader, read_char(p) PROVE Calls'
  <2> DEFINE d == buf[Slot(r)]
             ends == d = "eof" \/ (d = "nl" \/ rd[p].n = 1)
             c == IF ends THEN Idle ELSE [pc |-> "loop", n |-> rd[p].n - 1, got |-> Append(rd[p].got, d)]
  <2>1. /\ rd' = [rd EXCEPT ![p] = c] /\ UNCHANGED killed /\ rd[p].pc = "loop"
        /\ lock' = IF ends THEN "free" ELSE p
    <3>1. UNCHANGED killed /\ rd[p].pc = "loop" /\ lock' = IF ends THEN "free" ELSE p
      BY <1>12 DEF read_char
    <3>2. rd' = [rd EXCEPT ![p] = c]
      BY <1>12, Zenon DEF read_char
    <3> QED
      BY <3>1, <3>2, Zenon
  <2>2. lock = p
    BY <1>2, <2>1, Zenon
  <2>3. d \in Char
    BY <1>1, InBuffer, Sizes DEF Ring
  <2> HIDE DEF d
  <2>4. Good(c, killed[p], lock', p)
    <3>1. CASE ends
      <4>1. c = Idle /\ lock' = "free"
        BY <2>1, <3>1, Zenon
      <4> HIDE DEF c
      <4> QED
        BY <1>2, <4>1, Sizes DEF Idle
    <3>2. CASE ~ends
      <4>1. c = [pc |-> "loop", n |-> rd[p].n - 1, got |-> Append(rd[p].got, d)] /\ lock' = p /\ rd[p].n # 1
        BY <2>1, <3>2, Zenon
      <4> HIDE DEF c, ends
      <4> QED
        <5>1. rd[p].n - 1 \in Nat /\ rd[p].n - 1 # 0 /\ Append(rd[p].got, d) \in Seq(Char)
          BY <1>2, <2>1, <2>3, <4>1
        <5> QED
          BY <2>1, <4>1, <5>1
    <3> QED
      BY <3>1, <3>2, Zenon
  <2>5. \A q \in Reader \ {p} : lock' = q <=> lock = q
    BY <2>1, <2>2, Sizes, Zenon
  <2> HIDE DEF c, Good
  <2> QED
    BY <1>6, <1>8, <2>1, <2>4, <2>5, ZenonT(30)
<1>13. ASSUME NEW p \in Reader, kill(p) PROVE Calls'
  <2> DEFINE c == [rd[p] EXCEPT !.pc = IF @ = "asleep" THEN "acquire" ELSE @]
  <2>1. rd' = [rd EXCEPT ![p] = c] /\ killed' = [killed EXCEPT ![p] = TRUE] /\ lock' = lock /\ rd[p].pc # "user"
    BY <1>13 DEF kill
  <2>2. Good(c, TRUE, lock', p)
    BY <1>2, <2>1, Zenon
  <2> HIDE DEF c, Good
  <2> QED
    BY <1>6, <2>1, <2>2, Zenon
<1>14. ASSUME NEW p \in Reader, exit(p) PROVE Calls'
  <2>1. UNCHANGED <<rd, lock>> /\ killed' = [killed EXCEPT ![p] = FALSE]
    BY <1>14, Zenon DEF exit
  <2>2. rd' = [rd EXCEPT ![p] = rd[p]] /\ Good(rd[p], FALSE, lock', p)
    BY <1>2, <2>1, Zenon
  <2> HIDE DEF Good
  <2> QED
    BY <1>6, <2>1, <2>2, Zenon
<1>15. CASE UNCHANGED vars
  BY <1>4, <1>15, Zenon DEF vars
<1> HIDE DEF Call, Good
<1> QED
  BY <1>1, <1>7, <1>9, <1>10, <1>11, <1>12, <1>13, <1>14, <1>15, <1>16, Steps, Zenon

\* Nobody sleeps on what can be read: what commits a character finds the lock
\* free, so nobody between the test and the sleep, and wakes every sleeper.
LEMMA SleepsStep ==
  ASSUME Inv, [Next]_vars
  PROVE  SleepsOnEmpty'
<1>1. Ring /\ Uncommitted /\ Calls /\ SleepsOnEmpty
  BY Zenon DEF Inv
<1>2. rd \in [Reader -> [pc : {"user", "acquire", "loop", "sleep", "asleep"}, n : Nat, got : Seq(Char)]]
  BY <1>1, Zenon DEF Calls
<1>3. \A p \in Reader : rd[p].pc = "sleep" => lock = p
  BY <1>1, Zenon DEF Calls
<1>4. CASE UNCHANGED <<r, w, rd>>
  BY <1>1, <1>4, Zenon DEF SleepsOnEmpty
<1>5. CASE rd' = Woken /\ lock = "free"
  <2>1. \A p \in Reader : rd[p].pc # "sleep"
    BY <1>3, <1>5, Sizes, Zenon
  <2>2. \A p \in Reader : rd'[p].pc \notin {"sleep", "asleep"}
    BY <1>2, <1>5, <2>1 DEF Woken
  <2> QED
    BY <2>2, Zenon DEF SleepsOnEmpty
<1>6. ASSUME NEW p \in Reader, rd'[p].pc \notin {"sleep", "asleep"},
             \A q \in Reader \ {p} : rd'[q] = rd[q],
             UNCHANGED <<r, w>> \/ r # w
      PROVE  SleepsOnEmpty'
  BY <1>1, <1>6, Zenon DEF SleepsOnEmpty
<1>7. CASE Edits /\ lock = "free"
  BY <1>4, <1>5, <1>7, Zenon DEF Edits, Rejected, Erases, Kills, Puts, input
<1>8. ASSUME NEW p \in Reader, NEW n \in Counts, consoleread(p, n) PROVE SleepsOnEmpty'
  <2>1. rd'[p].pc = "acquire" /\ (\A q \in Reader \ {p} : rd'[q] = rd[q]) /\ UNCHANGED <<r, w>>
    BY <1>2, <1>8 DEF consoleread, input
  <2> QED
    BY <1>6, <2>1
<1>9. ASSUME NEW p \in Reader, acquire(p) PROVE SleepsOnEmpty'
  <2>1. rd'[p].pc = "loop" /\ (\A q \in Reader \ {p} : rd'[q] = rd[q]) /\ UNCHANGED <<r, w>>
    BY <1>2, <1>9 DEF acquire, input
  <2> QED
    BY <1>6, <2>1
<1>10. ASSUME NEW p \in Reader, read_empty(p) PROVE SleepsOnEmpty'
  <2>1. UNCHANGED <<r, w>> /\ r = w
    BY <1>10, Zenon DEF read_empty, input
  <2> QED
    BY <2>1, Zenon DEF SleepsOnEmpty
<1>11. ASSUME NEW p \in Reader, read_sleep(p) PROVE SleepsOnEmpty'
  <2>1. rd[p].pc = "sleep" /\ (\A q \in Reader \ {p} : rd'[q] = rd[q]) /\ UNCHANGED <<r, w>>
    BY <1>2, <1>11 DEF read_sleep, input
  <2> QED
    BY <1>1, <2>1, Zenon DEF SleepsOnEmpty
<1>12. ASSUME NEW p \in Reader, read_char(p) PROVE SleepsOnEmpty'
  <2>1. rd'[p].pc \notin {"sleep", "asleep"} /\ (\A q \in Reader \ {p} : rd'[q] = rd[q]) /\ r # w
    BY <1>2, <1>12 DEF read_char, Idle
  <2> QED
    BY <1>6, <2>1
<1>13. ASSUME NEW p \in Reader, kill(p) PROVE SleepsOnEmpty'
  <2>1. rd'[p].pc \in {"sleep", "asleep"} => rd[p].pc = "sleep"
    BY <1>2, <1>13 DEF kill
  <2>2. (\A q \in Reader \ {p} : rd'[q] = rd[q]) /\ UNCHANGED <<r, w>>
    BY <1>2, <1>13 DEF kill, input
  <2> QED
    BY <1>1, <2>1, <2>2, Zenon DEF SleepsOnEmpty
<1>14. ASSUME NEW p \in Reader, exit(p) PROVE SleepsOnEmpty'
  BY <1>4, <1>14, Zenon DEF exit, input
<1> QED
  BY <1>1, <1>4, <1>7, <1>8, <1>9, <1>10, <1>11, <1>12, <1>13, <1>14, Steps, Zenon DEF vars, input

\* The modifier bits: a key's release clears what its press set.
LEMMA ModifiersStep ==
  ASSUME Inv, [Next]_vars
  PROVE  Modifiers'
<1>1. Modifiers
  BY Zenon DEF Inv
<1>2. CASE UNCHANGED kbd
  BY <1>1, <1>2, Zenon DEF Modifiers, kbd
<1>3. ASSUME NEW k \in {"ctl", "shift", "caps", "d"}, NEW down \in BOOLEAN, kbdgetc_E0(k, down) PROVE Modifiers'
  <2>1. code' # <<>>
    BY <1>3 DEF kbdgetc_E0
  <2> QED
    BY <1>1, <1>3, <2>1 DEF Modifiers, kbdgetc_E0
<1>4. ASSUME NEW k \in {"ctl", "shift", "caps", "d"}, NEW down \in BOOLEAN, kbdgetc(k, down) PROVE Modifiers'
  <2> DEFINE ext == "E0ESC" \in shift
             m == Xor((shift \ {"E0ESC"}) \union shiftcode(k, ext), togglecode(k, ext))
             key == <<k, code # <<>>>>
  <2>1. ext <=> code # <<>>
    BY <1>1, Zenon DEF Modifiers
  <2>2. code' = <<>>
    BY <1>4, Zenon DEF kbdgetc
  <2>3. CASE down
    <3>1. held' = held \union {key} /\ shift' = m
      BY <1>4, <2>3, Zenon DEF kbdgetc
    <3> QED
      BY <1>1, <2>1, <2>2, <3>1, Zenon DEF Modifiers, Xor, shiftcode, togglecode
  <2>4. CASE ~down
    <3>1. held' = held \ {key} /\ shift' = shift \ Released(k, ext)
      BY <1>4, <2>4, Zenon DEF kbdgetc
    <3> QED
      BY <1>1, <2>1, <2>2, <3>1, Zenon DEF Modifiers, Released, shiftcode
  <2> QED
    BY <2>3, <2>4, Zenon
<1> QED
  BY <1>2, <1>3, <1>4, Zenon DEF Next, Read, uartintr, acquire, read_empty, read_sleep, read_char, kill, exit, consoleread, vars

\* The invariant holds at the start: nothing typed, nobody reading, no key down.
LEMMA InitInv ==
  ASSUME Init
  PROVE  Inv
<1>1. 0 \in 0 .. WORD - 1 /\ 0 + 0 = 0 /\ 0 <= INPUT_BUF
  BY Sizes
<1>2. Sub(0, 0) = 0
  BY <1>1, Distance, Zenon
<1>3. buf \in [0 .. INPUT_BUF - 1 -> Char]
  BY Zenon DEF Init, Char
<1>4. Ring
  BY <1>1, <1>2, <1>3, Zenon DEF Init, Ring
<1>5. 1 .. Sub(e, w) = {}
  BY <1>2 DEF Init
<1>6. Uncommitted
  BY <1>5, Zenon DEF Uncommitted
<1>7. Calls
  <2>1. Idle \in [pc : {"user", "acquire", "loop", "sleep", "asleep"}, n : Nat, got : Seq(Char)] /\ Idle.pc = "user"
    BY DEF Idle
  <2>2. killed \in [Reader -> BOOLEAN]
    BY Zenon DEF Init
  <2>3. rd = [p \in Reader |-> Idle] /\ lock = "free"
    BY Zenon DEF Init
  <2> QED
    BY <2>1, <2>2, <2>3, Sizes, Zenon DEF Calls
<1>8. SleepsOnEmpty
  BY Zenon DEF SleepsOnEmpty, Init
<1>9. Modifiers
  BY DEF Modifiers, Init
<1> QED
  BY <1>4, <1>6, <1>7, <1>8, <1>9, Zenon DEF Inv

\* The inductive invariant of the console: the ring buffer's indices, what lies
\* after w, the calls of consoleread and the keyboard's modifier bits.
THEOREM Invariance == Spec => []Inv
<1>1. Init => Inv
  BY InitInv
<1>2. Inv /\ [Next]_vars => Inv'
  <2> SUFFICES ASSUME Inv, [Next]_vars PROVE Inv'
    OBVIOUS
  <2> QED
    BY RingStep, UncommittedStep, CallsStep, SleepsStep, ModifiersStep, Zenon DEF Inv
<1> QED
  BY <1>1, <1>2, PTL DEF Spec

\* A reader sleeps in consoleread only while nothing can be read, for any number
\* of readers and any size of the buffer: consoleintr's wakeup is never missed,
\* and an end-of-file mark put back without a wakeup leaves nobody asleep.
THEOREM Sleeps == Spec => []SleepsOnEmpty
<1>1. Inv => SleepsOnEmpty
  BY Zenon DEF Inv
<1> QED
  BY <1>1, Invariance, PTL

\* With no key down, kbdgetc's shift holds nothing but the caps lock, whatever
\* keys, extended ones included, went down and up in whatever order.
THEOREM Modifier == Spec => []NoStuckModifier
<1>1. Inv => NoStuckModifier
  <2> SUFFICES ASSUME Modifiers, held = {}, code = <<>> PROVE shift \subseteq {"CAPS"}
    BY Zenon DEF Inv, NoStuckModifier
  <2> QED
    BY DEF Modifiers
<1> QED
  BY <1>1, Invariance, PTL

-----------------------------------------------------------------------------
(* Every step is a step of LineInput.                                      *)

\* The characters that f holds from a to b.
Span(f, a, b) == [i \in 1 .. Sub(b, a) |-> f[Slot(a + i - 1)]]

\* They are a sequence as long as the distance of the indices.
LEMMA Spans ==
  ASSUME NEW f \in [0 .. INPUT_BUF - 1 -> Char], NEW a \in 0 .. WORD - 1, NEW b \in 0 .. WORD - 1
  PROVE  /\ Span(f, a, b) \in Seq(Char) /\ Len(Span(f, a, b)) = Sub(b, a) /\ Sub(b, a) \in Nat
         /\ DOMAIN Span(f, a, b) = 1 .. Sub(b, a)
         /\ \A i \in 1 .. Sub(b, a) : Span(f, a, b)[i] = f[Slot(a + i - 1)]
<1>1. Sub(b, a) \in 0 .. WORD - 1
  BY Distance, Zenon
<1>2. Sub(b, a) \in Nat
  BY <1>1
<1>3. \A i \in 1 .. Sub(b, a) : a + i - 1 \in Int
  BY <1>2
<1>4. \A i \in 1 .. Sub(b, a) : f[Slot(a + i - 1)] \in Char
  BY <1>3, InBuffer, Zenon
<1>5. Span(f, a, b) \in [1 .. Sub(b, a) -> Char]
  BY <1>4, Zenon DEF Span
<1>6. Span(f, a, b) \in Seq(Char) /\ Len(Span(f, a, b)) = Sub(b, a)
  BY <1>2, <1>5
<1> QED
  BY <1>2, <1>6, Zenon DEF Span

\* No characters lie between an index and itself.
LEMMA NoSpan ==
  ASSUME NEW f, NEW a \in 0 .. WORD - 1
  PROVE  Span(f, a, a) = <<>>
<1>1. Sub(a, a) = 0
  BY Distance, Zenon
<1> QED
  BY <1>1 DEF Span

\* Two sequences are the same when they have the same length and elements.
LEMMA SameSeq ==
  ASSUME NEW S, NEW s \in Seq(S), NEW t \in Seq(S), Len(s) = Len(t),
         \A i \in 1 .. Len(s) : s[i] = t[i]
  PROVE  s = t
OBVIOUS

\* ^H takes the last character of the line.
LEMMA ErasedSpan ==
  ASSUME NEW f \in [0 .. INPUT_BUF - 1 -> Char], NEW a \in 0 .. WORD - 1, NEW b \in 0 .. WORD - 1, a # b
  PROVE  /\ Span(f, a, b) # <<>>
         /\ Span(f, a, Sub(b, 1)) = SubSeq(Span(f, a, b), 1, Len(Span(f, a, b)) - 1)
<1> DEFINE s == Span(f, a, b)
           t == Span(f, a, Sub(b, 1))
<1>1. Sub(b, 1) \in 0 .. WORD - 1 /\ Sub(Sub(b, 1), a) = Sub(b, a) - 1
  BY Shorter, Zenon
<1>2. /\ s \in Seq(Char) /\ Len(s) = Sub(b, a) /\ Sub(b, a) \in Nat
      /\ \A i \in 1 .. Sub(b, a) : s[i] = f[Slot(a + i - 1)]
  BY Spans, Zenon
<1>3. /\ t \in Seq(Char) /\ Len(t) = Sub(b, a) - 1 /\ Sub(b, a) - 1 \in Nat
      /\ \A i \in 1 .. Sub(b, a) - 1 : t[i] = f[Slot(a + i - 1)]
  <2>1. /\ t \in Seq(Char) /\ Len(t) = Sub(Sub(b, 1), a) /\ Sub(Sub(b, 1), a) \in Nat
        /\ \A i \in 1 .. Sub(Sub(b, 1), a) : t[i] = f[Slot(a + i - 1)]
    BY <1>1, Spans, Zenon
  <2> HIDE DEF t
  <2> QED
    BY <1>1, <2>1
<1> HIDE DEF s, t
<1>4. s # <<>>
  BY <1>2, <1>3
<1> DEFINE u == SubSeq(s, 1, Len(s) - 1)
<1>5. u \in Seq(Char) /\ Len(u) = Sub(b, a) - 1 /\ \A i \in 1 .. Sub(b, a) - 1 : u[i] = s[i]
  BY <1>2, <1>3
<1>6. \A i \in 1 .. Sub(b, a) - 1 : i \in 1 .. Sub(b, a)
  BY <1>2
<1> HIDE DEF u
<1>7. t = u
  BY <1>2, <1>3, <1>5, <1>6, SameSeq, Zenon
<1> QED
  BY <1>4, <1>7, Zenon DEF s, t, u

\* A character at e leaves the characters before it as they are.
LEMMA KeptSpan ==
  ASSUME NEW f \in [0 .. INPUT_BUF - 1 -> Char], NEW c \in Char,
         NEW a \in 0 .. WORD - 1, NEW b \in 0 .. WORD - 1, NEW d \in 0 .. WORD - 1,
         Sub(d, a) < INPUT_BUF, Sub(b, a) <= Sub(d, a)
  PROVE  Span([f EXCEPT ![Slot(d)] = c], a, b) = Span(f, a, b)
<1> DEFINE g == [f EXCEPT ![Slot(d)] = c]
<1>1. Slot(d) \in 0 .. INPUT_BUF - 1 /\ \A i \in 1 .. Sub(d, a) : Slot(a + i - 1) # Slot(d)
  BY Free, Zenon
<1>2. Sub(b, a) \in Nat /\ Sub(d, a) \in Nat
  BY Spans, Zenon
<1>3. \A i \in 1 .. Sub(b, a) : i \in 1 .. Sub(d, a) /\ a + i - 1 \in Int
  BY <1>2
<1>4. \A i \in 1 .. Sub(b, a) : Slot(a + i - 1) \in 0 .. INPUT_BUF - 1 /\ Slot(a + i - 1) # Slot(d)
  BY <1>1, <1>3, InBuffer, Zenon
<1>5. \A i \in 1 .. Sub(b, a) : g[Slot(a + i - 1)] = f[Slot(a + i - 1)]
  BY <1>4, Zenon
<1> HIDE DEF g
<1>6. Span(g, a, b) = Span(f, a, b)
  BY <1>5, Zenon DEF Span
<1> QED
  BY <1>6, Zenon DEF g

\* A character at e lengthens what ends there by one.
LEMMA PutSpan ==
  ASSUME NEW f \in [0 .. INPUT_BUF - 1 -> Char], NEW c \in Char,
         NEW a \in 0 .. WORD - 1, NEW d \in 0 .. WORD - 1, Sub(d, a) < INPUT_BUF
  PROVE  Span([f EXCEPT ![Slot(d)] = c], a, (d + 1) % WORD) = Append(Span(f, a, d), c)
<1> DEFINE g == [f EXCEPT ![Slot(d)] = c]
           b == (d + 1) % WORD
           s == Span(f, a, d)
           t == Span(g, a, b)
           n == Sub(d, a)
<1>1. b \in 0 .. WORD - 1 /\ Sub(b, a) = n + 1
  BY Longer, Zenon
<1>2. Slot(d) = Slot(a + (n + 1) - 1) /\ Slot(d) \in 0 .. INPUT_BUF - 1
  BY Free, Zenon
<1>3. g \in [0 .. INPUT_BUF - 1 -> Char] /\ g[Slot(d)] = c
  BY <1>2, Zenon
<1>4. /\ s \in Seq(Char) /\ Len(s) = n /\ n \in Nat
      /\ \A i \in 1 .. n : s[i] = f[Slot(a + i - 1)]
  BY Spans, Zenon
<1>5. /\ t \in Seq(Char) /\ Len(t) = n + 1
      /\ \A i \in 1 .. n + 1 : t[i] = g[Slot(a + i - 1)]
  <2>1. /\ t \in Seq(Char) /\ Len(t) = Sub(b, a)
        /\ \A i \in 1 .. Sub(b, a) : t[i] = g[Slot(a + i - 1)]
    BY <1>1, <1>3, Spans, ZenonT(30)
  <2> HIDE DEF t, b, g, n
  <2> QED
    BY <1>1, <2>1
<1>6. n <= n /\ Sub(d, a) <= Sub(d, a)
  BY <1>4
<1>7. Span(g, a, d) = s
  BY <1>6, KeptSpan, ZenonT(30)
<1>8. \A i \in 1 .. n : Span(g, a, d)[i] = g[Slot(a + i - 1)]
  BY <1>3, Spans, ZenonT(30)
<1> HIDE DEF g, b, s, t, n
<1>9. \A i \in 1 .. n : i \in 1 .. n + 1
  BY <1>4
<1>10. \A i \in 1 .. n : t[i] = s[i]
  BY <1>5, <1>7, <1>8, <1>9, Zenon
<1>11. t[n + 1] = c
  <2>1. n + 1 \in 1 .. n + 1
    BY <1>4
  <2> QED
    BY <1>2, <1>3, <1>5, <2>1, Zenon
<1>12. /\ Append(s, c) \in Seq(Char) /\ Len(Append(s, c)) = n + 1
       /\ \A i \in 1 .. n + 1 : Append(s, c)[i] = t[i]
  BY <1>4, <1>10, <1>11
<1>13. t = Append(s, c)
  BY <1>5, <1>12, SameSeq, Zenon
<1> QED
  BY <1>13, Zenon DEF g, b, s, t

\* What lies from r to e is what lies from r to w and then from w to e.
LEMMA JoinedSpan ==
  ASSUME NEW f \in [0 .. INPUT_BUF - 1 -> Char],
         NEW a \in 0 .. WORD - 1, NEW b \in 0 .. WORD - 1, NEW d \in 0 .. WORD - 1,
         Sub(d, a) = Sub(b, a) + Sub(d, b), Sub(d, a) <= INPUT_BUF
  PROVE  Span(f, a, d) = Span(f, a, b) \o Span(f, b, d)
<1> DEFINE m == Sub(b, a)
           n == Sub(d, b)
           s == Span(f, a, b)
           t == Span(f, b, d)
           u == Span(f, a, d)
<1>1. /\ s \in Seq(Char) /\ Len(s) = m /\ m \in Nat
      /\ \A i \in 1 .. m : s[i] = f[Slot(a + i - 1)]
  BY Spans, Zenon
<1>2. /\ t \in Seq(Char) /\ Len(t) = n /\ n \in Nat
      /\ \A i \in 1 .. n : t[i] = f[Slot(b + i - 1)]
  BY Spans, Zenon
<1>3. /\ u \in Seq(Char) /\ Len(u) = m + n
      /\ \A i \in 1 .. m + n : u[i] = f[Slot(a + i - 1)]
  <2>1. /\ u \in Seq(Char) /\ Len(u) = Sub(d, a)
        /\ \A i \in 1 .. Sub(d, a) : u[i] = f[Slot(a + i - 1)]
    BY Spans, Zenon
  <2>2. Sub(d, a) = m + n
    BY Zenon
  <2> HIDE DEF u, m, n
  <2> QED
    BY <2>1, <2>2
<1>4. Sub(b, a) <= INPUT_BUF
  BY <1>1, <1>2, Sizes
<1>5. b = (a + m) % WORD
  BY <1>4, Distance, Zenon
<1> HIDE DEF m, n, s, t, u
<1>6. m \in Int
  BY <1>1
<1>7. \A i \in Int : Slot(b + i - 1) = Slot(a + (m + i) - 1)
  BY <1>5, <1>6, SamePlace, Zenon
<1>8. \A i \in 1 .. n : i \in Int /\ m + i \in 1 .. m + n
  BY <1>1, <1>2
<1>9. \A i \in 1 .. n : t[i] = u[m + i]
  BY <1>2, <1>3, <1>7, <1>8, Zenon
<1>10. \A i \in 1 .. m : i \in 1 .. m + n
  BY <1>1, <1>2
<1>11. \A i \in 1 .. m : s[i] = u[i]
  BY <1>1, <1>3, <1>10, Zenon
<1>12. s \o t \in Seq(Char) /\ Len(s \o t) = m + n
  <2>1. s \in Seq(Char) /\ t \in Seq(Char) /\ Len(s) = m /\ Len(t) = n
    BY <1>1, <1>2, Zenon
  <2> QED
    BY <2>1
<1>13. ASSUME NEW i \in 1 .. m + n PROVE (s \o t)[i] = u[i]
  <2>1. CASE i \in 1 .. m
    BY <1>1, <1>2, <1>11, <2>1
  <2>2. CASE i - m \in 1 .. n
    <3>1. (s \o t)[i] = t[i - m]
      BY <1>1, <1>2, <2>2
    <3>2. m + (i - m) = i
      BY <1>1
    <3> QED
      BY <1>9, <2>2, <3>1, <3>2, Zenon
  <2> QED
    BY <1>1, <1>2, <2>1, <2>2
<1>14. u = s \o t
  BY <1>3, <1>12, <1>13, SameSeq, Zenon
<1> QED
  BY <1>14, Zenon DEF s, t, u

\* The reader takes the first character.
LEMMA TakenSpan ==
  ASSUME NEW f \in [0 .. INPUT_BUF - 1 -> Char], NEW a \in 0 .. WORD - 1, NEW b \in 0 .. WORD - 1, a # b
  PROVE  /\ Span(f, a, b) # <<>> /\ Head(Span(f, a, b)) = f[Slot(a)]
         /\ Span(f, (a + 1) % WORD, b) = Tail(Span(f, a, b))
<1> DEFINE d == (a + 1) % WORD
           n == Sub(b, a)
           s == Span(f, a, b)
           t == Span(f, d, b)
<1>1. d \in 0 .. WORD - 1 /\ Sub(b, d) = n - 1
  BY Later, Zenon
<1>2. /\ s \in Seq(Char) /\ Len(s) = n /\ n \in Nat
      /\ \A i \in 1 .. n : s[i] = f[Slot(a + i - 1)]
  BY Spans, Zenon
<1>3. /\ t \in Seq(Char) /\ Len(t) = n - 1 /\ n - 1 \in Nat
      /\ \A i \in 1 .. n - 1 : t[i] = f[Slot(d + i - 1)]
  <2>1. /\ t \in Seq(Char) /\ Len(t) = Sub(b, d) /\ Sub(b, d) \in Nat
        /\ \A i \in 1 .. Sub(b, d) : t[i] = f[Slot(d + i - 1)]
    BY <1>1, Spans, Zenon
  <2> HIDE DEF t, d, n
  <2> QED
    BY <1>1, <2>1
<1>4. 1 \in Int
  OBVIOUS
<1>5. \A i \in Int : Slot(d + i - 1) = Slot(a + (1 + i) - 1)
  BY <1>4, SamePlace, Zenon
<1> HIDE DEF d, n, s, t
<1>6. s # <<>> /\ 1 \in 1 .. n /\ a + 1 - 1 = a /\ Head(s) = s[1]
  BY <1>2, <1>3
<1>7. Head(s) = f[Slot(a)]
  BY <1>2, <1>6, Zenon
<1>8. \A i \in 1 .. n - 1 : i \in Int /\ 1 + i \in 1 .. n /\ 1 + i = i + 1
  BY <1>2, <1>3
<1>9. \A i \in 1 .. n - 1 : t[i] = s[i + 1]
  BY <1>2, <1>3, <1>5, <1>8, ZenonT(30)
<1>10. Tail(s) \in Seq(Char) /\ Len(Tail(s)) = n - 1 /\ \A i \in 1 .. n - 1 : Tail(s)[i] = s[i + 1]
  BY <1>2, <1>3, <1>6
<1>11. t = Tail(s)
  BY <1>3, <1>9, <1>10, SameSeq, Zenon
<1> QED
  BY <1>6, <1>7, <1>11, Zenon DEF s, t, d

\* The calls as LineInput sees them.
Reading == [p \in Reader |-> [on |-> rd[p].pc # "user", want |-> rd[p].n, got |-> rd[p].got]]

\* Taking or not taking a step of a call.
LEMMA SameCalls ==
  ASSUME Calls, \A p \in Reader : rd'[p].pc # "user" <=> rd[p].pc # "user",
         \A p \in Reader : rd'[p].n = rd[p].n /\ rd'[p].got = rd[p].got
  PROVE  Reading' = Reading
<1>1. \A p \in Reader : (rd'[p].pc # "user") = (rd[p].pc # "user")
  BY Zenon
<1> QED
  BY <1>1, Zenon DEF Reading

\* Every call is one of LineInput's reads.
LEMMA ReadingIs ==
  ASSUME Calls, NEW p \in Reader
  PROVE  /\ Reading[p] = [on |-> rd[p].pc # "user", want |-> rd[p].n, got |-> rd[p].got]
         /\ Reading[p].on = (rd[p].pc # "user") /\ Reading[p].want = rd[p].n /\ Reading[p].got = rd[p].got
BY Zenon DEF Reading

\* At the start nothing has been typed and nobody reads.
LEMMA InitRefines ==
  ASSUME Init
  PROVE  Lines!Init
<1>1. 0 \in 0 .. WORD - 1
  BY Sizes
<1>2. Between(0, 0) = <<>>
  BY <1>1, NoSpan, Zenon DEF Between, Span
<1>3. \A p \in Reader : rd[p].pc = "user" /\ rd[p].n = 0 /\ rd[p].got = <<>>
  BY DEF Init, Idle
<1>4. \A p \in Reader : Reading[p] = [on |-> FALSE, want |-> 0, got |-> <<>>]
  BY <1>3, Zenon DEF Reading
<1> QED
  BY <1>2, <1>4, Zenon DEF Lines!Init, Lines!Off, Init, Reading

\* A character typed, erased or refused is LineInput's Type, Erase, Kill or
\* nothing.
LEMMA EditRefines ==
  ASSUME Inv, Edits
  PROVE  [Lines!Next]_(Lines!vars)
<1>1. Ring /\ Uncommitted /\ Calls
  BY Zenon DEF Inv
<1>2. /\ r \in 0 .. WORD - 1 /\ w \in 0 .. WORD - 1 /\ e \in 0 .. WORD - 1
      /\ buf \in [0 .. INPUT_BUF - 1 -> Char]
      /\ Sub(e, r) = Sub(w, r) + Sub(e, w) /\ Sub(e, r) <= INPUT_BUF
  BY <1>1, Zenon DEF Ring
<1>3. /\ Sub(e, r) \in Nat /\ Sub(w, r) \in Nat /\ Sub(e, w) \in Nat
      /\ Sub(w, r) <= Sub(e, r) /\ Sub(e, w) <= Sub(e, r)
  BY <1>1, RingFacts, Zenon
<1>4. Between(w, e) = Span(buf, w, e) /\ Between(r, w) = Span(buf, r, w)
  BY Zenon DEF Between, Span
<1>5. Between(w, e)' = Span(buf', w', e') /\ Between(r, w)' = Span(buf', r', w')
  BY Zenon DEF Between, Span, Sub, Slot
<1>6. Len(Between(r, w)) = Sub(w, r) /\ Len(Between(w, e)) = Sub(e, w)
  BY <1>2, <1>4, Spans, Zenon
<1>7. ASSUME UNCHANGED rd PROVE Reading' = Reading
  BY <1>7, Zenon DEF Reading
<1>8. CASE Rejected
  BY <1>8, Zenon DEF Rejected, Lines!vars, Between, Sub, Slot, input
<1>9. CASE Erases
  <2>1. e # w /\ e' = Sub(e, 1) /\ UNCHANGED <<buf, r, w, rd>>
    BY <1>9, Zenon DEF Erases
  <2>2. Between(w, e) # <<>> /\ Between(w, e)' = SubSeq(Between(w, e), 1, Len(Between(w, e)) - 1)
    BY <1>2, <1>4, <1>5, <2>1, ErasedSpan, ZenonT(30)
  <2>3. Between(r, w)' = Between(r, w) /\ Reading' = Reading
    BY <1>4, <1>5, <1>7, <2>1, Zenon
  <2> QED
    BY <2>2, <2>3, Zenon DEF Lines!Next, Lines!Erase, Reading
<1>10. CASE Kills
  <2>1. e' = w /\ UNCHANGED <<buf, r, w, rd>>
    BY <1>10, Zenon DEF Kills
  <2>2. Between(w, e)' = <<>>
    BY <1>2, <1>5, <2>1, NoSpan, Zenon
  <2>3. Between(r, w)' = Between(r, w) /\ Reading' = Reading
    BY <1>4, <1>5, <1>7, <2>1, Zenon
  <2> QED
    BY <2>2, <2>3, Zenon DEF Lines!Next, Lines!Kill, Reading
<1>11. ASSUME NEW c \in Char, Puts(c) PROVE Lines!Type(c)
  <2> DEFINE g == [buf EXCEPT ![Slot(e)] = c]
             line == Between(w, e)
             queue == Between(r, w)
  <2>1. Sub(e, r) < INPUT_BUF /\ buf' = g /\ e' = (e + 1) % WORD /\ r' = r
    BY <1>11, Zenon DEF Puts
  <2>2. Sub(e, w) < INPUT_BUF
    BY <1>3, <2>1, Sizes
  <2>3. Span(g, w, (e + 1) % WORD) = Append(line, c)
    <3>1. Span(g, w, (e + 1) % WORD) = Append(Span(buf, w, e), c)
      BY <1>2, <2>2, PutSpan, Zenon
    <3> QED
      BY <1>4, <3>1, Zenon
  <2>4. Span(g, r, w) = queue
    BY <1>2, <1>3, <1>4, <2>1, KeptSpan, ZenonT(30)
  <2>5. Len(queue) + Len(line) = Sub(e, r)
    BY <1>2, <1>6, Zenon
  <2>6. CASE c \notin {"nl", "eof"} /\ Sub(e, r) + 1 # INPUT_BUF /\ UNCHANGED <<w, rd>>
    <3>1. line' = Append(line, c) /\ queue' = queue /\ Reading' = Reading
      BY <1>5, <1>7, <2>1, <2>3, <2>4, <2>6, Zenon
    <3> QED
      BY <2>1, <2>5, <2>6, <3>1, Zenon DEF Lines!Type, Lines!Ends, Reading
  <2>7. CASE (c \in {"nl", "eof"} \/ Sub(e, r) + 1 = INPUT_BUF) /\ w' = e' /\ rd' = Woken
    <3>1. e' \in 0 .. WORD - 1 /\ Sub(e', r) = Sub(e, r) + 1 /\ Sub(e', w) = Sub(e, w) + 1
      BY <1>2, <2>1, <2>2, Longer, Zenon
    <3>2. Sub(e', r) = Sub(w, r) + Sub(e', w) /\ Sub(e', r) <= INPUT_BUF
      BY <1>2, <1>3, <2>1, <3>1, Sizes
    <3>3. g \in [0 .. INPUT_BUF - 1 -> Char]
      BY <1>2, InBuffer, Sizes
    <3>4. Span(g, r, e') = Span(g, r, w) \o Span(g, w, e')
      BY <1>2, <3>1, <3>2, <3>3, JoinedSpan, ZenonT(30)
    <3>5. queue' = queue \o Append(line, c)
      BY <1>5, <2>1, <2>3, <2>4, <2>7, <3>4, Zenon
    <3>6. line' = <<>>
      BY <1>5, <2>1, <2>7, <3>1, NoSpan, Zenon
    <3>7. Reading' = Reading
      <4>1. \A p \in Reader : /\ rd'[p].pc # "user" <=> rd[p].pc # "user"
                              /\ rd'[p].n = rd[p].n /\ rd'[p].got = rd[p].got
        BY <1>1, <2>7 DEF Woken, Calls
      <4> QED
        BY <1>1, <4>1, SameCalls, Zenon
    <3> QED
      BY <2>1, <2>5, <2>7, <3>5, <3>6, <3>7, Zenon DEF Lines!Type, Lines!Ends, Reading
  <2> QED
    BY <1>11, <2>6, <2>7, Zenon DEF Puts
<1> QED
  BY <1>8, <1>9, <1>10, <1>11, Zenon DEF Edits, Lines!Next, Char

\* consoleread begins a read, its copy takes a character, and its return when
\* killed abandons the read; its other steps are not visible.
LEMMA ReadRefines ==
  ASSUME Inv, NEW p \in Reader,
         \/ acquire(p) \/ read_empty(p) \/ read_sleep(p) \/ read_char(p)
         \/ kill(p) \/ exit(p)
         \/ \E n \in Counts : consoleread(p, n)
  PROVE  [Lines!Next]_(Lines!vars)
<1>1. Ring /\ Uncommitted /\ Calls
  BY Zenon DEF Inv
<1>2. /\ r \in 0 .. WORD - 1 /\ w \in 0 .. WORD - 1 /\ e \in 0 .. WORD - 1
      /\ buf \in [0 .. INPUT_BUF - 1 -> Char]
  BY <1>1, Zenon DEF Ring
<1>3. rd \in [Reader -> [pc : {"user", "acquire", "loop", "sleep", "asleep"}, n : Nat, got : Seq(Char)]]
  BY <1>1, Zenon DEF Calls
<1>4. Between(w, e) = Span(buf, w, e) /\ Between(r, w) = Span(buf, r, w)
  BY Zenon DEF Between, Span
<1>5. Between(w, e)' = Span(buf', w', e') /\ Between(r, w)' = Span(buf', r', w')
  BY Zenon DEF Between, Span, Sub, Slot
<1>6. ASSUME UNCHANGED input PROVE UNCHANGED <<Between(w, e), Between(r, w)>>
  BY <1>4, <1>5, <1>6, Zenon DEF input
<1>7. ASSUME UNCHANGED input, Reading' = Reading PROVE UNCHANGED Lines!vars
  BY <1>6, <1>7, Zenon DEF Lines!vars, Reading
<1>8. CASE acquire(p)
  <2>1. \A q \in Reader : /\ rd'[q].pc # "user" <=> rd[q].pc # "user"
                          /\ rd'[q].n = rd[q].n /\ rd'[q].got = rd[q].got
    BY <1>3, <1>8 DEF acquire
  <2> QED
    BY <1>1, <1>7, <1>8, <2>1, SameCalls, Zenon DEF acquire
<1>9. CASE kill(p)
  <2>1. \A q \in Reader : /\ rd'[q].pc # "user" <=> rd[q].pc # "user"
                          /\ rd'[q].n = rd[q].n /\ rd'[q].got = rd[q].got
    BY <1>3, <1>9 DEF kill
  <2> QED
    BY <1>1, <1>7, <1>9, <2>1, SameCalls, Zenon DEF kill
<1>10. CASE exit(p)
  BY <1>7, <1>10, Zenon DEF exit, Reading
<1>11. ASSUME NEW c, rd' = [rd EXCEPT ![p] = c]
       PROVE  /\ Reading' = [Reading EXCEPT ![p] = [on |-> c.pc # "user", want |-> c.n, got |-> c.got]]
              /\ Reading'[p] = [on |-> c.pc # "user", want |-> c.n, got |-> c.got]
              /\ \A q \in Reader \ {p} : Reading'[q] = Reading[q]
  <2>1. rd'[p] = c /\ \A q \in Reader \ {p} : rd'[q] = rd[q]
    BY <1>3, <1>11, Zenon
  <2>2. /\ Reading'[p] = [on |-> c.pc # "user", want |-> c.n, got |-> c.got]
        /\ \A q \in Reader \ {p} : Reading'[q] = Reading[q]
    BY <2>1, Zenon DEF Reading
  <2>3. Reading' = [q \in Reader |-> Reading'[q]] /\ Reading = [q \in Reader |-> Reading[q]]
    BY Zenon DEF Reading
  <2> QED
    BY <2>2, <2>3, Zenon
<1>12. ASSUME NEW n \in Counts, consoleread(p, n) PROVE Lines!Begin(p)
  <2> DEFINE c == [pc |-> "acquire", n |-> n, got |-> <<>>]
  <2>1. rd' = [rd EXCEPT ![p] = c] /\ rd[p].pc = "user" /\ UNCHANGED input
    BY <1>12, Zenon DEF consoleread
  <2>2. c.pc # "user" /\ c.got = <<>>
    OBVIOUS
  <2> HIDE DEF c
  <2>3. ~Reading[p].on /\ Reading'[p].on /\ Reading'[p].got = <<>>
    <3>1. Reading[p].on = (rd[p].pc # "user")
      BY <1>1, ReadingIs, Zenon
    <3>2. Reading'[p] = [on |-> c.pc # "user", want |-> c.n, got |-> c.got]
      BY <1>11, <2>1, Zenon
    <3>3. Reading'[p].on /\ Reading'[p].got = <<>>
      <4>1. (c.pc # "user") = TRUE
        BY <2>2, Zenon
      <4>2. Reading'[p] = [on |-> TRUE, want |-> c.n, got |-> <<>>]
        BY <2>2, <3>2, <4>1, Zenon
      <4> QED
        BY <4>2
    <3> QED
      BY <2>1, <3>1, <3>3, Zenon
  <2>4. \A q \in Reader \ {p} : Reading'[q] = Reading[q]
    BY <1>11, <2>1, Zenon
  <2> QED
    BY <1>6, <2>1, <2>3, <2>4, Zenon DEF Lines!Begin, Reading
<1>13. CASE read_empty(p)
  <2>1. UNCHANGED input /\ rd[p].pc = "loop"
    BY <1>13, Zenon DEF read_empty
  <2>2. CASE ~killed[p]
    <3>1. rd' = [rd EXCEPT ![p] = [rd[p] EXCEPT !.pc = "sleep"]]
      BY <1>13, <2>2 DEF read_empty
    <3>2. \A q \in Reader : /\ rd'[q].pc # "user" <=> rd[q].pc # "user"
                            /\ rd'[q].n = rd[q].n /\ rd'[q].got = rd[q].got
      BY <1>3, <2>1, <3>1
    <3> QED
      BY <1>1, <1>7, <2>1, <3>2, SameCalls, Zenon
  <2>3. CASE killed[p]
    <3>1. rd' = [rd EXCEPT ![p] = Idle]
      BY <1>13, <2>3 DEF read_empty
    <3>2. Reading' = [Reading EXCEPT ![p] = [on |-> Idle.pc # "user", want |-> Idle.n, got |-> Idle.got]]
      BY <1>11, <3>1, Zenon
    <3>3. [on |-> Idle.pc # "user", want |-> Idle.n, got |-> Idle.got] = [on |-> FALSE, want |-> 0, got |-> <<>>]
      BY Zenon DEF Idle
    <3>4. Reading[p].on
      BY <1>1, <2>1, ReadingIs, Zenon
    <3>5. Lines!Abandon(p)
      BY <1>6, <2>1, <3>2, <3>3, <3>4, Zenon DEF Lines!Abandon, Lines!Off, Reading
    <3> QED
      BY <3>5, Zenon DEF Lines!Next
  <2> QED
    BY <2>2, <2>3, Zenon
<1>15. CASE read_sleep(p)
  <2>1. \A q \in Reader : /\ rd'[q].pc # "user" <=> rd[q].pc # "user"
                          /\ rd'[q].n = rd[q].n /\ rd'[q].got = rd[q].got
    BY <1>3, <1>15 DEF read_sleep
  <2> QED
    BY <1>1, <1>7, <1>15, <2>1, SameCalls, Zenon DEF read_sleep
<1>14. ASSUME read_char(p) PROVE Lines!Take(p)
  <2> DEFINE d == buf[Slot(r)]
             ends == d = "eof" \/ (d = "nl" \/ rd[p].n = 1)
             more == [pc |-> "loop", n |-> rd[p].n - 1, got |-> Append(rd[p].got, d)]
             c == IF ends THEN Idle ELSE more
             queue == Between(r, w)
  <2>1. /\ rd' = [rd EXCEPT ![p] = c] /\ rd[p].pc = "loop" /\ r # w /\ UNCHANGED <<buf, w, e>>
        /\ r' = IF d = "eof" /\ rd[p].got # <<>> THEN r ELSE (r + 1) % WORD
    BY <1>14, Zenon DEF read_char, PutBack
  <2>2. Between(w, e)' = Between(w, e)
    BY <1>4, <1>5, <2>1, Zenon
  <2>3. queue # <<>> /\ Head(queue) = d /\ Span(buf, (r + 1) % WORD, w) = Tail(queue)
    BY <1>2, <1>4, <2>1, TakenSpan, ZenonT(30)
  <2>4. queue' = IF d = "eof" /\ rd[p].got # <<>> THEN queue ELSE Tail(queue)
    BY <1>4, <1>5, <2>1, <2>3, Zenon
  <2>5. Reading[p].on /\ Reading[p].want = rd[p].n /\ Reading[p].got = rd[p].got
    BY <1>1, <2>1, ReadingIs, Zenon
  <2>6. Reading' = [Reading EXCEPT ![p] = [on |-> c.pc # "user", want |-> c.n, got |-> c.got]]
    BY <1>11, <2>1, Zenon
  <2>7. [on |-> c.pc # "user", want |-> c.n, got |-> c.got] =
          IF d \in {"nl", "eof"} \/ rd[p].n = 1 THEN [on |-> FALSE, want |-> 0, got |-> <<>>]
          ELSE [on |-> TRUE, want |-> rd[p].n - 1, got |-> Append(rd[p].got, d)]
    <3>1. CASE ends
      <4>1. c = Idle
        BY <3>1, Zenon
      <4> HIDE DEF c
      <4> QED
        BY <3>1, <4>1, Zenon DEF Idle
    <3>2. CASE ~ends
      <4>1. c = more
        BY <3>2, Zenon
      <4>2. more.pc # "user" /\ more.n = rd[p].n - 1 /\ more.got = Append(rd[p].got, d)
        OBVIOUS
      <4> HIDE DEF c, more
      <4> QED
        BY <3>2, <4>1, <4>2, Zenon
    <3> QED
      BY <3>1, <3>2, Zenon
  <2> HIDE DEF c, d, queue
  <2> DEFINE z == IF d \in {"nl", "eof"} \/ Reading[p].want = 1 THEN [on |-> FALSE, want |-> 0, got |-> <<>>]
                  ELSE [on |-> TRUE, want |-> Reading[p].want - 1, got |-> Append(Reading[p].got, d)]
  <2>8. Reading' = [Reading EXCEPT ![p] = z]
    BY <2>5, <2>6, <2>7, Zenon
  <2> QED
    BY <2>2, <2>3, <2>4, <2>5, <2>8, Zenon DEF Lines!Take, Lines!Ends, Lines!Off, Reading, queue
<1> QED
  BY <1>8, <1>9, <1>10, <1>12, <1>13, <1>14, <1>15, Zenon DEF Lines!Next

\* Console input is the line editor LineInput, for any number of readers, any
\* size of the buffer and any width of the indices that it divides: nothing
\* typed is lost, reordered or overwritten before it is read, only what has not
\* been committed can be erased, and an end-of-file mark ends a read without
\* bytes exactly once.
THEOREM Refinement == Spec => LineDiscipline
<1>1. Init => Lines!Init
  BY InitRefines
<1>2. Inv /\ [Next]_vars => [Lines!Next]_(Lines!vars)
  <2> SUFFICES ASSUME Inv, [Next]_vars PROVE [Lines!Next]_(Lines!vars)
    OBVIOUS
  <2>1. CASE UNCHANGED vars
    BY <2>1, Zenon DEF vars, input, Lines!vars, Between, Sub, Slot
  <2> QED
    BY <2>1, EditRefines, ReadRefines, Steps, Zenon DEF Inv
<1> QED
  BY <1>1, <1>2, Invariance, PTL DEF Spec, LineDiscipline, Lines!Spec

=============================================================================

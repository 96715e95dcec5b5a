------------------------------ MODULE Console ------------------------------
(***************************************************************************)
(* Console input: kbdgetc and uartgetc feed consoleintr, which edits a     *)
(* line in a ring buffer; consoleread hands committed characters to the    *)
(* readers.  input.lock is held for one character of consoleintr, and for  *)
(* the whole of consoleread except its sleep.  The indices r, w and e are  *)
(* unsigned words that wrap.                                               *)
(***************************************************************************)
EXTENDS Integers, Sequences, FiniteSets, FiniteSetsExt

CONSTANTS
  Reader,       \* processes that read the console
  INPUT_BUF,    \* size of the ring buffer
  WORD,         \* 2^32: the indices are counted modulo this
  Typed,        \* characters that come over the serial line
  Keys,         \* keys of the keyboard: <<name, TRUE>> sends E0 first
  Counts        \* arguments of read

ASSUME ConsoleConstants ==
  /\ INPUT_BUF \in Nat \ {0} /\ WORD \in Nat /\ WORD % INPUT_BUF = 0
  /\ WORD > INPUT_BUF /\ Counts \subseteq Nat \ {0}
  /\ "free" \notin Reader

VARIABLES
  buf, r, w, e,     \* struct input
  lock,             \* the reader that holds input.lock, or "free"
  rd,               \* rd[p]: p's call of consoleread
  killed,           \* p->killed
  shift,            \* kbdgetc's modifier bits
  held,             \* keys that are down
  code              \* second byte of a two-byte scan code still to come, or <<>>

input == <<buf, r, w, e>>
kbd   == <<shift, held, code>>
vars  == <<input, lock, rd, killed, kbd>>

Sub(a, b) == (a - b) % WORD
Slot(i) == i % INPUT_BUF
Idle == [pc |-> "user", n |-> 0, got |-> <<>>]

Init ==
  /\ buf = [i \in 0 .. INPUT_BUF - 1 |-> "x"]
  /\ r = 0 /\ w = 0 /\ e = 0
  /\ lock = "free"
  /\ rd = [p \in Reader |-> Idle]
  /\ killed = [p \in Reader |-> FALSE]
  /\ shift = {} /\ held = {} /\ code = <<>>

(* wakeup(&input.r) makes every sleeping reader runnable. *)
Woken_Lost == rd
Woken == [p \in Reader |-> IF rd[p].pc = "asleep" THEN [rd[p] EXCEPT !.pc = "acquire"] ELSE rd[p]]

-----------------------------------------------------------------------------
(* One character c in consoleintr. *)
Erasable_Committed == e # r
Erasable == e # w
Erased == UNCHANGED <<buf, r, w, rd>>
consoleintr(c) ==
  /\ lock = "free"
  /\ \/ /\ c = "kill"     \* ^U erases back to w or to a newline
        /\ LET keep == {k \in 1 .. Sub(e, w) : buf[Slot(w + k - 1)] = "nl"} IN
           e' = (w + Max(keep \union {0})) % WORD
        /\ Erased
     \/ /\ c = "bs"       \* ^H
        /\ e' = IF Erasable THEN Sub(e, 1) ELSE e
        /\ Erased
     \/ /\ c \in {"dump", "none"}     \* ^P lists processes; 0 is no character
        /\ UNCHANGED <<input, rd>>
     \/ /\ c \in {"x", "X", "nl", "eof"} /\ Sub(e, r) >= INPUT_BUF     \* no room
        /\ UNCHANGED <<input, rd>>
     \/ /\ c \in {"x", "X", "nl", "eof"} /\ Sub(e, r) < INPUT_BUF
        /\ buf' = [buf EXCEPT ![Slot(e)] = c]
        /\ e' = (e + 1) % WORD
        /\ IF c \in {"nl", "eof"} \/ e' = (r + INPUT_BUF) % WORD
           THEN w' = e' /\ rd' = Woken
           ELSE UNCHANGED <<w, rd>>
        /\ UNCHANGED r
  /\ UNCHANGED <<lock, killed>>

(* uartintr: any character may come. *)
uartintr(c) == consoleintr(c) /\ UNCHANGED kbd

-----------------------------------------------------------------------------
(* kbdgetc on one byte of a scan code.  The tables shiftcode, togglecode   *)
(* and charcode, for the keys modelled; ext is an E0 key.                  *)
shiftcode(k, ext)  == IF k = "ctl" THEN {"CTL"} ELSE IF k = "shift" /\ ~ext THEN {"SHIFT"} ELSE {}
togglecode(k, ext) == IF k = "caps" /\ ~ext THEN {"CAPS"} ELSE {}
charcode(k, ext, m) ==
  LET upper == ("SHIFT" \in m) # ("CAPS" \in m) IN
  IF k # "d" \/ ext THEN "none"
  ELSE IF "CTL" \in m THEN "eof" ELSE IF upper THEN "X" ELSE "x"

Released_EscOnly(k, ext) == {"E0ESC"}
Released(k, ext) == shiftcode(k, ext) \union {"E0ESC"}
Xor(A, B) == (A \ B) \union (B \ A)

(* The first byte, E0, of an extended key. *)
kbdgetc_E0(k, down) ==
  /\ code = <<>> /\ <<k, TRUE>> \in Keys
  /\ consoleintr("none")
  /\ shift' = shift \union {"E0ESC"}
  /\ code' = <<k, down>>
  /\ UNCHANGED held

kbdgetc(k, down) ==
  LET ext == "E0ESC" \in shift
      m == Xor((shift \ {"E0ESC"}) \union shiftcode(k, ext), togglecode(k, ext)) IN
  /\ code = <<k, down>> \/ (code = <<>> /\ <<k, FALSE>> \in Keys)
  /\ ~down => <<k, code # <<>>>> \in held
  /\ code' = <<>>
  /\ held' = IF down THEN held \union {<<k, code # <<>>>>} ELSE held \ {<<k, code # <<>>>>}
  /\ IF down
     THEN shift' = m /\ consoleintr(charcode(k, ext, m))
     ELSE shift' = shift \ Released(k, ext) /\ consoleintr("none")

-----------------------------------------------------------------------------
(* consoleread: the call, then from acquire to the next sleep or to the    *)
(* return.                                                                 *)
consoleread(p, n) ==
  /\ rd[p].pc = "user" /\ ~killed[p]
  /\ rd' = [rd EXCEPT ![p] = [pc |-> "acquire", n |-> n, got |-> <<>>]]
  /\ UNCHANGED <<input, lock, killed, kbd>>

acquire(p) ==
  /\ rd[p].pc = "acquire" /\ lock = "free"
  /\ lock' = p
  /\ rd' = [rd EXCEPT ![p].pc = "loop"]
  /\ UNCHANGED <<input, killed, kbd>>

(* Nothing to read: give up if killed, or sleep.  kill() does not take     *)
(* input.lock, so it may come between the test and the sleep.              *)
read_empty(p) ==
  /\ rd[p].pc = "loop" /\ r = w
  /\ rd' = [rd EXCEPT ![p] = IF killed[p] THEN Idle ELSE [@ EXCEPT !.pc = "sleep"]]
  /\ lock' = IF killed[p] THEN "free" ELSE p
  /\ UNCHANGED <<input, killed, kbd>>

read_sleep(p) ==
  /\ rd[p].pc = "sleep"
  /\ rd' = [rd EXCEPT ![p].pc = "asleep"]
  /\ lock' = "free"
  /\ UNCHANGED <<input, killed, kbd>>

(* The next character.  An end-of-file mark ends the read, and is put back *)
(* if the read already has bytes.                                          *)
PutBack_Always(p) == TRUE
PutBack(p) == rd[p].got # <<>>
read_char(p) ==
  LET c == buf[Slot(r)]
      last == c = "nl" \/ rd[p].n = 1 IN
  /\ rd[p].pc = "loop" /\ r # w
  /\ r' = IF c = "eof" /\ PutBack(p) THEN r ELSE (r + 1) % WORD
  /\ rd' = [rd EXCEPT ![p] =
       IF c = "eof" \/ last THEN Idle ELSE [pc |-> "loop", n |-> @.n - 1, got |-> Append(@.got, c)]]
  /\ lock' = IF c = "eof" \/ last THEN "free" ELSE p
  /\ UNCHANGED <<buf, w, e, killed, kbd>>

(* kill() marks the reader and wakes it if it is asleep by then; after the *)
(* call it exits, and the slot is used by another process.                 *)
kill(p) ==
  /\ rd[p].pc # "user"
  /\ killed' = [killed EXCEPT ![p] = TRUE]
  /\ rd' = [rd EXCEPT ![p].pc = IF @ = "asleep" THEN "acquire" ELSE @]
  /\ UNCHANGED <<input, lock, kbd>>

exit(p) ==
  /\ rd[p].pc = "user" /\ killed[p]
  /\ killed' = [killed EXCEPT ![p] = FALSE]
  /\ UNCHANGED <<input, lock, rd, kbd>>

Read(p) == acquire(p) \/ read_empty(p) \/ read_sleep(p) \/ read_char(p)

Next ==
  \/ \E c \in Typed : uartintr(c)
  \/ \E k \in {"ctl", "shift", "caps", "d"}, down \in BOOLEAN : kbdgetc_E0(k, down) \/ kbdgetc(k, down)
  \/ \E p \in Reader : Read(p) \/ kill(p) \/ exit(p) \/ \E n \in Counts : consoleread(p, n)

(* A process inside the kernel keeps running. *)
Spec == Init /\ [][Next]_vars /\ \A p \in Reader : WF_vars(Read(p))

-----------------------------------------------------------------------------
(* The ring buffer is the line editor LineInput: nothing typed is lost,    *)
(* reordered or overwritten before it is read, only characters after the   *)
(* last commit can be erased, and ^D ends a read without bytes once.       *)
Between(a, b) == [i \in 1 .. Sub(b, a) |-> buf[Slot(a + i - 1)]]
Lines == INSTANCE LineInput WITH
  Capacity <- INPUT_BUF, line <- Between(w, e), queue <- Between(r, w),
  reading <- [p \in Reader |-> [on |-> rd[p].pc # "user", want |-> rd[p].n, got |-> rd[p].got]]
LineDiscipline == Lines!Spec

(* From its test of r = w until it is woken a reader misses nothing: every *)
(* commit wakes all sleepers, and a mark put back wakes nobody because     *)
(* nobody can be asleep then (consoleread).  A reader killed between its   *)
(* test of p->killed and the sleep does sleep on, until the next commit.   *)
SleepsOnEmpty == \A p \in Reader : rd[p].pc \in {"sleep", "asleep"} => r = w

(* While a reader waits, the oldest committed character does not stay:     *)
(* some reader takes it (a mark put back included), or all give up.        *)
InputIsRead ==
  \A i \in 0 .. WORD - 1 :
    r = i /\ r # w /\ (\E p \in Reader : rd[p].pc # "user") ~>
      r # i \/ \A p \in Reader : rd[p].pc = "user"

(* With no key down no modifier stays set, whatever keys were pressed and  *)
(* released in whatever order (shift in kbdgetc).                          *)
NoStuckModifier == held = {} /\ code = <<>> => shift \subseteq {"CAPS"}

=============================================================================

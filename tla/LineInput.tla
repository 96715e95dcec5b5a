----------------------------- MODULE LineInput -----------------------------
(***************************************************************************)
(* What console input promises: characters are edited in the last line and *)
(* then wait, in order, to be read; at most Capacity are kept; a read ends *)
(* at a newline or before an end-of-file mark, and a read that finds the   *)
(* mark first returns nothing.                                             *)
(***************************************************************************)
EXTENDS Integers, Sequences

CONSTANTS Reader, Capacity

VARIABLES
  line,       \* characters that can still be erased
  queue,      \* characters that can be read
  reading     \* reading[p]: bytes still wanted, bytes got, and whether p reads

vars == <<line, queue, reading>>

Off == [on |-> FALSE, want |-> 0, got |-> <<>>]

Init == /\ line = <<>> /\ queue = <<>>
        /\ \A p \in Reader : reading[p] = Off

Ends(c) == c \in {"nl", "eof"}

Type(c) ==
  /\ Len(queue) + Len(line) < Capacity
  /\ IF Ends(c) \/ Len(queue) + Len(line) + 1 = Capacity
     THEN queue' = queue \o Append(line, c) /\ line' = <<>>
     ELSE line' = Append(line, c) /\ UNCHANGED queue
  /\ UNCHANGED reading

Erase == line # <<>> /\ line' = SubSeq(line, 1, Len(line) - 1) /\ UNCHANGED <<queue, reading>>
Kill  == line' = <<>> /\ UNCHANGED <<queue, reading>>

Begin(p) == /\ ~reading[p].on /\ reading'[p].on /\ reading'[p].got = <<>>
            /\ \A q \in Reader \ {p} : reading'[q] = reading[q]
            /\ UNCHANGED <<line, queue>>

(* p takes the next character; the end-of-file mark stays when p has bytes.*)
(* The read ends with the mark, a newline or the last byte wanted.         *)
Take(p) ==
  LET c == Head(queue)
      got == reading[p].got IN
  /\ reading[p].on /\ queue # <<>>
  /\ reading' = [reading EXCEPT ![p] =
       IF Ends(c) \/ @.want = 1 THEN Off
       ELSE [on |-> TRUE, want |-> @.want - 1, got |-> Append(got, c)]]
  /\ queue' = IF c = "eof" /\ got # <<>> THEN queue ELSE Tail(queue)
  /\ UNCHANGED line

(* A killed reader gives up. *)
Abandon(p) == /\ reading[p].on /\ reading' = [reading EXCEPT ![p] = Off]
              /\ UNCHANGED <<line, queue>>

Next == \/ \E c \in {"x", "X", "nl", "eof"} : Type(c)
        \/ Erase \/ Kill
        \/ \E p \in Reader : Begin(p) \/ Take(p) \/ Abandon(p)

Spec == Init /\ [][Next]_vars
=============================================================================

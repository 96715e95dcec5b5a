------------------------------ MODULE ByteFile ------------------------------
(***************************************************************************)
(* What the file system promises of file contents: a file is a sequence of *)
(* bytes; writers that share an open file put the pieces of their bytes    *)
(* one after the other at its offset; a piece becomes durable as a whole,  *)
(* and a crash loses what is not durable.                                  *)
(***************************************************************************)
EXTENDS Integers, Sequences

CONSTANTS Regular, Caller

VARIABLES
  content,   \* content[f]: the bytes of f as readers see them
  durable,   \* durable[f]: the bytes of f after a crash
  offset,    \* the offset of the open file f
  todo,      \* todo[p]: the file p writes and the bytes it still has to write
  result     \* what the read that just ended returned

vars == <<content, durable, offset, todo, result>>

Init == /\ durable = content
        /\ offset = [f \in Regular |-> 0]
        /\ \A p \in Caller : todo[p].bytes = <<>>
        /\ result = <<>>

(* s with the bytes of piece from offset off on, longer if need be. *)
Overwrite(s, off, piece) ==
  LET end == off + Len(piece) IN
  [i \in 1 .. (IF end > Len(s) THEN end ELSE Len(s)) |->
     IF i > off /\ i <= end THEN piece[i - off] ELSE s[i]]

NoResult == result' = <<>>

Start(p) == /\ todo[p].bytes = <<>>
            /\ todo' = [todo EXCEPT ![p] = todo'[p]]
            /\ NoResult /\ UNCHANGED <<content, durable, offset>>

Write(p) ==
  LET f == todo[p].file
      n == Len(todo[p].bytes) - Len(todo'[p].bytes) IN
  /\ n > 0
  /\ todo' = [todo EXCEPT ![p].bytes = SubSeq(@, n + 1, Len(@))]
  /\ content' = [content EXCEPT ![f] = Overwrite(@, offset[f], SubSeq(todo[p].bytes, 1, n))]
  /\ offset' = [offset EXCEPT ![f] = @ + n]
  /\ NoResult /\ UNCHANGED durable

GiveUp(p) == /\ todo' = [todo EXCEPT ![p].bytes = <<>>]
             /\ NoResult /\ UNCHANGED <<content, durable, offset>>

Read(f) ==
  /\ offset[f] + Len(result') <= Len(content[f])
  /\ result' = SubSeq(content[f], offset[f] + 1, offset[f] + Len(result'))
  /\ offset' = [offset EXCEPT ![f] = @ + Len(result')]
  /\ UNCHANGED <<content, durable, todo>>

Remove(f) == /\ content' = [content EXCEPT ![f] = <<>>]
             /\ offset' = [offset EXCEPT ![f] = 0]
             /\ NoResult /\ UNCHANGED <<durable, todo>>

Open(f) == /\ offset' = [offset EXCEPT ![f] = 0]
           /\ NoResult /\ UNCHANGED <<content, durable, todo>>

Commit == durable' = content /\ NoResult /\ UNCHANGED <<content, offset, todo>>

Crash == /\ content' = durable
         /\ offset' = [f \in Regular |-> 0]
         /\ todo' = [p \in Caller |-> [todo[p] EXCEPT !.bytes = <<>>]]
         /\ NoResult /\ UNCHANGED durable

Next == \/ \E p \in Caller : Start(p) \/ Write(p) \/ GiveUp(p)
        \/ \E f \in Regular : Read(f) \/ Remove(f) \/ Open(f)
        \/ Commit \/ Crash

Spec == Init /\ [][Next]_vars
=============================================================================

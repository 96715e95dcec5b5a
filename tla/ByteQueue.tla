------------------------------ MODULE ByteQueue -----------------------------
(***************************************************************************)
(* What a pipe promises: a bounded first-in first-out queue of bytes with  *)
(* two ends that close once.  `out' is the last byte a reader received.    *)
(***************************************************************************)
EXTENDS Naturals, Sequences

CONSTANTS Byte, Capacity

VARIABLES q, out, wopen, ropen

bqVars == <<q, out, wopen, ropen>>

Init ==
  /\ q = <<>> /\ out \in Byte
  /\ wopen = TRUE /\ ropen = TRUE

\* Bytes are accepted also when nobody will read them, up to the capacity.
Put(b) ==
  /\ wopen /\ Len(q) < Capacity
  /\ q' = Append(q, b)
  /\ UNCHANGED <<out, wopen, ropen>>

Get ==
  /\ ropen /\ q # <<>>
  /\ out' = Head(q)
  /\ q' = Tail(q)
  /\ UNCHANGED <<wopen, ropen>>

CloseWrite ==
  /\ wopen /\ wopen' = FALSE
  /\ UNCHANGED <<q, out, ropen>>

CloseRead ==
  /\ ropen /\ ropen' = FALSE
  /\ UNCHANGED <<q, out, wopen>>

Next == (\E b \in Byte : Put(b)) \/ Get \/ CloseWrite \/ CloseRead

Spec == Init /\ [][Next]_bqVars
=============================================================================

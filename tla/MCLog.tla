------------------------------- MODULE MCLog --------------------------------
(* Instances of Log for TLC.                                               *)
EXTENDS Log, TLC

Symmetry == Permutations(Proc) \union Permutations(Block)

(* A transaction that began ends, after begin_trans has slept for it as    *)
(* often as need be, and recovery after a crash finishes.                  *)
LogProgress == TransactionEnds /\ RecoveryCompletes
=============================================================================

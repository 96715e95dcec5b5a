------------------------------- MODULE MCPipe -------------------------------
(* Instances of Pipe for TLC.                                              *)
EXTENDS Pipe, TLC

ASSUME PipeAssumption == PipeConstants

(* All ends closed is a legal end. *)
MCNext == Next \/ (fds = {} /\ UNCHANGED vars)
MCSpec == Init /\ [][MCNext]_vars

Symmetry == Permutations(Writer) \union Permutations(Reader)
=============================================================================

----------------------------- MODULE AtomicDisk -----------------------------
(***************************************************************************)
(* What the logging layer (log.c) promises to the file system: a disk on   *)
(* which one transaction at a time is applied entirely or not at all, even *)
(* when the machine stops at any instant.  `stable' is what a reboot would *)
(* find, `current' what a read finds now, `holders' the process inside a   *)
(* transaction (a set, empty or a singleton), `up' whether system calls    *)
(* are being served.                                                       *)
(***************************************************************************)
CONSTANTS Proc, Block, Value

VARIABLES stable, current, holders, up

adVars == <<stable, current, holders, up>>

Init ==
  /\ stable \in [Block -> Value]
  /\ current = stable
  /\ holders = {}
  /\ up = FALSE

Begin(p) ==
  /\ up /\ holders = {}
  /\ holders' = {p}
  /\ UNCHANGED <<stable, current, up>>

Write(p, b, v) ==
  /\ up /\ holders = {p}
  /\ current' = [current EXCEPT ![b] = v]
  /\ UNCHANGED <<stable, holders, up>>

\* The single instant at which all the writes of the transaction become durable.
Commit(p) ==
  /\ up /\ holders = {p}
  /\ stable' = current
  /\ UNCHANGED <<current, holders, up>>

\* commit_trans returns only when the transaction is durable.
End(p) ==
  /\ up /\ holders = {p} /\ stable = current
  /\ holders' = {}
  /\ UNCHANGED <<stable, current, up>>

\* panic(): the machine stops serving, nothing is written any more.
Halt ==
  /\ up /\ up' = FALSE
  /\ UNCHANGED <<stable, current, holders>>

Crash ==
  /\ up' = FALSE
  /\ current' = stable
  /\ holders' = {}
  /\ UNCHANGED stable

Boot ==
  /\ ~up /\ holders = {} /\ current = stable
  /\ up' = TRUE
  /\ UNCHANGED <<stable, current, holders>>

Next ==
  \/ \E p \in Proc : \/ Begin(p) \/ Commit(p) \/ End(p)
                     \/ \E b \in Block, v \in Value : Write(p, b, v)
  \/ Halt \/ Crash \/ Boot

Spec == Init /\ [][Next]_adVars
=============================================================================

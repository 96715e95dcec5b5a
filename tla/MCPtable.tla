------------------------------ MODULE MCPtable ------------------------------
(***************************************************************************)
(* Ptable for TLC: a table of four slots and three forks (MCPtable.cfg).   *)
(* The history variable late remembers which live processes were killed    *)
(* after their call's test of killed and before its sleep.                 *)
(***************************************************************************)
EXTENDS Ptable

VARIABLE late

MCInit == Init /\ late = {}

MCNext ==
  /\ Next
  /\ late' = {s \in Slot : /\ s \in late \/ (~killed[s] /\ killed'[s] /\ FallingAsleep(s))
                           /\ state'[s] \in Live}

MCSpec == MCInit /\ [][MCNext]_<<vars, late>> /\ Fairness

(* A killed process exits, whatever it was doing or waiting for: kill()    *)
(* takes it out of any sleep.  Only a process killed between the test and  *)
(* the sleep may sleep on, and it exits once something has woken it.       *)
KilledExits ==
  \A s \in Slot \ {initproc} :
    killed[s] /\ state[s] \in Live /\ (s \in late => At(s, "io") /\ chan[s] = IO) ~>
      state[s] \notin Live \/ panicked
=============================================================================

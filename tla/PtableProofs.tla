---------------------------- MODULE PtableProofs ----------------------------
(***************************************************************************)
(* The safety properties of Ptable, for every size of the process table    *)
(* and every number of forks.                                              *)
(***************************************************************************)
EXTENDS Ptable, FiniteSetTheorems, WellFoundedInduction, TLAPS

-----------------------------------------------------------------------------
(* The inductive invariant.                                                *)

\* A slot under construction belongs to one running fork, and fork's local
\* variable np names such a slot.
Construction ==
  /\ \A p \in Slot :
       /\ np[p] # None <=> pc[p] \in {"fork1", "fork2"}
       /\ np[p] # None => state[p] = "RUNNABLE" /\ state[np[p]] = "EMBRYO"
       /\ \A q \in Slot : np[p] # None /\ np[p] = np[q] => p = q
  /\ \A s \in Slot : state[s] = "EMBRYO" => \E p \in Slot : np[p] = s

\* Only live processes are in the kernel, and what they sleep on is what they
\* called.
Channels ==
  \A p \in Slot :
    /\ state[p] \notin Live => pc[p] = "user"
    /\ state[p] = "SLEEPING" => chan[p] # None
    /\ pc[p] \in {"user", "fork1", "fork2"} => chan[p] = None
    /\ pc[p] = "wait" => chan[p] = p
    /\ pc[p] = "io" => chan[p] \in {None, IO}

\* init never exits, only a process has a parent, and never itself.
Family ==
  /\ state[initproc] \in Live /\ parent[initproc] = None
  /\ \A s \in Slot : parent[s] # s /\ (state[s] \in {"UNUSED", "EMBRYO"} => parent[s] = None)
  /\ ParentIsLive

\* What a slot owns follows from its state and, for a slot under construction,
\* from how far its fork is.
Owned ==
  \A s \in Slot :
    /\ s \in kstack <=> \/ state[s] \in Live \union {"ZOMBIE"}
                        \/ \E p \in Slot : np[p] = s /\ pc[p] = "fork2"
    /\ s \in pgdir <=> state[s] \in Live \union {"ZOMBIE"}

Inv == TypeOK /\ Construction /\ Channels /\ Family /\ NoMissedExit /\ Owned

-----------------------------------------------------------------------------
(* The slot that a scan of the table finds.                                *)

\* A set of numbers that is not empty has a least element.
LEMMA MinIn ==
  ASSUME NEW S \in SUBSET Nat, S # {}
  PROVE  Min(S) \in S
<1> DEFINE R == OpToRel(<, Nat)
<1>1. IsWellFoundedOn(R, Nat)
  BY NatLessThanWellFounded, Zenon
<1>2. \A x, y \in Nat : <<x, y>> \notin R => y <= x
  BY DEF OpToRel
<1> HIDE DEF R
<1>3. \E x \in S : \A y \in S : <<y, x>> \notin R
  BY <1>1, WFMin, Zenon
<1>4. \E x \in S : \A y \in S : x <= y
  BY <1>2, <1>3, Zenon
<1> QED
  BY <1>4, Zenon DEF Min

\* init's slot is in the table, and None and IO are no slots.
LEMMA Slots ==
  Slot \subseteq Nat /\ initproc \in Slot /\ None \notin Slot /\ IO \notin Slot /\ None # IO
BY PtableAssumption DEF Slot, initproc, IO

\* allocproc with the slot s that its scan found.
Takes(p, s) ==
  /\ Syscall(p) /\ nextpid <= MaxPid
  /\ state[s] = "UNUSED"
  /\ state' = [state EXCEPT ![s] = "EMBRYO"]
  /\ pid' = [pid EXCEPT ![s] = nextpid]
  /\ np' = [np EXCEPT ![p] = s]
  /\ nextpid' = nextpid + 1
  /\ pc' = [pc EXCEPT ![p] = "fork1"]
  /\ UNCHANGED <<parent, killed, chan, kstack, pgdir, panicked>>

\* allocproc takes an UNUSED slot.
LEMMA Allocated ==
  ASSUME NEW p \in Slot, allocproc(p)
  PROVE  \E s \in Slot : Takes(p, s)
<1>1. Unused \in SUBSET Nat /\ Unused # {}
  BY Slots, Zenon DEF allocproc, Unused
<1>2. Min(Unused) \in Slot /\ state[Min(Unused)] = "UNUSED"
  BY <1>1, MinIn, Zenon DEF Unused
<1> QED
  BY <1>2, Zenon DEF allocproc, Takes

\* wait with the zombie s that its scan found.
Reaps(p, s) ==
  /\ InWait(p)
  /\ state[s] = "ZOMBIE" /\ parent[s] = p
  /\ state' = [state EXCEPT ![s] = "UNUSED"]
  /\ pid' = [pid EXCEPT ![s] = 0]
  /\ parent' = [parent EXCEPT ![s] = None]
  /\ killed' = [killed EXCEPT ![s] = FALSE]
  /\ kstack' = kstack \ {s}
  /\ pgdir' = pgdir \ {s}
  /\ pc' = [pc EXCEPT ![p] = "user"]
  /\ chan' = [chan EXCEPT ![p] = None]
  /\ UNCHANGED <<np, nextpid, panicked>>

\* wait frees a child that is a zombie.
LEMMA Reaped ==
  ASSUME NEW p \in Slot, wait_reap(p)
  PROVE  \E s \in Slot : Reaps(p, s)
<1>1. Zombies(p) \in SUBSET Nat /\ Zombies(p) # {}
  BY Slots, Zenon DEF wait_reap, Zombies, Children
<1>2. Min(Zombies(p)) \in Slot /\ state[Min(Zombies(p))] = "ZOMBIE" /\ parent[Min(Zombies(p))] = p
  BY <1>1, MinIn, Zenon DEF Zombies, Children
<1> QED
  BY <1>2, Zenon DEF wait_reap, Reaps

\* kill with the slot s that has the pid.
Marks(s) ==
  /\ killed' = [killed EXCEPT ![s] = TRUE]
  /\ state' = [state EXCEPT ![s] = IF @ = "SLEEPING" THEN "RUNNABLE" ELSE @]
  /\ UNCHANGED <<pid, parent, chan, kstack, pgdir, pc, np, nextpid, panicked>>

\* kill marks one slot, and makes it runnable if it slept.
LEMMA Killed ==
  ASSUME NEW p \in Slot, NEW n, kill(p, n)
  PROVE  \E s \in Slot : Marks(s)
<1> DEFINE S == {t \in Slot : pid[t] = n}
<1>1. S \in SUBSET Nat /\ S # {}
  BY Slots, Zenon DEF kill
<1>2. Min(S) \in Slot
  BY <1>1, MinIn, Zenon
<1> QED
  BY <1>2, Zenon DEF kill, Marks

\* exit, with its two wakeups as one.
Exits(p) ==
  /\ At(p, "user") /\ p # initproc
  /\ state' = [s \in Slot |->
       IF s = p THEN "ZOMBIE"
       ELSE IF /\ state[s] = "SLEEPING"
               /\ chan[s] = parent[p] \/ (chan[s] = initproc /\ Zombies(p) # {})
       THEN "RUNNABLE" ELSE state[s]]
  /\ parent' = [s \in Slot |-> IF parent[s] = p THEN initproc ELSE parent[s]]
  /\ UNCHANGED <<pid, killed, chan, kstack, pgdir, pc, np, nextpid, panicked>>

\* exit wakes the parent, and init if it inherits a zombie.
LEMMA Exited ==
  ASSUME NEW p \in Slot, exit(p)
  PROVE  Exits(p)
BY Zenon DEF exit, Exits, Wakeup1

-----------------------------------------------------------------------------
(* Every step keeps the invariant, conjunct by conjunct.                   *)

\* Each step keeps the types: nextpid stays within the bound, and what fork adds
\* to the stacks and page tables is a slot.
LEMMA TypeStep ==
  ASSUME Inv, [Next]_vars
  PROVE  TypeOK'
<1> USE Slots DEF Inv, TypeOK, State, PC, Live, Construction
<1>1. ASSUME NEW p \in Slot, NEW s \in Slot, Takes(p, s) PROVE TypeOK'
  BY <1>1, PtableAssumption DEF Takes
<1>2. ASSUME NEW p \in Slot, allocproc_kstack(p) PROVE TypeOK'
  <2>1. np[p] \in Slot
    BY <1>2 DEF allocproc_kstack, At
  <2> QED
    BY <1>2, <2>1, ZenonT(30) DEF allocproc_kstack
<1>3. ASSUME NEW p \in Slot, allocproc_fail(p) PROVE TypeOK'
  BY <1>3 DEF allocproc_fail, Syscall, InWait, At
<1>4. ASSUME NEW p \in Slot, fork_fail(p) PROVE TypeOK'
  BY <1>4, Zenon DEF fork_fail, Syscall, InWait, At
<1>5. ASSUME NEW p \in Slot, fork(p) PROVE TypeOK'
  <2>1. np[p] \in Slot
    BY <1>5 DEF fork, At
  <2> QED
    BY <1>5, <2>1, ZenonT(30) DEF fork
<1>6. ASSUME NEW p \in Slot, Exits(p) PROVE TypeOK'
  BY <1>6 DEF Exits, Syscall, InWait, At
<1>7. ASSUME NEW p \in Slot, NEW s \in Slot, Reaps(p, s) PROVE TypeOK'
  <2>1. killed' \in [Slot -> BOOLEAN]
    BY <1>7, Zenon DEF Reaps
  <2>2. 0 \in 0 .. MaxPid
    BY PtableAssumption
  <2> QED
    BY <1>7, <2>1, <2>2 DEF Reaps
<1>8. ASSUME NEW p \in Slot, wait_return(p) PROVE TypeOK'
  BY <1>8 DEF wait_return, Syscall, InWait, At
<1>9. ASSUME NEW p \in Slot, wait_sleep(p) PROVE TypeOK'
  BY <1>9 DEF wait_sleep, Syscall, InWait, At
<1>10. ASSUME NEW s \in Slot, Marks(s) PROVE TypeOK'
  <2>1. killed' \in [Slot -> BOOLEAN]
    BY <1>10, Zenon DEF Marks
  <2> QED
    BY <1>10, <2>1 DEF Marks
<1>11. ASSUME NEW p \in Slot, io_test(p) PROVE TypeOK'
  BY <1>11 DEF io_test, Syscall, InWait, At
<1>12. ASSUME NEW p \in Slot, io_sleep(p) PROVE TypeOK'
  BY <1>12 DEF io_sleep, FallingAsleep, At
<1>13. ASSUME NEW p \in Slot, io_return(p) PROVE TypeOK'
  BY <1>13 DEF io_return, Syscall, InWait, At
<1>14. ASSUME io_wakeup PROVE TypeOK'
  BY <1>14 DEF io_wakeup, Wakeup1
<1>15. ASSUME exit_panic PROVE TypeOK'
  BY <1>15 DEF exit_panic
<1>16. CASE UNCHANGED vars
  BY <1>16 DEF vars
<1> HIDE Slots DEF Inv, TypeOK, State, PC, Live, Construction
<1> QED
  BY <1>1, <1>2, <1>3, <1>4, <1>5, <1>6, <1>7, <1>8,
     <1>9, <1>10, <1>11, <1>12, <1>13, <1>14, <1>15, <1>16, Allocated, Reaped, Exited, Killed, Zenon
     DEF Next, Running, forking, wait

\* Each step keeps fork's slot to its fork: allocproc takes only UNUSED slots,
\* wait frees only zombies, and kill and wakeup leave an EMBRYO as it is.
LEMMA ConstructionStep ==
  ASSUME Inv, [Next]_vars
  PROVE  Construction'
<1> USE Slots DEF Inv, TypeOK, State, PC, Live, Construction, Channels
<1>1. ASSUME NEW p \in Slot, NEW s \in Slot, Takes(p, s) PROVE Construction'
  BY <1>1 DEF Takes, Syscall, InWait, At
<1>2. ASSUME NEW p \in Slot, allocproc_kstack(p) PROVE Construction'
  BY <1>2 DEF allocproc_kstack, Syscall, InWait, At
<1>3. ASSUME NEW p \in Slot, allocproc_fail(p) PROVE Construction'
  BY <1>3 DEF allocproc_fail, Syscall, InWait, At
<1>4. ASSUME NEW p \in Slot, fork_fail(p) PROVE Construction'
  BY <1>4 DEF fork_fail, Syscall, InWait, At
<1>5. ASSUME NEW p \in Slot, fork(p) PROVE Construction'
  BY <1>5 DEF fork, Syscall, InWait, At
<1>6. ASSUME NEW p \in Slot, Exits(p) PROVE Construction'
  BY <1>6 DEF Exits, Syscall, InWait, At
<1>7. ASSUME NEW p \in Slot, NEW s \in Slot, Reaps(p, s) PROVE Construction'
  BY <1>7 DEF Reaps, Syscall, InWait, At
<1>8. ASSUME NEW p \in Slot, wait_return(p) PROVE Construction'
  BY <1>8 DEF wait_return, Syscall, InWait, At
<1>9. ASSUME NEW p \in Slot, wait_sleep(p) PROVE Construction'
  BY <1>9 DEF wait_sleep, Syscall, InWait, At
<1>10. ASSUME NEW s \in Slot, Marks(s) PROVE Construction'
  BY <1>10 DEF Marks, Syscall, InWait, At
<1>11. ASSUME NEW p \in Slot, io_test(p) PROVE Construction'
  BY <1>11 DEF io_test, Syscall, InWait, At
<1>12. ASSUME NEW p \in Slot, io_sleep(p) PROVE Construction'
  BY <1>12 DEF io_sleep, FallingAsleep, At
<1>13. ASSUME NEW p \in Slot, io_return(p) PROVE Construction'
  BY <1>13 DEF io_return, Syscall, InWait, At
<1>14. ASSUME io_wakeup PROVE Construction'
  BY <1>14 DEF io_wakeup, Wakeup1
<1>15. ASSUME exit_panic PROVE Construction'
  BY <1>15 DEF exit_panic
<1>16. CASE UNCHANGED vars
  BY <1>16 DEF vars
<1> HIDE Slots DEF Inv, TypeOK, State, PC, Live, Construction, Channels
<1> QED
  BY <1>1, <1>2, <1>3, <1>4, <1>5, <1>6, <1>7, <1>8,
     <1>9, <1>10, <1>11, <1>12, <1>13, <1>14, <1>15, <1>16, Allocated, Reaped, Exited, Killed, Zenon
     DEF Next, Running, forking, wait

\* Each step keeps what a process sleeps on: wait sleeps on its own slot, the
\* device calls on IO, and a woken process keeps its channel until it returns.
LEMMA ChannelsStep ==
  ASSUME Inv, [Next]_vars
  PROVE  Channels'
<1> USE Slots DEF Inv, TypeOK, State, PC, Live, Construction, Channels, Family
<1>1. ASSUME NEW p \in Slot, NEW s \in Slot, Takes(p, s) PROVE Channels'
  BY <1>1 DEF Takes, Syscall, InWait, At
<1>2. ASSUME NEW p \in Slot, allocproc_kstack(p) PROVE Channels'
  BY <1>2 DEF allocproc_kstack, Syscall, InWait, At
<1>3. ASSUME NEW p \in Slot, allocproc_fail(p) PROVE Channels'
  BY <1>3 DEF allocproc_fail, Syscall, InWait, At
<1>4. ASSUME NEW p \in Slot, fork_fail(p) PROVE Channels'
  BY <1>4 DEF fork_fail, Syscall, InWait, At
<1>5. ASSUME NEW p \in Slot, fork(p) PROVE Channels'
  BY <1>5 DEF fork, Syscall, InWait, At
<1>6. ASSUME NEW p \in Slot, Exits(p) PROVE Channels'
  BY <1>6 DEF Exits, Syscall, InWait, At
<1>7. ASSUME NEW p \in Slot, NEW s \in Slot, Reaps(p, s) PROVE Channels'
  BY <1>7 DEF Reaps, Syscall, InWait, At
<1>8. ASSUME NEW p \in Slot, wait_return(p) PROVE Channels'
  BY <1>8 DEF wait_return, Syscall, InWait, At
<1>9. ASSUME NEW p \in Slot, wait_sleep(p) PROVE Channels'
  BY <1>9 DEF wait_sleep, Syscall, InWait, At
<1>10. ASSUME NEW s \in Slot, Marks(s) PROVE Channels'
  BY <1>10 DEF Marks, Syscall, InWait, At
<1>11. ASSUME NEW p \in Slot, io_test(p) PROVE Channels'
  BY <1>11 DEF io_test, Syscall, InWait, At
<1>12. ASSUME NEW p \in Slot, io_sleep(p) PROVE Channels'
  BY <1>12 DEF io_sleep, FallingAsleep, At
<1>13. ASSUME NEW p \in Slot, io_return(p) PROVE Channels'
  BY <1>13 DEF io_return, Syscall, InWait, At
<1>14. ASSUME io_wakeup PROVE Channels'
  BY <1>14 DEF io_wakeup, Wakeup1
<1>15. ASSUME exit_panic PROVE Channels'
  BY <1>15 DEF exit_panic
<1>16. CASE UNCHANGED vars
  BY <1>16 DEF vars
<1> HIDE Slots DEF Inv, TypeOK, State, PC, Live, Construction, Channels, Family
<1> QED
  BY <1>1, <1>2, <1>3, <1>4, <1>5, <1>6, <1>7, <1>8,
     <1>9, <1>10, <1>11, <1>12, <1>13, <1>14, <1>15, <1>16, Allocated, Reaped, Exited, Killed, Zenon
     DEF Next, Running, forking, wait

\* Each step keeps a live parent for every process: exit passes the children to
\* init, and wait frees no slot that is a parent.
LEMMA FamilyStep ==
  ASSUME Inv, [Next]_vars
  PROVE  Family'
<1> USE Slots DEF Inv, TypeOK, State, PC, Live, Construction, Channels, Family, ParentIsLive
<1>1. ASSUME NEW p \in Slot, NEW s \in Slot, Takes(p, s) PROVE Family'
  BY <1>1 DEF Takes, Syscall, InWait, At
<1>2. ASSUME NEW p \in Slot, allocproc_kstack(p) PROVE Family'
  BY <1>2 DEF allocproc_kstack, Syscall, InWait, At
<1>3. ASSUME NEW p \in Slot, allocproc_fail(p) PROVE Family'
  BY <1>3 DEF allocproc_fail, Syscall, InWait, At
<1>4. ASSUME NEW p \in Slot, fork_fail(p) PROVE Family'
  BY <1>4 DEF fork_fail, Syscall, InWait, At
<1>5. ASSUME NEW p \in Slot, fork(p) PROVE Family'
  BY <1>5 DEF fork, Syscall, InWait, At
<1>6. ASSUME NEW p \in Slot, Exits(p) PROVE Family'
  BY <1>6 DEF Exits, Syscall, InWait, At
<1>7. ASSUME NEW p \in Slot, NEW s \in Slot, Reaps(p, s) PROVE Family'
  BY <1>7 DEF Reaps, Syscall, InWait, At
<1>8. ASSUME NEW p \in Slot, wait_return(p) PROVE Family'
  BY <1>8 DEF wait_return, Syscall, InWait, At
<1>9. ASSUME NEW p \in Slot, wait_sleep(p) PROVE Family'
  BY <1>9 DEF wait_sleep, Syscall, InWait, At
<1>10. ASSUME NEW s \in Slot, Marks(s) PROVE Family'
  BY <1>10 DEF Marks, Syscall, InWait, At
<1>11. ASSUME NEW p \in Slot, io_test(p) PROVE Family'
  BY <1>11 DEF io_test, Syscall, InWait, At
<1>12. ASSUME NEW p \in Slot, io_sleep(p) PROVE Family'
  BY <1>12 DEF io_sleep, FallingAsleep, At
<1>13. ASSUME NEW p \in Slot, io_return(p) PROVE Family'
  BY <1>13 DEF io_return, Syscall, InWait, At
<1>14. ASSUME io_wakeup PROVE Family'
  BY <1>14 DEF io_wakeup, Wakeup1
<1>15. ASSUME exit_panic PROVE Family'
  BY <1>15 DEF exit_panic
<1>16. CASE UNCHANGED vars
  BY <1>16 DEF vars
<1> HIDE Slots DEF Inv, TypeOK, State, PC, Live, Construction, Channels, Family, ParentIsLive
<1> QED
  BY <1>1, <1>2, <1>3, <1>4, <1>5, <1>6, <1>7, <1>8,
     <1>9, <1>10, <1>11, <1>12, <1>13, <1>14, <1>15, <1>16, Allocated, Reaped, Exited, Killed, Zenon
     DEF Next, Running, forking, wait

\* Each step keeps a parent asleep in wait without zombies and with a child: exit
\* wakes whoever gets the zombie, its parent or, for its own children, init.
LEMMA MissedStep ==
  ASSUME Inv, [Next]_vars
  PROVE  NoMissedExit'
<1> USE Slots DEF Inv, TypeOK, Live, Channels, NoMissedExit, Zombies, Children
<1>1. ASSUME NEW p \in Slot, NEW s \in Slot, Takes(p, s) PROVE NoMissedExit'
  BY <1>1 DEF Takes, Syscall, InWait, At
<1>2. ASSUME NEW p \in Slot, allocproc_kstack(p) PROVE NoMissedExit'
  BY <1>2 DEF allocproc_kstack, Syscall, InWait, At
<1>3. ASSUME NEW p \in Slot, allocproc_fail(p) PROVE NoMissedExit'
  BY <1>3 DEF allocproc_fail, Syscall, InWait, At
<1>4. ASSUME NEW p \in Slot, fork_fail(p) PROVE NoMissedExit'
  BY <1>4 DEF fork_fail, Syscall, InWait, At
<1>5. ASSUME NEW p \in Slot, fork(p) PROVE NoMissedExit'
  <2>1. np[p] \in Slot /\ state[np[p]] = "EMBRYO"
    BY <1>5 DEF fork, At, Construction
  <2>2. parent[np[p]] = None
    BY <2>1, Zenon DEF Family
  <2> SUFFICES ASSUME NEW q \in Slot, state'[q] = "SLEEPING", chan'[q] = q
               PROVE  Zombies(q)' = {} /\ Children(q)' # {}
    BY Zenon
  <2>3. \A t \in Slot : t # np[p] => parent'[t] = parent[t] /\ state'[t] = state[t]
    BY <1>5 DEF fork
  <2>4. state'[np[p]] = "RUNNABLE" /\ chan' = chan
    BY <1>5, <2>1 DEF fork
  <2>5. Zombies(q) = {} /\ Children(q) # {}
    BY <2>3, <2>4, Zenon
  <2> HIDE DEF Inv, NoMissedExit
  <2>6. Children(q)' # {}
    <3>1. PICK c \in Slot : parent[c] = q
      BY <2>5, Zenon
    <3>2. parent'[c] = q
      BY <2>2, <2>3, <3>1, Slots, Zenon
    <3> QED
      BY <3>2, Zenon
  <2>7. ASSUME NEW t \in Slot, parent'[t] = q, state'[t] = "ZOMBIE" PROVE FALSE
    BY <2>3, <2>4, <2>5, <2>7
  <2> QED
    BY <2>6, <2>7, Zenon
<1>6. ASSUME NEW p \in Slot, Exits(p) PROVE NoMissedExit'
  <2> SUFFICES ASSUME NEW q \in Slot, state'[q] = "SLEEPING", chan'[q] = q
               PROVE  Zombies(q)' = {} /\ Children(q)' # {}
    BY Zenon
  <2>1. /\ q # p /\ state[q] = "SLEEPING" /\ chan[q] = q /\ q # parent[p]
        /\ q = initproc => Zombies(p) = {}
    BY <1>6 DEF Exits
  <2>2. Zombies(q) = {} /\ Children(q) # {}
    BY <2>1, Zenon
  <2>3. \A t \in Slot : parent[t] = q => parent'[t] = q
    BY <1>6, <2>1 DEF Exits
  <2>4. ASSUME NEW t \in Slot, parent'[t] = q, state'[t] = "ZOMBIE" PROVE FALSE
    <3>1. t # p
      BY <1>6, <2>1, <2>4 DEF Exits, Family
    <3>2. state[t] = "ZOMBIE"
      BY <1>6, <2>4, <3>1 DEF Exits
    <3>3. parent[t] = q \/ (parent[t] = p /\ q = initproc)
      BY <1>6, <2>4 DEF Exits
    <3> QED
      BY <2>1, <2>2, <3>2, <3>3, Zenon
  <2> HIDE DEF Inv, NoMissedExit
  <2> QED
    BY <2>2, <2>3, <2>4, Zenon
<1>7. ASSUME NEW p \in Slot, NEW s \in Slot, Reaps(p, s) PROVE NoMissedExit'
  BY <1>7 DEF Reaps, Syscall, InWait, At
<1>8. ASSUME NEW p \in Slot, wait_return(p) PROVE NoMissedExit'
  BY <1>8 DEF wait_return, Syscall, InWait, At
<1>9. ASSUME NEW p \in Slot, wait_sleep(p) PROVE NoMissedExit'
  BY <1>9 DEF wait_sleep, Syscall, InWait, At
<1>10. ASSUME NEW s \in Slot, Marks(s) PROVE NoMissedExit'
  BY <1>10 DEF Marks, Syscall, InWait, At
<1>11. ASSUME NEW p \in Slot, io_test(p) PROVE NoMissedExit'
  BY <1>11 DEF io_test, Syscall, InWait, At
<1>12. ASSUME NEW p \in Slot, io_sleep(p) PROVE NoMissedExit'
  BY <1>12 DEF io_sleep, FallingAsleep, At
<1>13. ASSUME NEW p \in Slot, io_return(p) PROVE NoMissedExit'
  BY <1>13 DEF io_return, Syscall, InWait, At
<1>14. ASSUME io_wakeup PROVE NoMissedExit'
  BY <1>14 DEF io_wakeup, Wakeup1
<1>15. ASSUME exit_panic PROVE NoMissedExit'
  BY <1>15 DEF exit_panic
<1>16. CASE UNCHANGED vars
  BY <1>16 DEF vars
<1> HIDE Slots DEF Inv, TypeOK, Live, Channels, NoMissedExit, Zombies, Children
<1> QED
  BY <1>1, <1>2, <1>3, <1>4, <1>5, <1>6, <1>7, <1>8,
     <1>9, <1>10, <1>11, <1>12, <1>13, <1>14, <1>15, <1>16, Allocated, Reaped, Exited, Killed, Zenon
     DEF Next, Running, forking, wait

\* Each step keeps what slots own, also when allocproc or copyuvm fails.
LEMMA OwnedStep ==
  ASSUME Inv, [Next]_vars
  PROVE  Owned'
<1> USE Slots DEF Inv, TypeOK, State, PC, Live, Construction, Channels, Owned
<1>1. ASSUME NEW p \in Slot, NEW s \in Slot, Takes(p, s) PROVE Owned'
  BY <1>1 DEF Takes, Syscall, InWait, At
<1>2. ASSUME NEW p \in Slot, allocproc_kstack(p) PROVE Owned'
  BY <1>2 DEF allocproc_kstack, Syscall, InWait, At
<1>3. ASSUME NEW p \in Slot, allocproc_fail(p) PROVE Owned'
  BY <1>3 DEF allocproc_fail, Syscall, InWait, At
<1>4. ASSUME NEW p \in Slot, fork_fail(p) PROVE Owned'
  BY <1>4 DEF fork_fail, Syscall, InWait, At
<1>5. ASSUME NEW p \in Slot, fork(p) PROVE Owned'
  BY <1>5 DEF fork, Syscall, InWait, At
<1>6. ASSUME NEW p \in Slot, Exits(p) PROVE Owned'
  BY <1>6 DEF Exits, Syscall, InWait, At
<1>7. ASSUME NEW p \in Slot, NEW s \in Slot, Reaps(p, s) PROVE Owned'
  BY <1>7 DEF Reaps, Syscall, InWait, At
<1>8. ASSUME NEW p \in Slot, wait_return(p) PROVE Owned'
  BY <1>8 DEF wait_return, Syscall, InWait, At
<1>9. ASSUME NEW p \in Slot, wait_sleep(p) PROVE Owned'
  BY <1>9 DEF wait_sleep, Syscall, InWait, At
<1>10. ASSUME NEW s \in Slot, Marks(s) PROVE Owned'
  BY <1>10 DEF Marks, Syscall, InWait, At
<1>11. ASSUME NEW p \in Slot, io_test(p) PROVE Owned'
  BY <1>11 DEF io_test, Syscall, InWait, At
<1>12. ASSUME NEW p \in Slot, io_sleep(p) PROVE Owned'
  BY <1>12 DEF io_sleep, FallingAsleep, At
<1>13. ASSUME NEW p \in Slot, io_return(p) PROVE Owned'
  BY <1>13 DEF io_return, Syscall, InWait, At
<1>14. ASSUME io_wakeup PROVE Owned'
  <2>1. \A s \in Slot : state'[s] \in Live \union {"ZOMBIE"} <=> state[s] \in Live \union {"ZOMBIE"}
    BY <1>14 DEF io_wakeup, Wakeup1
  <2>2. UNCHANGED <<kstack, pgdir, np, pc>>
    BY <1>14 DEF io_wakeup
  <2> HIDE DEF Inv, Live
  <2> QED
    BY <2>1, <2>2 DEF Inv
<1>15. ASSUME exit_panic PROVE Owned'
  BY <1>15 DEF exit_panic
<1>16. CASE UNCHANGED vars
  BY <1>16 DEF vars
<1> HIDE Slots DEF Inv, TypeOK, State, PC, Live, Construction, Channels, Owned
<1> QED
  BY <1>1, <1>2, <1>3, <1>4, <1>5, <1>6, <1>7, <1>8,
     <1>9, <1>10, <1>11, <1>12, <1>13, <1>14, <1>15, <1>16, Allocated, Reaped, Exited, Killed, Zenon
     DEF Next, Running, forking, wait

\* userinit's table satisfies the invariant.
LEMMA InitInv == Init => Inv
<1> SUFFICES ASSUME Init PROVE Inv
  OBVIOUS
<1> USE Slots, PtableAssumption DEF Init
<1>1. TypeOK
  <2>1. killed \in [Slot -> BOOLEAN] /\ panicked \in BOOLEAN
    BY Zenon
  <2> QED
    BY <2>1 DEF TypeOK, State, PC, IO
<1>2. Construction /\ Channels /\ Owned
  BY DEF Construction, Channels, Owned, Live, PC
<1>3. Family /\ NoMissedExit
  BY DEF Family, ParentIsLive, NoMissedExit, Live
<1> QED
  BY <1>1, <1>2, <1>3 DEF Inv

\* fork, exit, wait, kill and the sleeping system calls keep the invariant.
THEOREM Invariance == Spec => []Inv
<1>1. Inv /\ [Next]_vars => Inv'
  BY TypeStep, ConstructionStep, ChannelsStep, FamilyStep, MissedStep, OwnedStep, Zenon DEF Inv
<1> QED
  BY InitInv, <1>1, PTL DEF Spec

\* Every process has a live parent to wait for it, whichever of the two exits
\* first, and no parent sleeps in wait() beside a zombie child.
THEOREM FamilyKept == Spec => []FamilyConsistent
<1>1. Inv => FamilyConsistent
  BY Zenon DEF Inv, Family, FamilyConsistent
<1> QED
  BY Invariance, <1>1, PTL

\* A slot owns a kernel stack and a page table exactly while its state says so:
\* allocproc and fork give back what they took when they fail, wait frees the
\* rest once, and two forks never build the same slot.
THEOREM NothingLeaks == Spec => []ResourcesMatchState
<1>1. Inv => ResourcesMatchState
  <2> SUFFICES ASSUME Inv, NEW s \in Slot
               PROVE  LET makers == {p \in Slot : np[p] = s}
                      IN /\ state[s] = "EMBRYO" <=> makers # {}
                         /\ Cardinality(makers) <= 1
                         /\ s \in kstack <=> \/ state[s] \in Live \union {"ZOMBIE"}
                                             \/ \E p \in makers : pc[p] = "fork2"
                         /\ s \in pgdir <=> state[s] \in Live \union {"ZOMBIE"}
    BY Zenon DEF ResourcesMatchState
  <2> DEFINE makers == {p \in Slot : np[p] = s}
  <2>1. s # None /\ Construction
    BY Slots DEF Inv
  <2>2. state[s] = "EMBRYO" <=> makers # {}
    <3>1. ASSUME NEW p \in Slot, np[p] = s PROVE state[s] = "EMBRYO"
      BY <2>1, <3>1 DEF Construction
    <3>2. state[s] = "EMBRYO" => \E p \in Slot : np[p] = s
      BY <2>1 DEF Construction
    <3> QED
      BY <3>1, <3>2
  <2>3. makers = {} \/ \E p \in Slot : makers = {p}
    <3>1. ASSUME NEW p \in Slot, np[p] = s PROVE makers = {p}
      <4>1. \A q \in Slot : np[q] = s => p = q
        BY <2>1, <3>1 DEF Construction
      <4> QED
        BY <3>1, <4>1
    <3> QED
      BY <3>1
  <2>4. Cardinality(makers) <= 1
    <3>1. Cardinality({}) = 0 /\ \A p \in Slot : Cardinality({p}) = 1
      BY FS_EmptySet, FS_Singleton, Zenon
    <3> HIDE DEF makers
    <3> QED
      BY <2>3, <3>1
  <2> QED
    BY <2>2, <2>4 DEF Inv, Owned
<1> QED
  BY Invariance, <1>1, PTL
=============================================================================

------------------------------- MODULE Ptable -------------------------------
(***************************************************************************)
(* The process table of proc.c: fork, exit, wait, kill, and a blocking     *)
(* system call that can be interrupted (pipe, console, sleep).             *)
(*                                                                         *)
(* A section under ptable.lock is one step; fork works on its EMBRYO slot  *)
(* without the lock, so it takes several.  RUNNABLE stands for RUNNABLE    *)
(* and RUNNING; who runs when is the subject of Sched.                     *)
(***************************************************************************)
EXTENDS Naturals, FiniteSets, FiniteSetsExt

CONSTANTS
  NPROC,    \* slots of the table
  MaxPid,   \* bound: the last pid handed out
  None

ASSUME PtableAssumption ==
  /\ NPROC \in Nat \ {0}
  /\ MaxPid \in Nat \ {0}
  /\ None \notin Nat

Slot == 1 .. NPROC

initproc == 1

\* The channel of a device or pipe: no process's slot.
IO == 0

VARIABLES
  state, pid, parent, killed,   \* fields of struct proc
  chan,       \* None, a slot (a parent in wait), or IO
  kstack,     \* slots that own a kernel stack
  pgdir,      \* slots that own a page table
  pc,         \* what the process is doing in the kernel
  np,         \* fork's new slot
  nextpid,
  panicked

vars == <<state, pid, parent, killed, chan, kstack, pgdir, pc, np, nextpid, panicked>>

State == {"UNUSED", "EMBRYO", "SLEEPING", "RUNNABLE", "ZOMBIE"}

\* "fork1": allocproc has marked the slot, no stack yet; "fork2": stack, no memory yet;
\* "io": about to sleep, or asleep, on a device or pipe.
PC == {"user", "fork1", "fork2", "wait", "io"}

Live == {"SLEEPING", "RUNNABLE"}

\* userinit
Init ==
  /\ state = [s \in Slot |-> IF s = initproc THEN "RUNNABLE" ELSE "UNUSED"]
  /\ pid = [s \in Slot |-> IF s = initproc THEN 1 ELSE 0]
  /\ parent = [s \in Slot |-> None]
  /\ killed = [s \in Slot |-> FALSE]
  /\ chan = [s \in Slot |-> None]
  /\ kstack = {initproc} /\ pgdir = {initproc}
  /\ pc = [s \in Slot |-> "user"]
  /\ np = [s \in Slot |-> None]
  /\ nextpid = 2
  /\ panicked = FALSE

\* p is at l.  From user mode it enters the kernel only if it was not killed:
\* trap() calls exit() instead.
At(p, l) == state[p] = "RUNNABLE" /\ pc[p] = l

Syscall(p) == At(p, "user") /\ ~killed[p]

Unused == {s \in Slot : state[s] = "UNUSED"}

\* wakeup1(c), on table st.
Wakeup1(st, c) ==
  [s \in Slot |-> IF st[s] = "SLEEPING" /\ chan[s] = c THEN "RUNNABLE" ELSE st[s]]

-----------------------------------------------------------------------------
(* fork and allocproc                                                      *)

\* An UNUSED slot becomes EMBRYO and gets a pid.
allocproc(p) ==
  /\ Syscall(p) /\ Unused # {} /\ nextpid <= MaxPid
  /\ LET s == Min(Unused)
     IN /\ state' = [state EXCEPT ![s] = "EMBRYO"]
        /\ pid' = [pid EXCEPT ![s] = nextpid]
        /\ np' = [np EXCEPT ![p] = s]
  /\ nextpid' = nextpid + 1
  /\ pc' = [pc EXCEPT ![p] = "fork1"]
  /\ UNCHANGED <<parent, killed, chan, kstack, pgdir, panicked>>

\* kalloc of the kernel stack, which may fail.
allocproc_kstack(p) ==
  /\ At(p, "fork1")
  /\ kstack' = kstack \union {np[p]}
  /\ pc' = [pc EXCEPT ![p] = "fork2"]
  /\ UNCHANGED <<state, pid, parent, killed, chan, pgdir, np, nextpid, panicked>>

allocproc_fail(p) ==
  /\ At(p, "fork1")
  /\ state' = [state EXCEPT ![np[p]] = "UNUSED"]
  /\ pc' = [pc EXCEPT ![p] = "user"]
  /\ np' = [np EXCEPT ![p] = None]
  /\ UNCHANGED <<pid, parent, killed, chan, kstack, pgdir, nextpid, panicked>>

fork_fail_LeaksStack(p) ==
  /\ At(p, "fork2")
  /\ state' = [state EXCEPT ![np[p]] = "UNUSED"]
  /\ pc' = [pc EXCEPT ![p] = "user"]
  /\ np' = [np EXCEPT ![p] = None]
  /\ UNCHANGED <<pid, parent, killed, chan, kstack, pgdir, nextpid, panicked>>

\* copyuvm failed.
fork_fail(p) ==
  /\ At(p, "fork2")
  /\ kstack' = kstack \ {np[p]}
  /\ state' = [state EXCEPT ![np[p]] = "UNUSED"]
  /\ pc' = [pc EXCEPT ![p] = "user"]
  /\ np' = [np EXCEPT ![p] = None]
  /\ UNCHANGED <<pid, parent, killed, chan, pgdir, nextpid, panicked>>

\* copyuvm succeeded: the child gets its parent and becomes RUNNABLE.
fork(p) ==
  /\ At(p, "fork2")
  /\ pgdir' = pgdir \union {np[p]}
  /\ parent' = [parent EXCEPT ![np[p]] = p]
  /\ state' = [state EXCEPT ![np[p]] = "RUNNABLE"]
  /\ pc' = [pc EXCEPT ![p] = "user"]
  /\ np' = [np EXCEPT ![p] = None]
  /\ UNCHANGED <<pid, killed, chan, kstack, nextpid, panicked>>

-----------------------------------------------------------------------------
(* exit and wait                                                           *)

Children(p) == {s \in Slot : parent[s] = p}

Zombies_FirstChildOnly(p) ==
  {s \in Children(p) : state[s] = "ZOMBIE" /\ \A t \in Children(p) : s <= t}

Zombies(p) == {s \in Children(p) : state[s] = "ZOMBIE"}

exit_KeepsZombies(p) ==
  /\ At(p, "user") /\ p # initproc
  /\ state' = [Wakeup1(state, parent[p]) EXCEPT ![p] = "ZOMBIE"]
  /\ parent' = [s \in Slot |-> IF parent[s] = p /\ state[s] # "ZOMBIE"
                               THEN initproc ELSE parent[s]]
  /\ UNCHANGED <<pid, killed, chan, kstack, pgdir, pc, np, nextpid, panicked>>

\* Wake the parent, pass the children to init, wake init if one is a zombie.
exit(p) ==
  /\ At(p, "user") /\ p # initproc
  /\ LET woken == Wakeup1(state, parent[p])
         passed == IF Zombies(p) # {} THEN Wakeup1(woken, initproc) ELSE woken
     IN state' = [passed EXCEPT ![p] = "ZOMBIE"]
  /\ parent' = [s \in Slot |-> IF parent[s] = p THEN initproc ELSE parent[s]]
  /\ UNCHANGED <<pid, killed, chan, kstack, pgdir, pc, np, nextpid, panicked>>

\* A killed init is made to exit by trap().
exit_panic ==
  /\ At(initproc, "user") /\ killed[initproc]
  /\ panicked' = TRUE
  /\ UNCHANGED <<state, pid, parent, killed, chan, kstack, pgdir, pc, np, nextpid>>

\* At the top of wait's loop: at the call, or after sleep.
InWait(p) == Syscall(p) \/ At(p, "wait")

\* The first zombie child is freed.
wait_reap(p) ==
  /\ InWait(p) /\ Zombies(p) # {}
  /\ LET s == Min(Zombies(p))
     IN /\ state' = [state EXCEPT ![s] = "UNUSED"]
        /\ pid' = [pid EXCEPT ![s] = 0]
        /\ parent' = [parent EXCEPT ![s] = None]
        /\ killed' = [killed EXCEPT ![s] = FALSE]
        /\ kstack' = kstack \ {s}
        /\ pgdir' = pgdir \ {s}
  /\ pc' = [pc EXCEPT ![p] = "user"]
  /\ chan' = [chan EXCEPT ![p] = None]
  /\ UNCHANGED <<np, nextpid, panicked>>

wait_return(p) ==
  /\ InWait(p) /\ Zombies(p) = {}
  /\ Children(p) = {} \/ killed[p]
  /\ pc' = [pc EXCEPT ![p] = "user"]
  /\ chan' = [chan EXCEPT ![p] = None]
  /\ UNCHANGED <<state, pid, parent, killed, kstack, pgdir, np, nextpid, panicked>>

wait_sleep(p) ==
  /\ InWait(p) /\ Zombies(p) = {} /\ Children(p) # {} /\ ~killed[p]
  /\ state' = [state EXCEPT ![p] = "SLEEPING"]
  /\ chan' = [chan EXCEPT ![p] = p]
  /\ pc' = [pc EXCEPT ![p] = "wait"]
  /\ UNCHANGED <<pid, parent, killed, kstack, pgdir, np, nextpid, panicked>>

-----------------------------------------------------------------------------
(* kill, and a sleep that gives up when the process was killed             *)

kill_LeavesAsleep(p, n) ==
  /\ Syscall(p) /\ \E s \in Slot : pid[s] = n
  /\ LET s == Min({t \in Slot : pid[t] = n})
     IN /\ killed' = [killed EXCEPT ![s] = TRUE]
        /\ state' = [state EXCEPT ![s] = IF @ = "SLEEPING" /\ chan[s] # IO THEN "RUNNABLE" ELSE @]
  /\ UNCHANGED <<pid, parent, chan, kstack, pgdir, pc, np, nextpid, panicked>>

\* The first slot with that pid, whatever its state.
kill(p, n) ==
  /\ Syscall(p) /\ \E s \in Slot : pid[s] = n
  /\ LET s == Min({t \in Slot : pid[t] = n})
     IN /\ killed' = [killed EXCEPT ![s] = TRUE]
        /\ state' = [state EXCEPT ![s] = IF @ = "SLEEPING" THEN "RUNNABLE" ELSE @]
  /\ UNCHANGED <<pid, parent, chan, kstack, pgdir, pc, np, nextpid, panicked>>

\* piperead, consoleread, sys_sleep (none of which init.c calls): killed is
\* tested without ptable.lock ...
io_test(p) ==
  /\ Syscall(p) /\ p # initproc
  /\ pc' = [pc EXCEPT ![p] = "io"]
  /\ UNCHANGED <<state, pid, parent, killed, chan, kstack, pgdir, np, nextpid, panicked>>

\* ... and only then does sleep() acquire it.
FallingAsleep(p) == At(p, "io") /\ chan[p] = None

io_sleep(p) ==
  /\ FallingAsleep(p)
  /\ state' = [state EXCEPT ![p] = "SLEEPING"]
  /\ chan' = [chan EXCEPT ![p] = IO]
  /\ UNCHANGED <<pid, parent, killed, kstack, pgdir, pc, np, nextpid, panicked>>

io_return(p) ==
  /\ At(p, "io") /\ chan[p] = IO
  /\ pc' = [pc EXCEPT ![p] = "user"]
  /\ chan' = [chan EXCEPT ![p] = None]
  /\ UNCHANGED <<state, pid, parent, killed, kstack, pgdir, np, nextpid, panicked>>

\* The device, or the other end of the pipe, calls wakeup.
io_wakeup ==
  /\ \E s \in Slot : state[s] = "SLEEPING" /\ chan[s] = IO
  /\ state' = Wakeup1(state, IO)
  /\ UNCHANGED <<pid, parent, killed, chan, kstack, pgdir, pc, np, nextpid, panicked>>

-----------------------------------------------------------------------------
wait(p) == wait_reap(p) \/ wait_return(p) \/ wait_sleep(p)

forking(p) == allocproc_kstack(p) \/ allocproc_fail(p) \/ fork_fail(p) \/ fork(p)

Running ==
  \/ \E p \in Slot :
       \/ allocproc(p) \/ forking(p)
       \/ exit(p) \/ wait(p)
       \/ \E n \in 0 .. MaxPid : kill(p, n)
       \/ io_test(p) \/ io_sleep(p) \/ io_return(p)
  \/ io_wakeup
  \/ exit_panic

\* After panic the machine spins.
Next == (~panicked /\ Running) \/ (panicked /\ UNCHANGED vars)

Spec == Init /\ [][Next]_vars

\* A process in the kernel goes on, one that was killed reaches trap(), and init
\* calls wait again and again (init.c).  Nothing makes a device call wakeup.
Fairness ==
  /\ \A p \in Slot :
       /\ WF_vars(~panicked /\ (forking(p) \/ (pc[p] = "wait" /\ wait(p))
                                \/ io_sleep(p) \/ io_return(p)))
       /\ WF_vars(~panicked /\ killed[p] /\ exit(p))
  /\ SF_vars(~panicked /\ wait(initproc))
  /\ WF_vars(~panicked /\ exit_panic)

-----------------------------------------------------------------------------
(* Properties.                                                             *)

\* Every variable has its type.
TypeOK ==
  /\ state \in [Slot -> State]
  /\ pid \in [Slot -> 0 .. MaxPid]
  /\ parent \in [Slot -> Slot \union {None}]
  /\ killed \in [Slot -> BOOLEAN]
  /\ chan \in [Slot -> Slot \union {IO, None}]
  /\ kstack \subseteq Slot /\ pgdir \subseteq Slot
  /\ pc \in [Slot -> PC]
  /\ np \in [Slot -> Slot \union {None}]
  /\ nextpid \in 1 .. MaxPid + 1
  /\ panicked \in BOOLEAN

\* Every process but init has a parent that is neither gone nor a zombie, so
\* someone is there to wait for it: exit hands the children over, zombies
\* included, in the same step in which it becomes a zombie.
ParentIsLive ==
  \A s \in Slot \ {initproc} :
    state[s] \in Live \union {"ZOMBIE"} => parent[s] \in Slot /\ state[parent[s]] \in Live

\* No process sleeps in wait() beside a zombie child, and none sleeps there
\* without children: neither exit's wakeup of the parent nor the wakeup of init
\* for an inherited zombie is missed.
NoMissedExit ==
  \A p \in Slot : state[p] = "SLEEPING" /\ chan[p] = p =>
    Zombies(p) = {} /\ Children(p) # {}

\* The table is well formed, a live process has a live parent, and no parent
\* sleeps in wait() beside a zombie child, whatever exits first.
FamilyConsistent == TypeOK /\ ParentIsLive /\ NoMissedExit

\* Each slot owns a kernel stack and a page table exactly while its state says
\* so, and each slot under construction belongs to one fork: nothing is leaked
\* when fork fails half way and nothing is freed twice.
ResourcesMatchState ==
  \A s \in Slot :
    LET makers == {p \in Slot : np[p] = s}
    IN /\ state[s] = "EMBRYO" <=> makers # {}
       /\ Cardinality(makers) <= 1
       /\ s \in kstack <=> \/ state[s] \in Live \union {"ZOMBIE"}
                           \/ \E p \in makers : pc[p] = "fork2"
       /\ s \in pgdir <=> state[s] \in Live \union {"ZOMBIE"}

\* init reaps every zombie it has, its own or inherited, if it keeps calling wait.
ZombiesReaped ==
  \A s \in Slot : state[s] = "ZOMBIE" /\ parent[s] = initproc ~>
    state[s] # "ZOMBIE" \/ panicked
=============================================================================

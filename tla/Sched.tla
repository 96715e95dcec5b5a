------------------------------- MODULE Sched --------------------------------
(***************************************************************************)
(* The scheduler, and sleep and wakeup, of proc.c, with their locks.       *)
(*                                                                         *)
(* Every CPU runs either its scheduler loop or one process; swtch passes   *)
(* ptable.lock from one to the other while it is held.  Processes use one  *)
(* condition the way the kernel uses them all: a lock lk, a flag it guards *)
(* and a sleep channel.  A waiter does                                     *)
(*     acquire(lk); while(!flag) sleep(chan, lk); flag = 0; release(lk)    *)
(* and a waker, a process or an interrupt handler on top of it,            *)
(*     acquire(lk); flag = 1; wakeup(chan); release(lk).                   *)
(* The timer makes a process yield whenever interrupts are on, which is    *)
(* when its CPU holds no lock (pushcli).                                   *)
(***************************************************************************)
EXTENDS Naturals

CONSTANTS
  NPROC,   \* slots of the process table, all in use
  CPU,
  None

ASSUME SchedAssumption ==
  /\ NPROC \in Nat \ {0}
  /\ None \notin CPU /\ None \notin 1 .. NPROC

Proc == 1 .. NPROC

VARIABLES
  ptlock, lk,   \* the CPU that holds ptable.lock, and lk
  flag,
  state,        \* p->state
  pc,           \* where the kernel thread of each process is
  back,         \* where it was when an interrupt or a call took it elsewhere
  ctx,          \* what each CPU executes: a process, or None for its scheduler
  scan          \* scheduler's loop index p; 0 before it has the lock

vars == <<ptlock, lk, flag, state, pc, back, ctx, scan>>

PC == {"user", "forkret",
       "test", "retake",                                \* the waiter's loop
       "sleep1", "sleep2", "sleep3", "sleepsw", "slept", \* sleep()
       "yield1", "yieldsw", "yielded",                   \* yield()
       "set", "wakeup1", "wakeup2", "wakeup3", "unlock"} \* the waker

\* In swtch(&proc->context, cpu->scheduler).
InSwtch == {"sleepsw", "yieldsw"}

\* No lock held and interrupts on: sleep() has yet to reacquire lk, or the
\* process is anywhere outside this condition.
Interruptible == {"user", "retake"}

\* Saved contexts: where swtch(&cpu->scheduler, proc->context) resumes a process.
Saved == {"forkret", "slept", "yielded"}

Init ==
  /\ ptlock = None /\ lk = None
  /\ flag = FALSE
  /\ state = [p \in Proc |-> "RUNNABLE"]
  /\ pc = [p \in Proc |-> "forkret"]
  /\ back = [p \in Proc |-> "user"]
  /\ ctx = [c \in CPU |-> None]
  /\ scan = [c \in CPU |-> 0]

\* CPU c executes process p, which is at l and goes to m.
Step(c, p, l, m) ==
  /\ ctx[c] = p /\ pc[p] = l
  /\ pc' = [pc EXCEPT ![p] = m]
  /\ UNCHANGED back

\* The same, for what may happen at any interruptible point, and its end.
Enter(c, p, m) ==
  /\ ctx[c] = p /\ pc[p] \in Interruptible
  /\ back' = [back EXCEPT ![p] = pc[p]]
  /\ pc' = [pc EXCEPT ![p] = m]

Leave(c, p, l) ==
  /\ ctx[c] = p /\ pc[p] = l
  /\ pc' = [pc EXCEPT ![p] = back[p]]
  /\ back' = [back EXCEPT ![p] = "user"]

-----------------------------------------------------------------------------
(* scheduler()                                                             *)

sched_acquire(c) ==
  /\ ctx[c] = None /\ scan[c] = 0 /\ ptlock = None
  /\ ptlock' = c
  /\ scan' = [scan EXCEPT ![c] = 1]
  /\ UNCHANGED <<lk, flag, state, pc, back, ctx>>

Runnable(c) == {p \in Proc : p >= scan[c] /\ state[p] = "RUNNABLE"}

sched_run_Restarts(c, p) ==
  /\ ctx[c] = None /\ scan[c] # 0 /\ p \in Runnable(c)
  /\ \A q \in Runnable(c) : p <= q
  /\ state' = [state EXCEPT ![p] = "RUNNING"]
  /\ ctx' = [ctx EXCEPT ![c] = p]
  /\ scan' = [scan EXCEPT ![c] = 1]
  /\ UNCHANGED <<ptlock, lk, flag, pc, back>>

\* The next RUNNABLE slot: proc = p; p->state = RUNNING; swtch.
sched_run(c, p) ==
  /\ ctx[c] = None /\ scan[c] # 0 /\ p \in Runnable(c)
  /\ \A q \in Runnable(c) : p <= q
  /\ state' = [state EXCEPT ![p] = "RUNNING"]
  /\ ctx' = [ctx EXCEPT ![c] = p]
  /\ scan' = [scan EXCEPT ![c] = p + 1]
  /\ UNCHANGED <<ptlock, lk, flag, pc, back>>

sched_release(c) ==
  /\ ctx[c] = None /\ scan[c] # 0 /\ Runnable(c) = {}
  /\ ptlock' = None
  /\ scan' = [scan EXCEPT ![c] = 0]
  /\ UNCHANGED <<lk, flag, state, pc, back, ctx>>

\* sched(): swtch to the scheduler of this CPU, which holds on to ptable.lock.
sched(c, p) ==
  /\ \/ Step(c, p, "sleepsw", "slept")
     \/ Step(c, p, "yieldsw", "yielded")
  /\ ctx' = [ctx EXCEPT ![c] = None]
  /\ UNCHANGED <<ptlock, lk, flag, state, scan>>

\* The process resumes: it releases the lock its CPU's scheduler acquired.
forkret(c, p) ==
  /\ Step(c, p, "forkret", "user")
  /\ ptlock' = None
  /\ UNCHANGED <<lk, flag, state, ctx, scan>>

-----------------------------------------------------------------------------
(* yield(), from the timer interrupt                                       *)

yield_acquire(c, p) ==
  /\ Enter(c, p, "yield1")
  /\ ptlock = None /\ ptlock' = c
  /\ UNCHANGED <<lk, flag, state, ctx, scan>>

yield_state(c, p) ==
  /\ Step(c, p, "yield1", "yieldsw")
  /\ state' = [state EXCEPT ![p] = "RUNNABLE"]
  /\ UNCHANGED <<ptlock, lk, flag, ctx, scan>>

yield_return(c, p) ==
  /\ Leave(c, p, "yielded")
  /\ ptlock' = None
  /\ UNCHANGED <<lk, flag, state, ctx, scan>>

-----------------------------------------------------------------------------
(* The waiter, and sleep()                                                 *)

wait_acquire(c, p) ==
  /\ Step(c, p, "user", "test")
  /\ lk = None /\ lk' = c
  /\ UNCHANGED <<ptlock, flag, state, ctx, scan>>

wait_go(c, p) ==
  /\ flag /\ Step(c, p, "test", "user")
  /\ flag' = FALSE
  /\ lk' = None
  /\ UNCHANGED <<ptlock, state, ctx, scan>>

wait_sleep_UnlocksFirst(c, p) ==
  /\ ~flag /\ Step(c, p, "test", "sleep1")
  /\ lk' = None
  /\ UNCHANGED <<ptlock, flag, state, ctx, scan>>

wait_sleep(c, p) ==
  /\ ~flag /\ Step(c, p, "test", "sleep1")
  /\ UNCHANGED <<ptlock, lk, flag, state, ctx, scan>>

\* acquire(&ptable.lock)
sleep_acquire(c, p) ==
  /\ Step(c, p, "sleep1", "sleep2")
  /\ ptlock = None /\ ptlock' = c
  /\ UNCHANGED <<lk, flag, state, ctx, scan>>

\* release(lk)
sleep_release(c, p) ==
  /\ Step(c, p, "sleep2", "sleep3")
  /\ lk' = None
  /\ UNCHANGED <<ptlock, flag, state, ctx, scan>>

sleep_state_UnlocksEarly(c, p) ==
  /\ Step(c, p, "sleep3", "sleepsw")
  /\ state' = [state EXCEPT ![p] = "SLEEPING"]
  /\ ptlock' = None
  /\ UNCHANGED <<lk, flag, ctx, scan>>

\* proc->chan = chan; proc->state = SLEEPING
sleep_state(c, p) ==
  /\ Step(c, p, "sleep3", "sleepsw")
  /\ state' = [state EXCEPT ![p] = "SLEEPING"]
  /\ UNCHANGED <<ptlock, lk, flag, ctx, scan>>

\* proc->chan = 0; release(&ptable.lock)
sleep_return(c, p) ==
  /\ Step(c, p, "slept", "retake")
  /\ ptlock' = None
  /\ UNCHANGED <<lk, flag, state, ctx, scan>>

\* acquire(lk)
sleep_retake(c, p) ==
  /\ Step(c, p, "retake", "test")
  /\ lk = None /\ lk' = c
  /\ UNCHANGED <<ptlock, flag, state, ctx, scan>>

-----------------------------------------------------------------------------
(* The waker, and wakeup()                                                 *)

wake_acquire(c, p) ==
  /\ Enter(c, p, "set")
  /\ lk = None /\ lk' = c
  /\ UNCHANGED <<ptlock, flag, state, ctx, scan>>

wake_set(c, p) ==
  /\ Step(c, p, "set", "wakeup1")
  /\ flag' = TRUE
  /\ UNCHANGED <<ptlock, lk, state, ctx, scan>>

wakeup_acquire(c, p) ==
  /\ Step(c, p, "wakeup1", "wakeup2")
  /\ ptlock = None /\ ptlock' = c
  /\ UNCHANGED <<lk, flag, state, ctx, scan>>

wakeup1(c, p) ==
  /\ Step(c, p, "wakeup2", "wakeup3")
  /\ state' = [q \in Proc |-> IF state[q] = "SLEEPING" THEN "RUNNABLE" ELSE state[q]]
  /\ UNCHANGED <<ptlock, lk, flag, ctx, scan>>

wakeup_release(c, p) ==
  /\ Step(c, p, "wakeup3", "unlock")
  /\ ptlock' = None
  /\ UNCHANGED <<lk, flag, state, ctx, scan>>

wake_release(c, p) ==
  /\ Leave(c, p, "unlock")
  /\ lk' = None
  /\ UNCHANGED <<ptlock, flag, state, ctx, scan>>

-----------------------------------------------------------------------------
scheduler(c) ==
  sched_acquire(c) \/ (\E p \in Proc : sched_run(c, p)) \/ sched_release(c)

yield(c, p) == yield_state(c, p) \/ yield_return(c, p)

sleep(c, p) ==
  \/ wait_go(c, p) \/ wait_sleep(c, p)
  \/ sleep_acquire(c, p) \/ sleep_release(c, p) \/ sleep_state(c, p)
  \/ sleep_return(c, p) \/ sleep_retake(c, p)

wakeup(c, p) ==
  \/ wake_set(c, p) \/ wakeup_acquire(c, p) \/ wakeup1(c, p)
  \/ wakeup_release(c, p) \/ wake_release(c, p)

\* What the kernel thread must go on with, as opposed to what it may start.
Continue(c, p) == sched(c, p) \/ forkret(c, p) \/ yield(c, p) \/ sleep(c, p) \/ wakeup(c, p)

Next ==
  \E c \in CPU :
    \/ scheduler(c)
    \/ \E p \in Proc :
         \/ Continue(c, p)
         \/ yield_acquire(c, p) \/ wait_acquire(c, p) \/ wake_acquire(c, p)

Spec == Init /\ [][Next]_vars

-----------------------------------------------------------------------------
(* Properties.                                                             *)

\* Every variable has its type.
TypeOK ==
  /\ ptlock \in CPU \union {None} /\ lk \in CPU \union {None}
  /\ flag \in BOOLEAN
  /\ state \in [Proc -> {"RUNNABLE", "RUNNING", "SLEEPING"}]
  /\ pc \in [Proc -> PC] /\ back \in [Proc -> Interruptible]
  /\ ctx \in [CPU -> Proc \union {None}]
  /\ scan \in [CPU -> 0 .. NPROC + 1]

\* No two CPUs ever execute the same process, that is use the same kernel stack,
\* and a process that no CPU executes is suspended inside swtch, in a context
\* that can be resumed.  A sleeper is put to sleep, or made runnable, while its
\* own CPU is still on its stack; only the passing of ptable.lock through swtch
\* keeps the other CPUs away.
OneCpuPerProcess ==
  /\ \A c, d \in CPU : ctx[c] = ctx[d] /\ ctx[c] # None => c = d
  /\ \A p \in Proc : (\A c \in CPU : ctx[c] # p) => pc[p] \in Saved /\ state[p] # "RUNNING"

\* Code between acquire and release of ptable.lock, or of lk.
HasPtlock == Saved \union InSwtch
             \union {"yield1", "sleep2", "sleep3", "wakeup2", "wakeup3"}
HasLk == {"test", "sleep1", "sleep2", "set", "wakeup1", "wakeup2", "wakeup3", "unlock"}

\* Whoever believes to hold a lock does, on the CPU recorded in it, also when
\* another process or the scheduler acquired it before a swtch; and a process
\* enters sched() holding ptable.lock and nothing else, no longer RUNNING (the
\* panics of sched(): "Must hold only ptable.lock and have changed proc->state").
LockDiscipline ==
  \A c \in CPU :
    /\ ptlock = c <=> IF ctx[c] = None THEN scan[c] # 0 ELSE pc[ctx[c]] \in HasPtlock
    /\ lk = c <=> ctx[c] # None /\ pc[ctx[c]] \in HasLk
    /\ ctx[c] # None /\ pc[ctx[c]] \in InSwtch => lk # c /\ state[ctx[c]] # "RUNNING"

\* "we can be guaranteed that we won't miss any wakeup": while the flag is set no
\* process sleeps, or is past its test of the flag and about to, except while
\* the waker that set the flag has still to call wakeup1.
NoMissedWakeup ==
  flag /\ (\E p \in Proc : state[p] = "SLEEPING" \/ pc[p] \in {"sleep1", "sleep2", "sleep3"})
    => \E q \in Proc : pc[q] \in {"wakeup1", "wakeup2"}

\* The strengthening that makes these three inductive: a process is RUNNING from
\* the scheduler's swtch to its own, and what it was set to between its last
\* assignment to proc->state and its swtch; it sleeps in sleep() only.
Executing ==
  /\ \A c \in CPU : ctx[c] # None =>
       /\ scan[c] # 0
       /\ pc[ctx[c]] = "sleepsw" => state[ctx[c]] = "SLEEPING"
       /\ pc[ctx[c]] = "yieldsw" => state[ctx[c]] = "RUNNABLE"
       /\ pc[ctx[c]] \notin InSwtch => state[ctx[c]] = "RUNNING"
  /\ \A p \in Proc : state[p] = "SLEEPING" => pc[p] \in {"sleepsw", "slept"}

SchedInv == TypeOK /\ OneCpuPerProcess /\ LockDiscipline /\ Executing /\ NoMissedWakeup

\* A process that can run is run, whatever the others do.
RunnableRuns == \A p \in Proc : state[p] = "RUNNABLE" ~> state[p] = "RUNNING"

\* A process that sleeps while the flag is set is made runnable.
SleeperWakes ==
  \A p \in Proc : (flag /\ state[p] = "SLEEPING") ~> state[p] # "SLEEPING"
=============================================================================

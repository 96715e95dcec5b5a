---------------------------- MODULE SchedProofs -----------------------------
(***************************************************************************)
(* The safety properties of Sched, for every number of processes and CPUs. *)
(* SchedInv is inductive; each of its parts needs the type invariant, and  *)
(* OneCpuPerProcess, LockDiscipline and Executing need one another.        *)
(***************************************************************************)
EXTENDS Sched, TLAPS

\* Every step preserves the type invariant.
LEMMA TypeStep ==
  ASSUME TypeOK, [Next]_vars
  PROVE  TypeOK'
<1> USE SchedAssumption DEF Proc, PC, Interruptible
<1>1. ASSUME NEW c \in CPU, sched_acquire(c) PROVE TypeOK'
  BY <1>1 DEF sched_acquire, TypeOK
<1>2. ASSUME NEW c \in CPU, NEW p \in Proc, sched_run(c, p) PROVE TypeOK'
  BY <1>2 DEF sched_run, Runnable, TypeOK
<1>3. ASSUME NEW c \in CPU, sched_release(c) PROVE TypeOK'
  BY <1>3 DEF sched_release, TypeOK
<1>4. ASSUME NEW c \in CPU, NEW p \in Proc, sched(c, p) PROVE TypeOK'
  BY <1>4 DEF sched, Step, TypeOK
<1>5. ASSUME NEW c \in CPU, NEW p \in Proc, forkret(c, p) PROVE TypeOK'
  BY <1>5 DEF forkret, Step, TypeOK
<1>6. ASSUME NEW c \in CPU, NEW p \in Proc, yield_state(c, p) PROVE TypeOK'
  BY <1>6 DEF yield_state, Step, TypeOK
<1>7. ASSUME NEW c \in CPU, NEW p \in Proc, yield_return(c, p) PROVE TypeOK'
  BY <1>7 DEF yield_return, Leave, TypeOK
<1>8. ASSUME NEW c \in CPU, NEW p \in Proc, wait_go(c, p) PROVE TypeOK'
  BY <1>8 DEF wait_go, Step, TypeOK
<1>9. ASSUME NEW c \in CPU, NEW p \in Proc, wait_sleep(c, p) PROVE TypeOK'
  BY <1>9 DEF wait_sleep, Step, TypeOK
<1>10. ASSUME NEW c \in CPU, NEW p \in Proc, sleep_acquire(c, p) PROVE TypeOK'
  BY <1>10 DEF sleep_acquire, Step, TypeOK
<1>11. ASSUME NEW c \in CPU, NEW p \in Proc, sleep_release(c, p) PROVE TypeOK'
  BY <1>11 DEF sleep_release, Step, TypeOK
<1>12. ASSUME NEW c \in CPU, NEW p \in Proc, sleep_state(c, p) PROVE TypeOK'
  BY <1>12 DEF sleep_state, Step, TypeOK
<1>13. ASSUME NEW c \in CPU, NEW p \in Proc, sleep_return(c, p) PROVE TypeOK'
  BY <1>13 DEF sleep_return, Step, TypeOK
<1>14. ASSUME NEW c \in CPU, NEW p \in Proc, sleep_retake(c, p) PROVE TypeOK'
  BY <1>14 DEF sleep_retake, Step, TypeOK
<1>15. ASSUME NEW c \in CPU, NEW p \in Proc, wake_set(c, p) PROVE TypeOK'
  BY <1>15 DEF wake_set, Step, TypeOK
<1>16. ASSUME NEW c \in CPU, NEW p \in Proc, wakeup_acquire(c, p) PROVE TypeOK'
  BY <1>16 DEF wakeup_acquire, Step, TypeOK
<1>17. ASSUME NEW c \in CPU, NEW p \in Proc, wakeup1(c, p) PROVE TypeOK'
  BY <1>17 DEF wakeup1, Step, TypeOK
<1>18. ASSUME NEW c \in CPU, NEW p \in Proc, wakeup_release(c, p) PROVE TypeOK'
  BY <1>18 DEF wakeup_release, Step, TypeOK
<1>19. ASSUME NEW c \in CPU, NEW p \in Proc, wake_release(c, p) PROVE TypeOK'
  BY <1>19 DEF wake_release, Leave, TypeOK
<1>20. ASSUME NEW c \in CPU, NEW p \in Proc, yield_acquire(c, p) PROVE TypeOK'
  BY <1>20 DEF yield_acquire, Enter, TypeOK
<1>21. ASSUME NEW c \in CPU, NEW p \in Proc, wait_acquire(c, p) PROVE TypeOK'
  BY <1>21 DEF wait_acquire, Step, TypeOK
<1>22. ASSUME NEW c \in CPU, NEW p \in Proc, wake_acquire(c, p) PROVE TypeOK'
  BY <1>22 DEF wake_acquire, Enter, TypeOK
<1>23. CASE UNCHANGED vars
  BY <1>23 DEF vars, TypeOK
<1>24. QED
  BY <1>1, <1>2, <1>3, <1>4, <1>5, <1>6, <1>7, <1>8, <1>9, <1>10, <1>11, <1>12, <1>13, <1>14, <1>15, <1>16, <1>17, <1>18, <1>19, <1>20, <1>21, <1>22, <1>23
  DEF Next, scheduler, Continue, yield, sleep, wakeup

\* Every step preserves that a process is on one CPU at most.
LEMMA CpuStep ==
  ASSUME TypeOK, OneCpuPerProcess, LockDiscipline, Executing, [Next]_vars
  PROVE  OneCpuPerProcess'
<1> USE SchedAssumption DEF Proc, Saved, InSwtch, HasPtlock, HasLk, Interruptible
<1>1. ASSUME NEW c \in CPU, sched_acquire(c) PROVE OneCpuPerProcess'
  BY <1>1 DEF sched_acquire, TypeOK, OneCpuPerProcess, LockDiscipline, Executing
<1>2. ASSUME NEW c \in CPU, NEW p \in Proc, sched_run(c, p) PROVE OneCpuPerProcess'
  BY <1>2 DEF sched_run, Runnable, TypeOK, OneCpuPerProcess, LockDiscipline, Executing
<1>3. ASSUME NEW c \in CPU, sched_release(c) PROVE OneCpuPerProcess'
  BY <1>3 DEF sched_release, TypeOK, OneCpuPerProcess, LockDiscipline, Executing
<1>4. ASSUME NEW c \in CPU, NEW p \in Proc, sched(c, p) PROVE OneCpuPerProcess'
  <2>1. CASE Step(c, p, "sleepsw", "slept")
    BY <1>4, <2>1 DEF sched, Step, TypeOK, OneCpuPerProcess, LockDiscipline, Executing
  <2>2. CASE Step(c, p, "yieldsw", "yielded")
    BY <1>4, <2>2 DEF sched, Step, TypeOK, OneCpuPerProcess, LockDiscipline, Executing
  <2>3. QED
    BY <1>4, <2>1, <2>2 DEF sched
<1>5. ASSUME NEW c \in CPU, NEW p \in Proc, forkret(c, p) PROVE OneCpuPerProcess'
  BY <1>5 DEF forkret, Step, TypeOK, OneCpuPerProcess, LockDiscipline, Executing
<1>6. ASSUME NEW c \in CPU, NEW p \in Proc, yield_state(c, p) PROVE OneCpuPerProcess'
  BY <1>6 DEF yield_state, Step, TypeOK, OneCpuPerProcess, LockDiscipline, Executing
<1>7. ASSUME NEW c \in CPU, NEW p \in Proc, yield_return(c, p) PROVE OneCpuPerProcess'
  BY <1>7 DEF yield_return, Leave, TypeOK, OneCpuPerProcess, LockDiscipline, Executing
<1>8. ASSUME NEW c \in CPU, NEW p \in Proc, wait_go(c, p) PROVE OneCpuPerProcess'
  BY <1>8 DEF wait_go, Step, TypeOK, OneCpuPerProcess, LockDiscipline, Executing
<1>9. ASSUME NEW c \in CPU, NEW p \in Proc, wait_sleep(c, p) PROVE OneCpuPerProcess'
  BY <1>9 DEF wait_sleep, Step, TypeOK, OneCpuPerProcess, LockDiscipline, Executing
<1>10. ASSUME NEW c \in CPU, NEW p \in Proc, sleep_acquire(c, p) PROVE OneCpuPerProcess'
  BY <1>10 DEF sleep_acquire, Step, TypeOK, OneCpuPerProcess, LockDiscipline, Executing
<1>11. ASSUME NEW c \in CPU, NEW p \in Proc, sleep_release(c, p) PROVE OneCpuPerProcess'
  BY <1>11 DEF sleep_release, Step, TypeOK, OneCpuPerProcess, LockDiscipline, Executing
<1>12. ASSUME NEW c \in CPU, NEW p \in Proc, sleep_state(c, p) PROVE OneCpuPerProcess'
  BY <1>12 DEF sleep_state, Step, TypeOK, OneCpuPerProcess, LockDiscipline, Executing
<1>13. ASSUME NEW c \in CPU, NEW p \in Proc, sleep_return(c, p) PROVE OneCpuPerProcess'
  BY <1>13 DEF sleep_return, Step, TypeOK, OneCpuPerProcess, LockDiscipline, Executing
<1>14. ASSUME NEW c \in CPU, NEW p \in Proc, sleep_retake(c, p) PROVE OneCpuPerProcess'
  BY <1>14 DEF sleep_retake, Step, TypeOK, OneCpuPerProcess, LockDiscipline, Executing
<1>15. ASSUME NEW c \in CPU, NEW p \in Proc, wake_set(c, p) PROVE OneCpuPerProcess'
  BY <1>15 DEF wake_set, Step, TypeOK, OneCpuPerProcess, LockDiscipline, Executing
<1>16. ASSUME NEW c \in CPU, NEW p \in Proc, wakeup_acquire(c, p) PROVE OneCpuPerProcess'
  BY <1>16 DEF wakeup_acquire, Step, TypeOK, OneCpuPerProcess, LockDiscipline, Executing
<1>17. ASSUME NEW c \in CPU, NEW p \in Proc, wakeup1(c, p) PROVE OneCpuPerProcess'
  BY <1>17 DEF wakeup1, Step, TypeOK, OneCpuPerProcess, LockDiscipline, Executing
<1>18. ASSUME NEW c \in CPU, NEW p \in Proc, wakeup_release(c, p) PROVE OneCpuPerProcess'
  BY <1>18 DEF wakeup_release, Step, TypeOK, OneCpuPerProcess, LockDiscipline, Executing
<1>19. ASSUME NEW c \in CPU, NEW p \in Proc, wake_release(c, p) PROVE OneCpuPerProcess'
  BY <1>19 DEF wake_release, Leave, TypeOK, OneCpuPerProcess, LockDiscipline, Executing
<1>20. ASSUME NEW c \in CPU, NEW p \in Proc, yield_acquire(c, p) PROVE OneCpuPerProcess'
  BY <1>20 DEF yield_acquire, Enter, TypeOK, OneCpuPerProcess, LockDiscipline, Executing
<1>21. ASSUME NEW c \in CPU, NEW p \in Proc, wait_acquire(c, p) PROVE OneCpuPerProcess'
  BY <1>21 DEF wait_acquire, Step, TypeOK, OneCpuPerProcess, LockDiscipline, Executing
<1>22. ASSUME NEW c \in CPU, NEW p \in Proc, wake_acquire(c, p) PROVE OneCpuPerProcess'
  BY <1>22 DEF wake_acquire, Enter, TypeOK, OneCpuPerProcess, LockDiscipline, Executing
<1>23. CASE UNCHANGED vars
  BY <1>23 DEF vars, TypeOK, OneCpuPerProcess, LockDiscipline, Executing
<1>24. QED
  BY <1>1, <1>2, <1>3, <1>4, <1>5, <1>6, <1>7, <1>8, <1>9, <1>10, <1>11, <1>12, <1>13, <1>14, <1>15, <1>16, <1>17, <1>18, <1>19, <1>20, <1>21, <1>22, <1>23
  DEF Next, scheduler, Continue, yield, sleep, wakeup

\* Every step preserves the lock discipline.
LEMMA LockStep ==
  ASSUME TypeOK, OneCpuPerProcess, LockDiscipline, Executing, [Next]_vars
  PROVE  LockDiscipline'
<1> USE SchedAssumption DEF Proc, Saved, InSwtch, HasPtlock, HasLk, Interruptible
<1>1. ASSUME NEW c \in CPU, sched_acquire(c) PROVE LockDiscipline'
  BY <1>1 DEF sched_acquire, TypeOK, OneCpuPerProcess, LockDiscipline, Executing
<1>2. ASSUME NEW c \in CPU, NEW p \in Proc, sched_run(c, p) PROVE LockDiscipline'
  BY <1>2 DEF sched_run, Runnable, TypeOK, OneCpuPerProcess, LockDiscipline, Executing
<1>3. ASSUME NEW c \in CPU, sched_release(c) PROVE LockDiscipline'
  BY <1>3 DEF sched_release, TypeOK, OneCpuPerProcess, LockDiscipline, Executing
<1>4. ASSUME NEW c \in CPU, NEW p \in Proc, sched(c, p) PROVE LockDiscipline'
  BY <1>4 DEF sched, Step, TypeOK, OneCpuPerProcess, LockDiscipline, Executing
<1>5. ASSUME NEW c \in CPU, NEW p \in Proc, forkret(c, p) PROVE LockDiscipline'
  BY <1>5 DEF forkret, Step, TypeOK, OneCpuPerProcess, LockDiscipline, Executing
<1>6. ASSUME NEW c \in CPU, NEW p \in Proc, yield_state(c, p) PROVE LockDiscipline'
  BY <1>6 DEF yield_state, Step, TypeOK, OneCpuPerProcess, LockDiscipline, Executing
<1>7. ASSUME NEW c \in CPU, NEW p \in Proc, yield_return(c, p) PROVE LockDiscipline'
  <2>1. PICK m \in Interruptible : pc' = [pc EXCEPT ![p] = m]
    BY <1>7 DEF yield_return, Leave, Step, TypeOK
  <2>2. QED
    BY <1>7, <2>1 DEF yield_return, Leave, Step, TypeOK, OneCpuPerProcess, LockDiscipline, Executing
<1>8. ASSUME NEW c \in CPU, NEW p \in Proc, wait_go(c, p) PROVE LockDiscipline'
  BY <1>8 DEF wait_go, Step, TypeOK, OneCpuPerProcess, LockDiscipline, Executing
<1>9. ASSUME NEW c \in CPU, NEW p \in Proc, wait_sleep(c, p) PROVE LockDiscipline'
  BY <1>9 DEF wait_sleep, Step, TypeOK, OneCpuPerProcess, LockDiscipline, Executing
<1>10. ASSUME NEW c \in CPU, NEW p \in Proc, sleep_acquire(c, p) PROVE LockDiscipline'
  BY <1>10 DEF sleep_acquire, Step, TypeOK, OneCpuPerProcess, LockDiscipline, Executing
<1>11. ASSUME NEW c \in CPU, NEW p \in Proc, sleep_release(c, p) PROVE LockDiscipline'
  BY <1>11 DEF sleep_release, Step, TypeOK, OneCpuPerProcess, LockDiscipline, Executing
<1>12. ASSUME NEW c \in CPU, NEW p \in Proc, sleep_state(c, p) PROVE LockDiscipline'
  BY <1>12 DEF sleep_state, Step, TypeOK, OneCpuPerProcess, LockDiscipline, Executing
<1>13. ASSUME NEW c \in CPU, NEW p \in Proc, sleep_return(c, p) PROVE LockDiscipline'
  BY <1>13 DEF sleep_return, Step, TypeOK, OneCpuPerProcess, LockDiscipline, Executing
<1>14. ASSUME NEW c \in CPU, NEW p \in Proc, sleep_retake(c, p) PROVE LockDiscipline'
  BY <1>14 DEF sleep_retake, Step, TypeOK, OneCpuPerProcess, LockDiscipline, Executing
<1>15. ASSUME NEW c \in CPU, NEW p \in Proc, wake_set(c, p) PROVE LockDiscipline'
  BY <1>15 DEF wake_set, Step, TypeOK, OneCpuPerProcess, LockDiscipline, Executing
<1>16. ASSUME NEW c \in CPU, NEW p \in Proc, wakeup_acquire(c, p) PROVE LockDiscipline'
  BY <1>16 DEF wakeup_acquire, Step, TypeOK, OneCpuPerProcess, LockDiscipline, Executing
<1>17. ASSUME NEW c \in CPU, NEW p \in Proc, wakeup1(c, p) PROVE LockDiscipline'
  BY <1>17 DEF wakeup1, Step, TypeOK, OneCpuPerProcess, LockDiscipline, Executing
<1>18. ASSUME NEW c \in CPU, NEW p \in Proc, wakeup_release(c, p) PROVE LockDiscipline'
  BY <1>18 DEF wakeup_release, Step, TypeOK, OneCpuPerProcess, LockDiscipline, Executing
<1>19. ASSUME NEW c \in CPU, NEW p \in Proc, wake_release(c, p) PROVE LockDiscipline'
  <2>1. PICK m \in Interruptible : pc' = [pc EXCEPT ![p] = m]
    BY <1>19 DEF wake_release, Leave, Step, TypeOK
  <2>2. QED
    BY <1>19, <2>1 DEF wake_release, Leave, Step, TypeOK, OneCpuPerProcess, LockDiscipline, Executing
<1>20. ASSUME NEW c \in CPU, NEW p \in Proc, yield_acquire(c, p) PROVE LockDiscipline'
  BY <1>20 DEF yield_acquire, Enter, TypeOK, OneCpuPerProcess, LockDiscipline, Executing
<1>21. ASSUME NEW c \in CPU, NEW p \in Proc, wait_acquire(c, p) PROVE LockDiscipline'
  BY <1>21 DEF wait_acquire, Step, TypeOK, OneCpuPerProcess, LockDiscipline, Executing
<1>22. ASSUME NEW c \in CPU, NEW p \in Proc, wake_acquire(c, p) PROVE LockDiscipline'
  BY <1>22 DEF wake_acquire, Enter, TypeOK, OneCpuPerProcess, LockDiscipline, Executing
<1>23. CASE UNCHANGED vars
  BY <1>23 DEF vars, TypeOK, OneCpuPerProcess, LockDiscipline, Executing
<1>24. QED
  BY <1>1, <1>2, <1>3, <1>4, <1>5, <1>6, <1>7, <1>8, <1>9, <1>10, <1>11, <1>12, <1>13, <1>14, <1>15, <1>16, <1>17, <1>18, <1>19, <1>20, <1>21, <1>22, <1>23
  DEF Next, scheduler, Continue, yield, sleep, wakeup

\* Every step preserves what is known of the executing processes.
LEMMA ExecutingStep ==
  ASSUME TypeOK, OneCpuPerProcess, LockDiscipline, Executing, [Next]_vars
  PROVE  Executing'
<1> USE SchedAssumption DEF Proc, Saved, InSwtch, HasPtlock, HasLk, Interruptible
<1>1. ASSUME NEW c \in CPU, sched_acquire(c) PROVE Executing'
  BY <1>1 DEF sched_acquire, TypeOK, OneCpuPerProcess, LockDiscipline, Executing
<1>2. ASSUME NEW c \in CPU, NEW p \in Proc, sched_run(c, p) PROVE Executing'
  <2>1. \A d \in CPU : ctx[d] # p
    BY <1>2 DEF sched_run, Runnable, TypeOK, LockDiscipline, Executing
  <2>2. pc[p] \in Saved
    BY <2>1 DEF OneCpuPerProcess
  <2>3. ASSUME NEW d \in CPU, ctx'[d] # None
        PROVE  /\ scan'[d] # 0
               /\ pc'[ctx'[d]] = "sleepsw" => state'[ctx'[d]] = "SLEEPING"
               /\ pc'[ctx'[d]] = "yieldsw" => state'[ctx'[d]] = "RUNNABLE"
               /\ pc'[ctx'[d]] \notin InSwtch => state'[ctx'[d]] = "RUNNING"
    <3>1. CASE d = c
      BY <1>2, <2>2, <3>1 DEF sched_run, TypeOK
    <3>2. CASE d # c
      BY <1>2, <2>1, <2>3, <3>2 DEF sched_run, TypeOK, Executing
    <3>3. QED
      BY <3>1, <3>2
  <2>4. \A q \in Proc : state'[q] = "SLEEPING" => pc'[q] \in {"sleepsw", "slept"}
    BY <1>2 DEF sched_run, TypeOK, Executing
  <2>5. QED
    BY <2>3, <2>4 DEF Executing
<1>3. ASSUME NEW c \in CPU, sched_release(c) PROVE Executing'
  BY <1>3 DEF sched_release, TypeOK, OneCpuPerProcess, LockDiscipline, Executing
<1>4. ASSUME NEW c \in CPU, NEW p \in Proc, sched(c, p) PROVE Executing'
  <2>1. CASE Step(c, p, "sleepsw", "slept")
    BY <1>4, <2>1 DEF sched, Step, TypeOK, OneCpuPerProcess, LockDiscipline, Executing
  <2>2. CASE Step(c, p, "yieldsw", "yielded")
    BY <1>4, <2>2 DEF sched, Step, TypeOK, OneCpuPerProcess, LockDiscipline, Executing
  <2>3. QED
    BY <1>4, <2>1, <2>2 DEF sched
<1>5. ASSUME NEW c \in CPU, NEW p \in Proc, forkret(c, p) PROVE Executing'
  BY <1>5 DEF forkret, Step, TypeOK, OneCpuPerProcess, LockDiscipline, Executing
<1>6. ASSUME NEW c \in CPU, NEW p \in Proc, yield_state(c, p) PROVE Executing'
  BY <1>6 DEF yield_state, Step, TypeOK, OneCpuPerProcess, LockDiscipline, Executing
<1>7. ASSUME NEW c \in CPU, NEW p \in Proc, yield_return(c, p) PROVE Executing'
  <2>1. PICK m \in Interruptible : pc' = [pc EXCEPT ![p] = m]
    BY <1>7 DEF yield_return, Leave, Step, TypeOK
  <2>2. QED
    BY <1>7, <2>1 DEF yield_return, Leave, Step, TypeOK, OneCpuPerProcess, LockDiscipline, Executing
<1>8. ASSUME NEW c \in CPU, NEW p \in Proc, wait_go(c, p) PROVE Executing'
  BY <1>8 DEF wait_go, Step, TypeOK, OneCpuPerProcess, LockDiscipline, Executing
<1>9. ASSUME NEW c \in CPU, NEW p \in Proc, wait_sleep(c, p) PROVE Executing'
  BY <1>9 DEF wait_sleep, Step, TypeOK, OneCpuPerProcess, LockDiscipline, Executing
<1>10. ASSUME NEW c \in CPU, NEW p \in Proc, sleep_acquire(c, p) PROVE Executing'
  BY <1>10 DEF sleep_acquire, Step, TypeOK, OneCpuPerProcess, LockDiscipline, Executing
<1>11. ASSUME NEW c \in CPU, NEW p \in Proc, sleep_release(c, p) PROVE Executing'
  BY <1>11 DEF sleep_release, Step, TypeOK, OneCpuPerProcess, LockDiscipline, Executing
<1>12. ASSUME NEW c \in CPU, NEW p \in Proc, sleep_state(c, p) PROVE Executing'
  BY <1>12 DEF sleep_state, Step, TypeOK, OneCpuPerProcess, LockDiscipline, Executing
<1>13. ASSUME NEW c \in CPU, NEW p \in Proc, sleep_return(c, p) PROVE Executing'
  BY <1>13 DEF sleep_return, Step, TypeOK, OneCpuPerProcess, LockDiscipline, Executing
<1>14. ASSUME NEW c \in CPU, NEW p \in Proc, sleep_retake(c, p) PROVE Executing'
  BY <1>14 DEF sleep_retake, Step, TypeOK, OneCpuPerProcess, LockDiscipline, Executing
<1>15. ASSUME NEW c \in CPU, NEW p \in Proc, wake_set(c, p) PROVE Executing'
  BY <1>15 DEF wake_set, Step, TypeOK, OneCpuPerProcess, LockDiscipline, Executing
<1>16. ASSUME NEW c \in CPU, NEW p \in Proc, wakeup_acquire(c, p) PROVE Executing'
  BY <1>16 DEF wakeup_acquire, Step, TypeOK, OneCpuPerProcess, LockDiscipline, Executing
<1>17. ASSUME NEW c \in CPU, NEW p \in Proc, wakeup1(c, p) PROVE Executing'
  BY <1>17 DEF wakeup1, Step, TypeOK, OneCpuPerProcess, LockDiscipline, Executing
<1>18. ASSUME NEW c \in CPU, NEW p \in Proc, wakeup_release(c, p) PROVE Executing'
  BY <1>18 DEF wakeup_release, Step, TypeOK, OneCpuPerProcess, LockDiscipline, Executing
<1>19. ASSUME NEW c \in CPU, NEW p \in Proc, wake_release(c, p) PROVE Executing'
  <2>1. PICK m \in Interruptible : pc' = [pc EXCEPT ![p] = m]
    BY <1>19 DEF wake_release, Leave, Step, TypeOK
  <2>2. QED
    BY <1>19, <2>1 DEF wake_release, Leave, Step, TypeOK, OneCpuPerProcess, LockDiscipline, Executing
<1>20. ASSUME NEW c \in CPU, NEW p \in Proc, yield_acquire(c, p) PROVE Executing'
  BY <1>20 DEF yield_acquire, Enter, TypeOK, OneCpuPerProcess, LockDiscipline, Executing
<1>21. ASSUME NEW c \in CPU, NEW p \in Proc, wait_acquire(c, p) PROVE Executing'
  BY <1>21 DEF wait_acquire, Step, TypeOK, OneCpuPerProcess, LockDiscipline, Executing
<1>22. ASSUME NEW c \in CPU, NEW p \in Proc, wake_acquire(c, p) PROVE Executing'
  BY <1>22 DEF wake_acquire, Enter, TypeOK, OneCpuPerProcess, LockDiscipline, Executing
<1>23. CASE UNCHANGED vars
  BY <1>23 DEF vars, TypeOK, OneCpuPerProcess, LockDiscipline, Executing
<1>24. QED
  BY <1>1, <1>2, <1>3, <1>4, <1>5, <1>6, <1>7, <1>8, <1>9, <1>10, <1>11, <1>12, <1>13, <1>14, <1>15, <1>16, <1>17, <1>18, <1>19, <1>20, <1>21, <1>22, <1>23
  DEF Next, scheduler, Continue, yield, sleep, wakeup

\* Every step preserves that no wakeup is missed.
LEMMA WakeupStep ==
  ASSUME TypeOK, OneCpuPerProcess, LockDiscipline, Executing, NoMissedWakeup, [Next]_vars
  PROVE  NoMissedWakeup'
<1> USE SchedAssumption DEF Proc, Saved, InSwtch, HasPtlock, HasLk, Interruptible
<1>1. ASSUME NEW c \in CPU, sched_acquire(c) PROVE NoMissedWakeup'
  BY <1>1 DEF sched_acquire, TypeOK, OneCpuPerProcess, LockDiscipline, Executing, NoMissedWakeup
<1>2. ASSUME NEW c \in CPU, NEW p \in Proc, sched_run(c, p) PROVE NoMissedWakeup'
  BY <1>2 DEF sched_run, Runnable, TypeOK, OneCpuPerProcess, LockDiscipline, Executing, NoMissedWakeup
<1>3. ASSUME NEW c \in CPU, sched_release(c) PROVE NoMissedWakeup'
  BY <1>3 DEF sched_release, TypeOK, OneCpuPerProcess, LockDiscipline, Executing, NoMissedWakeup
<1>4. ASSUME NEW c \in CPU, NEW p \in Proc, sched(c, p) PROVE NoMissedWakeup'
  <2>1. CASE Step(c, p, "sleepsw", "slept")
    BY <1>4, <2>1 DEF sched, Step, TypeOK, OneCpuPerProcess, LockDiscipline, Executing, NoMissedWakeup
  <2>2. CASE Step(c, p, "yieldsw", "yielded")
    BY <1>4, <2>2 DEF sched, Step, TypeOK, OneCpuPerProcess, LockDiscipline, Executing, NoMissedWakeup
  <2>3. QED
    BY <1>4, <2>1, <2>2 DEF sched
<1>5. ASSUME NEW c \in CPU, NEW p \in Proc, forkret(c, p) PROVE NoMissedWakeup'
  BY <1>5 DEF forkret, Step, TypeOK, OneCpuPerProcess, LockDiscipline, Executing, NoMissedWakeup
<1>6. ASSUME NEW c \in CPU, NEW p \in Proc, yield_state(c, p) PROVE NoMissedWakeup'
  BY <1>6 DEF yield_state, Step, TypeOK, OneCpuPerProcess, LockDiscipline, Executing, NoMissedWakeup
<1>7. ASSUME NEW c \in CPU, NEW p \in Proc, yield_return(c, p) PROVE NoMissedWakeup'
  BY <1>7 DEF yield_return, Leave, TypeOK, OneCpuPerProcess, LockDiscipline, Executing, NoMissedWakeup
<1>8. ASSUME NEW c \in CPU, NEW p \in Proc, wait_go(c, p) PROVE NoMissedWakeup'
  BY <1>8 DEF wait_go, Step, TypeOK, OneCpuPerProcess, LockDiscipline, Executing, NoMissedWakeup
<1>9. ASSUME NEW c \in CPU, NEW p \in Proc, wait_sleep(c, p) PROVE NoMissedWakeup'
  BY <1>9 DEF wait_sleep, Step, TypeOK, OneCpuPerProcess, LockDiscipline, Executing, NoMissedWakeup
<1>10. ASSUME NEW c \in CPU, NEW p \in Proc, sleep_acquire(c, p) PROVE NoMissedWakeup'
  BY <1>10 DEF sleep_acquire, Step, TypeOK, OneCpuPerProcess, LockDiscipline, Executing, NoMissedWakeup
<1>11. ASSUME NEW c \in CPU, NEW p \in Proc, sleep_release(c, p) PROVE NoMissedWakeup'
  BY <1>11 DEF sleep_release, Step, TypeOK, OneCpuPerProcess, LockDiscipline, Executing, NoMissedWakeup
<1>12. ASSUME NEW c \in CPU, NEW p \in Proc, sleep_state(c, p) PROVE NoMissedWakeup'
  BY <1>12 DEF sleep_state, Step, TypeOK, OneCpuPerProcess, LockDiscipline, Executing, NoMissedWakeup
<1>13. ASSUME NEW c \in CPU, NEW p \in Proc, sleep_return(c, p) PROVE NoMissedWakeup'
  BY <1>13 DEF sleep_return, Step, TypeOK, OneCpuPerProcess, LockDiscipline, Executing, NoMissedWakeup
<1>14. ASSUME NEW c \in CPU, NEW p \in Proc, sleep_retake(c, p) PROVE NoMissedWakeup'
  BY <1>14 DEF sleep_retake, Step, TypeOK, OneCpuPerProcess, LockDiscipline, Executing, NoMissedWakeup
<1>15. ASSUME NEW c \in CPU, NEW p \in Proc, wake_set(c, p) PROVE NoMissedWakeup'
  BY <1>15 DEF wake_set, Step, TypeOK, OneCpuPerProcess, LockDiscipline, Executing, NoMissedWakeup
<1>16. ASSUME NEW c \in CPU, NEW p \in Proc, wakeup_acquire(c, p) PROVE NoMissedWakeup'
  BY <1>16 DEF wakeup_acquire, Step, TypeOK, OneCpuPerProcess, LockDiscipline, Executing, NoMissedWakeup
<1>17. ASSUME NEW c \in CPU, NEW p \in Proc, wakeup1(c, p) PROVE NoMissedWakeup'
  <2>1. ctx[c] = p /\ pc[p] = "wakeup2" /\ ptlock = c /\ lk = c
    BY <1>17 DEF wakeup1, Step, LockDiscipline
  <2>2. ASSUME NEW q \in Proc, pc[q] \in {"sleep1", "sleep2", "sleep3"} PROVE FALSE
    <3>1. PICK d \in CPU : ctx[d] = q
      BY <2>2 DEF OneCpuPerProcess
    <3>2. ptlock = d \/ lk = d
      BY <2>2, <3>1 DEF LockDiscipline
    <3>3. QED
      BY <2>1, <2>2, <3>1, <3>2
  <2>3. \A q \in Proc : state'[q] # "SLEEPING"
    BY <1>17 DEF wakeup1
  <2>4. \A q \in Proc : pc'[q] \notin {"sleep1", "sleep2", "sleep3"}
    BY <1>17, <2>2 DEF wakeup1, Step, TypeOK
  <2>5. QED
    BY <2>3, <2>4 DEF NoMissedWakeup
<1>18. ASSUME NEW c \in CPU, NEW p \in Proc, wakeup_release(c, p) PROVE NoMissedWakeup'
  BY <1>18 DEF wakeup_release, Step, TypeOK, OneCpuPerProcess, LockDiscipline, Executing, NoMissedWakeup
<1>19. ASSUME NEW c \in CPU, NEW p \in Proc, wake_release(c, p) PROVE NoMissedWakeup'
  <2>1. PICK m \in Interruptible : pc' = [pc EXCEPT ![p] = m]
    BY <1>19 DEF wake_release, Leave, TypeOK
  <2>2. QED
    BY <1>19, <2>1 DEF wake_release, Leave, TypeOK, NoMissedWakeup
<1>20. ASSUME NEW c \in CPU, NEW p \in Proc, yield_acquire(c, p) PROVE NoMissedWakeup'
  BY <1>20 DEF yield_acquire, Enter, TypeOK, OneCpuPerProcess, LockDiscipline, Executing, NoMissedWakeup
<1>21. ASSUME NEW c \in CPU, NEW p \in Proc, wait_acquire(c, p) PROVE NoMissedWakeup'
  BY <1>21 DEF wait_acquire, Step, TypeOK, OneCpuPerProcess, LockDiscipline, Executing, NoMissedWakeup
<1>22. ASSUME NEW c \in CPU, NEW p \in Proc, wake_acquire(c, p) PROVE NoMissedWakeup'
  BY <1>22 DEF wake_acquire, Enter, TypeOK, OneCpuPerProcess, LockDiscipline, Executing, NoMissedWakeup
<1>23. CASE UNCHANGED vars
  BY <1>23 DEF vars, TypeOK, OneCpuPerProcess, LockDiscipline, Executing, NoMissedWakeup
<1>24. QED
  BY <1>1, <1>2, <1>3, <1>4, <1>5, <1>6, <1>7, <1>8, <1>9, <1>10, <1>11, <1>12, <1>13, <1>14, <1>15, <1>16, <1>17, <1>18, <1>19, <1>20, <1>21, <1>22, <1>23
  DEF Next, scheduler, Continue, yield, sleep, wakeup

-----------------------------------------------------------------------------
\* After initialisation every slot waits in forkret for its first swtch and no
\* lock is held.
LEMMA InitInv == Init => SchedInv
<1> USE SchedAssumption DEF Init, Proc
<1>1. Init => TypeOK
  <2> SUFFICES ASSUME Init PROVE TypeOK
    OBVIOUS
  <2>1. pc \in [1 .. NPROC -> PC] /\ back \in [1 .. NPROC -> Interruptible]
    BY DEF PC, Interruptible
  <2>2. state \in [1 .. NPROC -> {"RUNNABLE", "RUNNING", "SLEEPING"}]
    OBVIOUS
  <2>3. ctx \in [CPU -> (1 .. NPROC) \union {None}] /\ scan \in [CPU -> 0 .. NPROC + 1]
    OBVIOUS
  <2>4. QED
    BY <2>1, <2>2, <2>3 DEF TypeOK
<1>2. Init => OneCpuPerProcess
  BY DEF OneCpuPerProcess, Saved
<1>3. Init => LockDiscipline
  BY DEF LockDiscipline
<1>4. Init => Executing /\ NoMissedWakeup
  BY DEF Executing, NoMissedWakeup
<1>5. QED
  BY <1>1, <1>2, <1>3, <1>4 DEF SchedInv

\* The inductive invariant holds in every reachable state.
THEOREM Invariance == Spec => []SchedInv
<1>1. Init => SchedInv
  BY InitInv
<1>2. SchedInv /\ [Next]_vars => SchedInv'
  BY TypeStep, CpuStep, LockStep, ExecutingStep, WakeupStep DEF SchedInv
<1>3. QED
  BY <1>1, <1>2, PTL DEF Spec

\* The scheduler's loop index and every saved position stay in range.
THEOREM TypeCorrect == Spec => []TypeOK
<1>1. SchedInv => TypeOK
  BY DEF SchedInv
<1>2. QED
  BY <1>1, Invariance, PTL

\* No kernel stack is ever used by two CPUs, though scheduler() may run a process
\* as soon as another one, or its own CPU, has made it RUNNABLE.
THEOREM StacksAreExclusive == Spec => []OneCpuPerProcess
<1>1. SchedInv => OneCpuPerProcess
  BY DEF SchedInv
<1>2. QED
  BY <1>1, Invariance, PTL

\* ptable.lock and lk are held where acquire and release say, across swtch: the
\* panics of sched() are unreachable.
THEOREM LocksAreHeld == Spec => []LockDiscipline
<1>1. SchedInv => LockDiscipline
  BY DEF SchedInv
<1>2. QED
  BY <1>1, Invariance, PTL

\* sleep() and wakeup() lose no wakeup.
THEOREM WakeupNotMissed == Spec => []NoMissedWakeup
<1>1. SchedInv => NoMissedWakeup
  BY DEF SchedInv
<1>2. QED
  BY <1>1, Invariance, PTL

\* A process that a CPU executes is RUNNING, except between its own change of
\* state and its swtch, and only sleep() leaves a process SLEEPING.
THEOREM RunningStates == Spec => []Executing
<1>1. SchedInv => Executing
  BY DEF SchedInv
<1>2. QED
  BY <1>1, Invariance, PTL
=============================================================================

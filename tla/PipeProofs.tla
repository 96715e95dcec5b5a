---------------------------- MODULE PipeProofs ------------------------------
(***************************************************************************)
(* The safety properties of Pipe, for every number of processes at each    *)
(* end, every buffer size and every width of the counters.                 *)
(***************************************************************************)
EXTENDS Pipe, Modular, TLAPS

-----------------------------------------------------------------------------
(* The inductive invariant.                                                *)

\* A process is in the calls of its own end, and n - i is at most n.
OwnCalls ==
  \A p \in Proc :
    /\ p \in Writer => pc[p] \in {"idle", "wlock", "w", "wgo", "wsleep", "clock", "kfree"}
    /\ p \in Reader => pc[p] \in {"idle", "rlock", "r", "rgo", "rsleep", "rcopy", "clock", "kfree"}
                       /\ left[p] <= RLEN

\* A process without its end is past its last call, the last one to close an
\* end finds it open, and an end is closed by nobody else.
Closing ==
  /\ \A p \in Proc \ fds : pc[p] \in {"idle", "clock", "kfree"}
  /\ \A p \in Proc : pc[p] = "clock" =>
       /\ p \notin fds
       /\ \A q \in Peers(p) : q \notin fds /\ (q # p => pc[q] # "clock")
       /\ p \in Writer => writeopen
       /\ p \in Reader => readopen
  /\ ~writeopen => \A p \in Writer : p \notin fds /\ pc[p] # "clock"
  /\ ~readopen => \A p \in Reader : p \notin fds /\ pc[p] # "clock"

\* kfree is called once, after both ends have closed.
FreedOnce ==
  /\ freed => ~readopen /\ ~writeopen
  /\ \A p \in Proc : pc[p] = "kfree" =>
       ~readopen /\ ~writeopen /\ ~freed /\ \A q \in Proc \ {p} : pc[q] # "kfree"

\* What the process between acquire and release knows: its test still holds
\* when it goes to sleep, and a writer that found the pipe full has woken the
\* readers.
Tested ==
  \A p \in Proc :
    /\ pc[p] = "wgo" => Full /\ readopen /\ \A q \in Proc : pc[q] # "rsleep"
    /\ pc[p] = "rgo" => Empty /\ writeopen
    /\ pc[p] = "rcopy" /\ left[p] = RLEN => ~(Empty /\ writeopen)

\* Whoever made a sleeper's condition true is still in the loop that ends with
\* the wakeup.
Wakers ==
  \A p \in Proc :
    /\ pc[p] = "wsleep" => readopen /\ (Full \/ \E q \in Reader : pc[q] = "rcopy")
    /\ pc[p] = "rsleep" => /\ writeopen
                           /\ \/ Empty \/ Writer \intersect killed # {}
                              \/ \E q \in Writer : pc[q] = "w"

Inv == TypeOK /\ OwnCalls /\ Closing /\ FreedOnce /\ Tested /\ Wakers

-----------------------------------------------------------------------------
(* Arithmetic of the counters.                                             *)

\* The sizes, without the divisibility that only the buffer's index needs.
LEMMA Sizes ==
  ASSUME PipeConstants
  PROVE  WORD \in Nat \ {0} /\ PIPESIZE \in Nat \ {0} /\ PIPESIZE < WORD
         /\ PIPESIZE \in 0 .. WORD /\ 1 \in 0 .. WORD
<1>1. WORD \in Nat /\ PIPESIZE \in Nat \ {0} /\ WORD > PIPESIZE
  BY Zenon DEF PipeConstants
<1> QED
  BY <1>1

\* What the difference of the counters says about the buffer.
LEMMA CountFacts ==
  ASSUME PipeConstants, nread \in 0 .. WORD - 1, nwrite \in 0 .. WORD - 1
  PROVE  /\ Count = IF nwrite >= nread THEN nwrite - nread ELSE nwrite - nread + WORD
         /\ Count \in Nat
         /\ Full <=> Count = PIPESIZE
         /\ Empty <=> Count = 0
<1>1. WORD \in Nat \ {0} /\ PIPESIZE \in Nat \ {0} /\ PIPESIZE < WORD
      /\ PIPESIZE \in 0 .. WORD /\ 1 \in 0 .. WORD
  BY Sizes
<1>2. Count = IF nwrite >= nread THEN nwrite - nread ELSE nwrite - nread + WORD
  BY <1>1, SubCases DEF Count
<1>3. (nread + PIPESIZE) % WORD
        = IF nread + PIPESIZE < WORD THEN nread + PIPESIZE ELSE nread + PIPESIZE - WORD
  BY <1>1, AddCases, Zenon
<1> QED
  BY <1>1, <1>2, <1>3 DEF Full, Empty

\* A byte put into the pipe, also when nwrite wraps.
LEMMA CountPut ==
  ASSUME PipeConstants, nread \in 0 .. WORD - 1, nwrite \in 0 .. WORD - 1, Count <= PIPESIZE,
         ~Full, nwrite' = (nwrite + 1) % WORD, nread' = nread
  PROVE  Count' = Count + 1 /\ Count + 1 <= PIPESIZE /\ nwrite' \in 0 .. WORD - 1
<1>1. WORD \in Nat \ {0} /\ PIPESIZE \in Nat \ {0} /\ PIPESIZE < WORD
      /\ PIPESIZE \in 0 .. WORD /\ 1 \in 0 .. WORD
  BY Sizes
<1>2. (nwrite + 1) % WORD = IF nwrite + 1 < WORD THEN nwrite + 1 ELSE nwrite + 1 - WORD
  BY <1>1, AddCases, Zenon
<1>3. nwrite' = (IF nwrite + 1 < WORD THEN nwrite + 1 ELSE 0) /\ nwrite' \in 0 .. WORD - 1
  BY <1>1, <1>2
<1>4. Count' = IF nwrite' >= nread THEN nwrite' - nread ELSE nwrite' - nread + WORD
  BY <1>1, <1>3, SubCases, ZenonT(30) DEF Count
<1> QED
  BY <1>1, <1>3, <1>4, CountFacts

\* A byte taken from the pipe, also when nread wraps.
LEMMA CountGet ==
  ASSUME PipeConstants, nread \in 0 .. WORD - 1, nwrite \in 0 .. WORD - 1,
         ~Empty, nread' = (nread + 1) % WORD, nwrite' = nwrite
  PROVE  Count' = Count - 1 /\ nread' \in 0 .. WORD - 1
<1>1. WORD \in Nat \ {0} /\ 1 \in 0 .. WORD
  BY Sizes
<1>2. (nread + 1) % WORD = IF nread + 1 < WORD THEN nread + 1 ELSE nread + 1 - WORD
  BY <1>1, AddCases, Zenon
<1>3. nread' = (IF nread + 1 < WORD THEN nread + 1 ELSE 0) /\ nread' \in 0 .. WORD - 1
  BY <1>1, <1>2
<1>4. Count' = IF nwrite >= nread' THEN nwrite - nread' ELSE nwrite - nread' + WORD
  BY <1>1, <1>3, SubCases, Zenon DEF Count
<1> QED
  BY <1>1, <1>3, <1>4, CountFacts DEF Empty

-----------------------------------------------------------------------------
(* Every step keeps the invariant, conjunct by conjunct.                   *)

\* Each step keeps the types, the distance of the counters (by CountPut and
\* CountGet) and the lock's holder as the only process in the critical section.
LEMMA TypeStep ==
  ASSUME PipeConstants, Inv, [Next]_vars
  PROVE  TypeOK'
<1>0. None \notin Proc /\ WLEN \in Nat /\ RLEN \in Nat
  BY DEF PipeConstants, Proc
<1> USE <1>0 DEF Inv, TypeOK, PC, pipe, Critical
<1>1. ASSUME NEW p \in Proc, pipewrite(p) PROVE TypeOK'
  BY <1>1 DEF pipewrite, Count
<1>2. ASSUME NEW p \in Proc, write_lock(p) PROVE TypeOK'
  BY <1>2 DEF write_lock, acquire, Count
<1>3. ASSUME NEW p \in Proc, NEW b \in Byte, write_byte(p, b) PROVE TypeOK'
  <2>0. ~Full /\ nwrite' = (nwrite + 1) % WORD /\ nread' = nread
    BY <1>3 DEF write_byte
  <2>1. nwrite' \in 0 .. WORD - 1 /\ Count' <= PIPESIZE
    BY <2>0, CountPut, CountFacts, Sizes
  <2>2. data' \in [0 .. PIPESIZE - 1 -> Byte]
    BY <1>3, Zenon DEF write_byte
  <2>4. left[p] > 0 /\ left' = [left EXCEPT ![p] = left[p] - 1]
    BY <1>3, Zenon DEF write_byte
  <2>5. left' \in [Proc -> Nat]
    BY <2>4
  <2>3. UNCHANGED <<nread, readopen, writeopen, lock, pc, killed, fds, freed, out>>
    BY <1>3 DEF write_byte
  <2> QED
    BY <2>1, <2>2, <2>3, <2>5
<1>4. ASSUME NEW p \in Proc, write_fail(p) PROVE TypeOK'
  BY <1>4 DEF write_fail, release, Count
<1>5. ASSUME NEW p \in Proc, write_full(p) PROVE TypeOK'
  BY <1>5 DEF write_full, Count
<1>6. ASSUME NEW p \in Proc, write_sleep(p) PROVE TypeOK'
  BY <1>6 DEF write_sleep, release, Count
<1>7. ASSUME NEW p \in Proc, write_done(p) PROVE TypeOK'
  BY <1>7 DEF write_done, release, Count
<1>8. ASSUME NEW p \in Proc, piperead(p) PROVE TypeOK'
  BY <1>8 DEF piperead, Count
<1>9. ASSUME NEW p \in Proc, read_lock(p) PROVE TypeOK'
  BY <1>9 DEF read_lock, acquire, Count
<1>10. ASSUME NEW p \in Proc, read_fail(p) PROVE TypeOK'
  BY <1>10 DEF read_fail, release, Count
<1>11. ASSUME NEW p \in Proc, read_empty(p) PROVE TypeOK'
  BY <1>11 DEF read_empty, Count
<1>12. ASSUME NEW p \in Proc, read_sleep(p) PROVE TypeOK'
  BY <1>12 DEF read_sleep, release, Count
<1>13. ASSUME NEW p \in Proc, read_start(p) PROVE TypeOK'
  BY <1>13 DEF read_start, Count
<1>14. ASSUME NEW p \in Proc, read_byte(p) PROVE TypeOK'
  <2>0. ~Empty /\ nread' = (nread + 1) % WORD /\ nwrite' = nwrite
    BY <1>14 DEF read_byte
  <2>1. nread' \in 0 .. WORD - 1 /\ Count' <= PIPESIZE
    BY <2>0, CountGet, CountFacts, Sizes
  <2>2. out' \in Byte
    <3>1. nread \in Int /\ PIPESIZE \in Nat \ {0}
      BY Sizes
    <3>3. nread % PIPESIZE \in 0 .. PIPESIZE - 1
      BY <3>1, ModDiv
    <3>2. out' = data[nread % PIPESIZE]
      BY <1>14, Zenon DEF read_byte
    <3> QED
      BY <3>2, <3>3, Zenon
  <2> QED
    BY <1>14, <2>1, <2>2 DEF read_byte
<1>15. ASSUME NEW p \in Proc, read_done(p) PROVE TypeOK'
  BY <1>15 DEF read_done, release, Count
<1>16. ASSUME NEW p \in Proc, close(p) PROVE TypeOK'
  BY <1>16 DEF close, Count
<1>17. ASSUME NEW p \in Proc, pipeclose(p) PROVE TypeOK'
  BY <1>17 DEF pipeclose, Count
<1>18. ASSUME NEW p \in Proc, kfree(p) PROVE TypeOK'
  BY <1>18 DEF kfree, Count
<1>19. ASSUME NEW p \in Proc, kill(p) PROVE TypeOK'
  BY <1>19 DEF kill, Count
<1>20. CASE UNCHANGED vars
  BY <1>20 DEF vars, Count
<1> QED
  BY <1>1, <1>2, <1>3, <1>4, <1>5, <1>6, <1>7, <1>8, <1>9, <1>10, Zenon,
     <1>11, <1>12, <1>13, <1>14, <1>15, <1>16, <1>17, <1>18, <1>19, <1>20
     DEF Next, Step

\* Each step keeps a process in the calls of its own end: pipewrite's loop only
\* for writers, piperead's only for readers.
LEMMA CallsStep ==
  ASSUME PipeConstants, Inv, [Next]_vars
  PROVE  OwnCalls'
<1> USE DEF PipeConstants, Inv, TypeOK, OwnCalls, Proc, PC, pipe
<1>1. ASSUME NEW p \in Proc, pipewrite(p) PROVE OwnCalls'
  BY <1>1 DEF pipewrite
<1>2. ASSUME NEW p \in Proc, write_lock(p) PROVE OwnCalls'
  BY <1>2 DEF write_lock, acquire
<1>3. ASSUME NEW p \in Proc, NEW b \in Byte, write_byte(p, b) PROVE OwnCalls'
  BY <1>3 DEF write_byte
<1>4. ASSUME NEW p \in Proc, write_fail(p) PROVE OwnCalls'
  BY <1>4 DEF write_fail, release
<1>5. ASSUME NEW p \in Proc, write_full(p) PROVE OwnCalls'
  BY <1>5 DEF write_full
<1>6. ASSUME NEW p \in Proc, write_sleep(p) PROVE OwnCalls'
  BY <1>6 DEF write_sleep, release
<1>7. ASSUME NEW p \in Proc, write_done(p) PROVE OwnCalls'
  BY <1>7 DEF write_done, release
<1>8. ASSUME NEW p \in Proc, piperead(p) PROVE OwnCalls'
  BY <1>8 DEF piperead
<1>9. ASSUME NEW p \in Proc, read_lock(p) PROVE OwnCalls'
  BY <1>9 DEF read_lock, acquire
<1>10. ASSUME NEW p \in Proc, read_fail(p) PROVE OwnCalls'
  BY <1>10 DEF read_fail, release
<1>11. ASSUME NEW p \in Proc, read_empty(p) PROVE OwnCalls'
  BY <1>11 DEF read_empty
<1>12. ASSUME NEW p \in Proc, read_sleep(p) PROVE OwnCalls'
  BY <1>12 DEF read_sleep, release
<1>13. ASSUME NEW p \in Proc, read_start(p) PROVE OwnCalls'
  BY <1>13 DEF read_start
<1>14. ASSUME NEW p \in Proc, read_byte(p) PROVE OwnCalls'
  BY <1>14 DEF read_byte
<1>15. ASSUME NEW p \in Proc, read_done(p) PROVE OwnCalls'
  BY <1>15 DEF read_done, release
<1>16. ASSUME NEW p \in Proc, close(p) PROVE OwnCalls'
  BY <1>16 DEF close
<1>17. ASSUME NEW p \in Proc, pipeclose(p) PROVE OwnCalls'
  BY <1>17 DEF pipeclose
<1>18. ASSUME NEW p \in Proc, kfree(p) PROVE OwnCalls'
  BY <1>18 DEF kfree
<1>19. ASSUME NEW p \in Proc, kill(p) PROVE OwnCalls'
  BY <1>19 DEF kill
<1>20. CASE UNCHANGED vars
  BY <1>20 DEF vars
<1> QED
  BY <1>1, <1>2, <1>3, <1>4, <1>5, <1>6, <1>7, <1>8, <1>9, <1>10,
     <1>11, <1>12, <1>13, <1>14, <1>15, <1>16, <1>17, <1>18, <1>19, <1>20
     DEF Next, Step

\* Each step keeps the order of closing: fileclose calls pipeclose once for each
\* end, and only the second pipeclose goes on to kfree.
LEMMA ClosingStep ==
  ASSUME PipeConstants, Inv, [Next]_vars
  PROVE  Closing' /\ FreedOnce'
<1> USE DEF PipeConstants, Inv, TypeOK, OwnCalls, Closing, FreedOnce, Peers, Proc, PC, pipe
<1>1. ASSUME NEW p \in Proc, pipewrite(p) PROVE Closing' /\ FreedOnce'
  BY <1>1 DEF pipewrite
<1>2. ASSUME NEW p \in Proc, write_lock(p) PROVE Closing' /\ FreedOnce'
  BY <1>2 DEF write_lock, acquire
<1>3. ASSUME NEW p \in Proc, NEW b \in Byte, write_byte(p, b) PROVE Closing' /\ FreedOnce'
  BY <1>3 DEF write_byte
<1>4. ASSUME NEW p \in Proc, write_fail(p) PROVE Closing' /\ FreedOnce'
  BY <1>4 DEF write_fail, release
<1>5. ASSUME NEW p \in Proc, write_full(p) PROVE Closing' /\ FreedOnce'
  BY <1>5 DEF write_full
<1>6. ASSUME NEW p \in Proc, write_sleep(p) PROVE Closing' /\ FreedOnce'
  BY <1>6 DEF write_sleep, release
<1>7. ASSUME NEW p \in Proc, write_done(p) PROVE Closing' /\ FreedOnce'
  BY <1>7 DEF write_done, release
<1>8. ASSUME NEW p \in Proc, piperead(p) PROVE Closing' /\ FreedOnce'
  BY <1>8 DEF piperead
<1>9. ASSUME NEW p \in Proc, read_lock(p) PROVE Closing' /\ FreedOnce'
  BY <1>9 DEF read_lock, acquire
<1>10. ASSUME NEW p \in Proc, read_fail(p) PROVE Closing' /\ FreedOnce'
  BY <1>10 DEF read_fail, release
<1>11. ASSUME NEW p \in Proc, read_empty(p) PROVE Closing' /\ FreedOnce'
  BY <1>11 DEF read_empty
<1>12. ASSUME NEW p \in Proc, read_sleep(p) PROVE Closing' /\ FreedOnce'
  BY <1>12 DEF read_sleep, release
<1>13. ASSUME NEW p \in Proc, read_start(p) PROVE Closing' /\ FreedOnce'
  BY <1>13 DEF read_start
<1>14. ASSUME NEW p \in Proc, read_byte(p) PROVE Closing' /\ FreedOnce'
  BY <1>14 DEF read_byte
<1>15. ASSUME NEW p \in Proc, read_done(p) PROVE Closing' /\ FreedOnce'
  BY <1>15 DEF read_done, release
<1>16. ASSUME NEW p \in Proc, close(p) PROVE Closing' /\ FreedOnce'
  BY <1>16 DEF close
<1>17. ASSUME NEW p \in Proc, pipeclose(p) PROVE Closing' /\ FreedOnce'
  BY <1>17 DEF pipeclose
<1>18. ASSUME NEW p \in Proc, kfree(p) PROVE Closing' /\ FreedOnce'
  BY <1>18 DEF kfree
<1>19. ASSUME NEW p \in Proc, kill(p) PROVE Closing' /\ FreedOnce'
  BY <1>19 DEF kill
<1>20. CASE UNCHANGED vars
  BY <1>20 DEF vars
<1> QED
  BY <1>1, <1>2, <1>3, <1>4, <1>5, <1>6, <1>7, <1>8, <1>9, <1>10, Zenon,
     <1>11, <1>12, <1>13, <1>14, <1>15, <1>16, <1>17, <1>18, <1>19, <1>20
     DEF Next, Step

\* Each step keeps what the holder of p->lock has tested; nobody else can change
\* the counters, and pipeclose waits for the lock.
LEMMA TestedStep ==
  ASSUME PipeConstants, Inv, [Next]_vars
  PROVE  Tested'
<1> USE DEF PipeConstants, Inv, TypeOK, OwnCalls, Closing, Tested, Proc, PC, pipe, Critical, Empty, Full
<1>1. ASSUME NEW p \in Proc, pipewrite(p) PROVE Tested'
  BY <1>1 DEF pipewrite
<1>2. ASSUME NEW p \in Proc, write_lock(p) PROVE Tested'
  BY <1>2 DEF write_lock, acquire
<1>3. ASSUME NEW p \in Proc, NEW b \in Byte, write_byte(p, b) PROVE Tested'
  BY <1>3 DEF write_byte
<1>4. ASSUME NEW p \in Proc, write_fail(p) PROVE Tested'
  BY <1>4 DEF write_fail, release
<1>5. ASSUME NEW p \in Proc, write_full(p) PROVE Tested'
  BY <1>5 DEF write_full
<1>6. ASSUME NEW p \in Proc, write_sleep(p) PROVE Tested'
  BY <1>6 DEF write_sleep, release
<1>7. ASSUME NEW p \in Proc, write_done(p) PROVE Tested'
  BY <1>7 DEF write_done, release
<1>8. ASSUME NEW p \in Proc, piperead(p) PROVE Tested'
  BY <1>8 DEF piperead
<1>9. ASSUME NEW p \in Proc, read_lock(p) PROVE Tested'
  BY <1>9 DEF read_lock, acquire
<1>10. ASSUME NEW p \in Proc, read_fail(p) PROVE Tested'
  BY <1>10 DEF read_fail, release
<1>11. ASSUME NEW p \in Proc, read_empty(p) PROVE Tested'
  BY <1>11 DEF read_empty
<1>12. ASSUME NEW p \in Proc, read_sleep(p) PROVE Tested'
  BY <1>12 DEF read_sleep, release
<1>13. ASSUME NEW p \in Proc, read_start(p) PROVE Tested'
  BY <1>13 DEF read_start
<1>14. ASSUME NEW p \in Proc, read_byte(p) PROVE Tested'
  BY <1>14 DEF read_byte
<1>15. ASSUME NEW p \in Proc, read_done(p) PROVE Tested'
  BY <1>15 DEF read_done, release
<1>16. ASSUME NEW p \in Proc, close(p) PROVE Tested'
  BY <1>16 DEF close
<1>17. ASSUME NEW p \in Proc, pipeclose(p) PROVE Tested'
  BY <1>17 DEF pipeclose
<1>18. ASSUME NEW p \in Proc, kfree(p) PROVE Tested'
  BY <1>18 DEF kfree
<1>19. ASSUME NEW p \in Proc, kill(p) PROVE Tested'
  BY <1>19 DEF kill
<1>20. CASE UNCHANGED vars
  BY <1>20 DEF vars
<1> QED
  BY <1>1, <1>2, <1>3, <1>4, <1>5, <1>6, <1>7, <1>8, <1>9, <1>10, Zenon,
     <1>11, <1>12, <1>13, <1>14, <1>15, <1>16, <1>17, <1>18, <1>19, <1>20
     DEF Next, Step

\* Each step keeps a waker for every sleeper whose condition has come true:
\* pipewrite wakes readers before it sleeps and when it is done, piperead wakes
\* writers after its loop, pipeclose wakes the other end, kill its victim.
LEMMA WakersStep ==
  ASSUME PipeConstants, Inv, [Next]_vars
  PROVE  Wakers'
<1> USE DEF PipeConstants, Inv, TypeOK, OwnCalls, Closing, Tested, Wakers, Proc, PC, pipe, Critical, Empty, Full
<1>1. ASSUME NEW p \in Proc, pipewrite(p) PROVE Wakers'
  BY <1>1 DEF pipewrite
<1>2. ASSUME NEW p \in Proc, write_lock(p) PROVE Wakers'
  BY <1>2 DEF write_lock, acquire
<1>3. ASSUME NEW p \in Proc, NEW b \in Byte, write_byte(p, b) PROVE Wakers'
  BY <1>3, SMTT(60) DEF write_byte
<1>4. ASSUME NEW p \in Proc, write_fail(p) PROVE Wakers'
  BY <1>4 DEF write_fail, release
<1>5. ASSUME NEW p \in Proc, write_full(p) PROVE Wakers'
  BY <1>5 DEF write_full
<1>6. ASSUME NEW p \in Proc, write_sleep(p) PROVE Wakers'
  BY <1>6 DEF write_sleep, release
<1>7. ASSUME NEW p \in Proc, write_done(p) PROVE Wakers'
  BY <1>7 DEF write_done, release
<1>8. ASSUME NEW p \in Proc, piperead(p) PROVE Wakers'
  BY <1>8 DEF piperead
<1>9. ASSUME NEW p \in Proc, read_lock(p) PROVE Wakers'
  BY <1>9 DEF read_lock, acquire
<1>10. ASSUME NEW p \in Proc, read_fail(p) PROVE Wakers'
  BY <1>10 DEF read_fail, release
<1>11. ASSUME NEW p \in Proc, read_empty(p) PROVE Wakers'
  BY <1>11 DEF read_empty
<1>12. ASSUME NEW p \in Proc, read_sleep(p) PROVE Wakers'
  BY <1>12 DEF read_sleep, release
<1>13. ASSUME NEW p \in Proc, read_start(p) PROVE Wakers'
  BY <1>13 DEF read_start
<1>14. ASSUME NEW p \in Proc, read_byte(p) PROVE Wakers'
  BY <1>14 DEF read_byte
<1>15. ASSUME NEW p \in Proc, read_done(p) PROVE Wakers'
  BY <1>15 DEF read_done, release
<1>16. ASSUME NEW p \in Proc, close(p) PROVE Wakers'
  BY <1>16 DEF close
<1>17. ASSUME NEW p \in Proc, pipeclose(p) PROVE Wakers'
  BY <1>17 DEF pipeclose
<1>18. ASSUME NEW p \in Proc, kfree(p) PROVE Wakers'
  BY <1>18 DEF kfree
<1>19. ASSUME NEW p \in Proc, kill(p) PROVE Wakers'
  BY <1>19 DEF kill
<1>20. CASE UNCHANGED vars
  BY <1>20 DEF vars
<1> QED
  BY <1>1, <1>2, <1>3, <1>4, <1>5, <1>6, <1>7, <1>8, <1>9, <1>10, Zenon,
     <1>11, <1>12, <1>13, <1>14, <1>15, <1>16, <1>17, <1>18, <1>19, <1>20
     DEF Next, Step

\* pipealloc's state satisfies the invariant.
LEMMA InitInv ==
  ASSUME PipeConstants, Init
  PROVE  Inv
<1> USE DEF Init
<1>1. WORD \in Nat \ {0} /\ WLEN \in Nat /\ RLEN \in Nat /\ None \notin Proc
  BY Sizes DEF PipeConstants, Proc
<1>2. nread \in 0 .. WORD - 1 /\ nwrite \in 0 .. WORD - 1
  BY <1>1
<1>3. Count <= PIPESIZE
  BY <1>2, CountFacts, Sizes DEF Empty
<1>4. TypeOK
  BY <1>1, <1>2, <1>3, Zenon DEF TypeOK, PC, Critical
<1>5. OwnCalls /\ Closing /\ FreedOnce /\ Tested /\ Wakers
  BY <1>1 DEF OwnCalls, Closing, FreedOnce, Tested, Wakers, Peers, Proc
<1> QED
  BY <1>4, <1>5 DEF Inv

\* Whatever the processes at the two ends do, pipewrite, piperead, pipeclose and
\* kill keep the invariant.
THEOREM Invariance ==
  ASSUME PipeConstants
  PROVE  Spec => []Inv
<1>1. Init => Inv
  BY InitInv
<1>2. Inv /\ [Next]_vars => Inv'
  BY TypeStep, CallsStep, ClosingStep, TestedStep, WakersStep DEF Inv
<1> QED
  BY <1>1, <1>2, PTL DEF Spec

\* No wakeup is lost: a process asleep in pipewrite or piperead waits for a
\* condition that is false, or its waker still holds p->lock.
THEOREM Woken ==
  ASSUME PipeConstants
  PROVE  Spec => []SleepersWoken
<1>1. Inv => SleepersWoken
  BY DEF Inv, SleepersWoken, TypeOK, Wakers, Critical, PipeConstants, Proc
<1> QED
  BY <1>1, Invariance, PTL

\* The counters never differ by more than PIPESIZE, p->lock has one holder, and
\* pipeclose frees the pipe once, when nobody is in a pipe operation or has an
\* end open; and every sleeper is woken.
THEOREM Consistent ==
  ASSUME PipeConstants
  PROVE  Spec => []PipeConsistent
<1>1. Inv => TypeOK /\ FreedOnlyUnused
  <2> SUFFICES ASSUME Inv PROVE FreedOnlyUnused
    BY DEF Inv
  <2> SUFFICES ASSUME NEW p \in Proc, pc[p] = "kfree" \/ freed
               PROVE  /\ fds = {} /\ ~readopen /\ ~writeopen
                      /\ \A q \in Proc \ {p} : pc[q] = "idle"
                      /\ freed => pc[p] = "idle"
    BY DEF FreedOnlyUnused
  <2>1. ~readopen /\ ~writeopen
    BY DEF Inv, FreedOnce
  <2>2. fds = {} /\ \A q \in Proc : pc[q] \in {"idle", "kfree"}
    BY <2>1 DEF Inv, TypeOK, Closing, Proc
  <2> QED
    BY <2>1, <2>2 DEF Inv, FreedOnce
<1> QED
  BY <1>1, Invariance, Woken, PTL DEF PipeConsistent

\* piperead returns 0 only at the end of the file.
THEOREM EndOfFile ==
  ASSUME PipeConstants
  PROVE  Spec => ZeroMeansEof
<1>1. Inv /\ [Next]_vars => [\A p \in Proc : read_done(p) /\ left[p] = RLEN => Empty /\ ~writeopen]_vars
  <2> SUFFICES ASSUME Inv, NEW p \in Proc, read_done(p), left[p] = RLEN
               PROVE  Empty /\ ~writeopen
    OBVIOUS
  <2>1. RLEN # 0
    BY DEF PipeConstants
  <2> QED
    BY <2>1 DEF Inv, Tested, read_done
<1> QED
  BY <1>1, Invariance, PTL DEF Spec, ZeroMeansEof

-----------------------------------------------------------------------------
(* The refinement: the buffer between the two counters is a queue.         *)

Queue == [i \in 1 .. Count |-> data[(nread + i - 1) % PIPESIZE]]

\* The place of the i-th byte after the oldest, whether or not nread wraps.
LEMMA Place ==
  ASSUME PipeConstants
  PROVE  /\ \A a, b \in Int : ((a % WORD) + b) % PIPESIZE = (a + b) % PIPESIZE
         /\ \A a, i \in Int : (((a + 1) % WORD) + i - 1) % PIPESIZE = (a + (i + 1) - 1) % PIPESIZE
<1>1. WORD \in Nat \ {0} /\ PIPESIZE \in Nat \ {0}
  BY Sizes
<1>2. WORD % PIPESIZE = 0
  BY Zenon DEF PipeConstants
<1>3. \A a, b \in Int : ((a % WORD) + b) % PIPESIZE = (a + b) % PIPESIZE
  BY <1>1, <1>2, ModWrapped, ZenonT(30)
<1>4. \A a, i \in Int : (((a + 1) % WORD) + i - 1) % PIPESIZE = (a + (i + 1) - 1) % PIPESIZE
  BY <1>1, <1>2, ModNext, ZenonT(30)
<1> QED
  BY <1>3, <1>4, Zenon

\* The queue's contents are bytes, as many as the counters differ.
LEMMA QueueType ==
  ASSUME PipeConstants, Inv
  PROVE  Queue \in Seq(Byte) /\ Len(Queue) = Count
<1>1. Count \in Nat /\ data \in [0 .. PIPESIZE - 1 -> Byte] /\ nread \in Int
  BY CountFacts, Sizes DEF Inv, TypeOK
<1>2. \A i \in 1 .. Count : (nread + i - 1) % PIPESIZE \in 0 .. PIPESIZE - 1
  <2> SUFFICES ASSUME NEW i \in 1 .. Count
               PROVE  (nread + i - 1) % PIPESIZE \in 0 .. PIPESIZE - 1
    OBVIOUS
  <2>1. nread + i - 1 \in Int /\ PIPESIZE \in Nat \ {0}
    BY <1>1, Sizes
  <2> QED
    BY <2>1, ModRange, Zenon
<1>3. \A i \in 1 .. Count : data[(nread + i - 1) % PIPESIZE] \in Byte
  BY <1>1, <1>2, Zenon
<1> QED
  BY <1>1, <1>3 DEF Queue

\* A byte written goes behind the others and replaces none of them.
LEMMA PutQueue ==
  ASSUME PipeConstants, Inv, NEW b \in Byte, ~Full, nwrite' = (nwrite + 1) % WORD, nread' = nread,
         data' = [data EXCEPT ![nwrite % PIPESIZE] = b]
  PROVE  Queue' = Append(Queue, b)
<1>1. Count' = Count + 1 /\ Count \in 0 .. PIPESIZE - 1 /\ nread \in 0 .. WORD - 1
      /\ nwrite \in 0 .. WORD - 1 /\ Count + 1 <= PIPESIZE /\ PIPESIZE \in Nat \ {0} /\ WORD \in Nat \ {0}
  BY CountPut, CountFacts, Sizes DEF Inv, TypeOK
<1>2. nwrite % PIPESIZE = (nread + Count) % PIPESIZE
  <2>1. (nread + Count) % WORD = nwrite
    <3>1. Count \in 0 .. WORD
      BY <1>1, Sizes
    <3>2. (nread + Count) % WORD = IF nread + Count < WORD THEN nread + Count ELSE nread + Count - WORD
      BY <1>1, <3>1, AddCases, Zenon
    <3> QED
      BY <1>1, <3>2, CountFacts
  <2>2. nread + Count \in Int /\ 0 \in Int
    BY <1>1
  <2>3. (((nread + Count) % WORD) + 0) % PIPESIZE = ((nread + Count) + 0) % PIPESIZE
    BY <2>2, Place
  <2> QED
    BY <1>1, <2>1, <2>3
<1>3. \A i \in 1 .. Count : (nread + i - 1) % PIPESIZE # nwrite % PIPESIZE
  <2> SUFFICES ASSUME NEW i \in 1 .. Count, (nread + i - 1) % PIPESIZE = nwrite % PIPESIZE
               PROVE  FALSE
    OBVIOUS
  <2>1. nread \in Int /\ i - 1 \in 0 .. PIPESIZE - 1 /\ Count \in 0 .. PIPESIZE - 1 /\ i - 1 # Count
    BY <1>1
  <2>2. (nread + (i - 1)) % PIPESIZE = (nread + Count) % PIPESIZE
    BY <1>1, <1>2
  <2> QED
    BY <1>1, <2>1, <2>2, ModDistinct, Zenon
<1>4. data \in [0 .. PIPESIZE - 1 -> Byte]
  BY DEF Inv, TypeOK
<1>5. \A i \in 1 .. Count + 1 : (nread + i - 1) % PIPESIZE \in 0 .. PIPESIZE - 1
  BY <1>1, ModRange
<1>6. \A i \in 1 .. Count + 1 : Queue'[i] = IF i <= Count THEN Queue[i] ELSE b
  <2> SUFFICES ASSUME NEW i \in 1 .. Count + 1
               PROVE  Queue'[i] = IF i <= Count THEN Queue[i] ELSE b
    OBVIOUS
  <2>1. Queue'[i] = data'[(nread + i - 1) % PIPESIZE]
    BY <1>1 DEF Queue
  <2>2. CASE i <= Count
    <3> DEFINE s == (nread + i - 1) % PIPESIZE
               t == nwrite % PIPESIZE
    <3>1. Queue[i] = data[s] /\ s # t /\ s \in 0 .. PIPESIZE - 1
      <4>1. i \in 1 .. Count
        BY <1>1, <2>2
      <4> QED
        BY <1>3, <1>5, <4>1, Zenon DEF Queue
    <3>2. data' = [data EXCEPT ![t] = b] /\ Queue'[i] = data'[s]
      BY <2>1
    <3> HIDE DEF s, t
    <3> QED
      BY <1>4, <2>2, <3>1, <3>2
  <2>3. CASE i = Count + 1
    <3>1. (nread + i - 1) % PIPESIZE = nwrite % PIPESIZE
      BY <1>1, <1>2, <2>3
    <3> QED
      BY <1>1, <1>4, <1>5, <2>1, <2>3, <3>1
  <2> QED
    BY <1>1, <2>2, <2>3
<1>7. Queue' = [i \in 1 .. Count + 1 |-> Queue'[i]]
  BY <1>1 DEF Queue
<1>8. Queue \in Seq(Byte) /\ Len(Queue) = Count
  BY QueueType
<1> HIDE DEF Queue
<1> QED
  BY <1>1, <1>6, <1>7, <1>8

\* A byte read is the oldest, and the others stay in order.
LEMMA GetQueue ==
  ASSUME PipeConstants, Inv, ~Empty, nread' = (nread + 1) % WORD, nwrite' = nwrite, data' = data
  PROVE  Queue # <<>> /\ Queue' = Tail(Queue) /\ data[nread % PIPESIZE] = Head(Queue)
<1>1. Count' = Count - 1 /\ Count \in Nat \ {0} /\ nread \in Int
  BY CountGet, CountFacts, Sizes DEF Inv, TypeOK
<1>2. Queue \in Seq(Byte) /\ Len(Queue) = Count
  BY QueueType
<1>3. Queue' = [i \in 1 .. Count - 1 |-> data[(((nread + 1) % WORD) + i - 1) % PIPESIZE]]
  BY <1>1 DEF Queue
<1>4. \A i \in 1 .. Count - 1 : Queue'[i] = Queue[i + 1]
  <2> SUFFICES ASSUME NEW i \in 1 .. Count - 1
               PROVE  Queue'[i] = Queue[i + 1]
    OBVIOUS
  <2>1. Queue'[i] = data[(((nread + 1) % WORD) + i - 1) % PIPESIZE]
    BY <1>3, Zenon
  <2>2. (((nread + 1) % WORD) + i - 1) % PIPESIZE = (nread + (i + 1) - 1) % PIPESIZE
    <3>1. i \in Int
      OBVIOUS
    <3> QED
      BY <1>1, <3>1, Place, Zenon
  <2>3. i + 1 \in 1 .. Count
    BY <1>1
  <2>4. Queue[i + 1] = data[(nread + (i + 1) - 1) % PIPESIZE]
    BY <2>3, Zenon DEF Queue
  <2> QED
    BY <2>1, <2>2, <2>4, Zenon
<1>5. data[nread % PIPESIZE] = Queue[1]
  BY <1>1 DEF Queue
<1>6. Queue' = [i \in 1 .. Count - 1 |-> Queue'[i]]
  BY <1>1, <1>3
<1> HIDE DEF Queue
<1> QED
  BY <1>1, <1>2, <1>4, <1>5, <1>6

\* At the start the queue is empty and both ends are open.
LEMMA InitRefines ==
  ASSUME PipeConstants, Init
  PROVE  BQ!Init
<1>1. Count = 0
  BY Sizes, CountFacts, InitInv DEF Inv, Init, TypeOK, Empty
<1>2. Queue = <<>>
  BY <1>1 DEF Queue
<1> QED
  BY <1>2, Zenon DEF Init, BQ!Init, Queue

\* pipewrite's copy is Put, piperead's is Get, the last pipeclose of an end
\* closes it, and no other step touches the queue.
LEMMA StepRefines ==
  ASSUME PipeConstants, Inv, [Next]_vars
  PROVE  [BQ!Next]_(BQ!bqVars)
<1> DEFINE same == UNCHANGED <<data, nread, nwrite, readopen, writeopen, out>>
<1>1. ASSUME same PROVE UNCHANGED BQ!bqVars
  <2>1. Count' = Count
    BY <1>1 DEF Count
  <2> QED
    BY <1>1, <2>1, Zenon DEF BQ!bqVars
<1>2. ASSUME NEW p \in Proc, NEW b \in Byte, write_byte(p, b)
      PROVE  BQ!Put(b)
  <2>1. writeopen
    <3>1. pc[p] = "w"
      BY <1>2 DEF write_byte
    <3> QED
      BY <3>1, Zenon DEF Inv, Closing, OwnCalls, Proc
  <2>2. Queue' = Append(Queue, b)
    BY <1>2, PutQueue, Zenon DEF write_byte
  <2>3. Len(Queue) < PIPESIZE
    <3>1. ~Full
      BY <1>2 DEF write_byte
    <3> QED
      BY <3>1, QueueType, CountFacts, Sizes DEF Inv, TypeOK
  <2>4. UNCHANGED <<out, writeopen, readopen>>
    BY <1>2 DEF write_byte
  <2> QED
    BY <2>1, <2>2, <2>3, <2>4, Zenon DEF BQ!Put, Queue
<1>3. ASSUME NEW p \in Proc, read_byte(p)
      PROVE  BQ!Get
  <2>1. readopen
    <3>1. pc[p] = "rcopy"
      BY <1>3 DEF read_byte
    <3> QED
      BY <3>1, Zenon DEF Inv, Closing, OwnCalls, Proc
  <2>2. Queue # <<>> /\ Queue' = Tail(Queue) /\ data[nread % PIPESIZE] = Head(Queue)
    BY <1>3, GetQueue, Zenon DEF read_byte
  <2>3. out' = data[nread % PIPESIZE] /\ UNCHANGED <<writeopen, readopen>>
    BY <1>3, Zenon DEF read_byte
  <2> QED
    BY <2>1, <2>2, <2>3, Zenon DEF BQ!Get, Queue
<1>4. ASSUME NEW p \in Proc, pipeclose(p)
      PROVE  BQ!CloseWrite \/ BQ!CloseRead \/ UNCHANGED BQ!bqVars
  <2>1. Count' = Count /\ UNCHANGED <<data, nread, out>>
    BY <1>4 DEF pipeclose, Count
  <2>2. p \in Writer \/ p \in Reader
    BY DEF Proc
  <2>3. p \notin Writer \/ p \notin Reader
    BY DEF PipeConstants
  <2>4. readopen \in BOOLEAN /\ writeopen \in BOOLEAN
    BY DEF Inv, TypeOK
  <2>5. writeopen' = (writeopen /\ p \notin Writer) /\ readopen' = (readopen /\ p \notin Reader)
    BY <1>4 DEF pipeclose
  <2>6. CASE p \in Writer
    <3>1. writeopen' = FALSE /\ readopen' = readopen
      BY <2>3, <2>4, <2>5, <2>6, Zenon
    <3> QED
      BY <2>1, <2>4, <3>1, Zenon DEF BQ!CloseWrite, BQ!bqVars
  <2>7. CASE p \in Reader
    <3>1. readopen' = FALSE /\ writeopen' = writeopen
      BY <2>3, <2>4, <2>5, <2>7, Zenon
    <3> QED
      BY <2>1, <2>4, <3>1, Zenon DEF BQ!CloseRead, BQ!bqVars
  <2> QED
    BY <2>2, <2>6, <2>7
<1>5. ASSUME NEW p \in Proc,
             \/ pipewrite(p) \/ piperead(p) \/ close(p) \/ kill(p)
             \/ write_lock(p) \/ write_fail(p) \/ write_full(p) \/ write_sleep(p) \/ write_done(p)
             \/ read_lock(p) \/ read_fail(p) \/ read_empty(p) \/ read_sleep(p)
             \/ read_start(p) \/ read_done(p) \/ kfree(p)
      PROVE  same
  BY <1>5, Zenon
     DEF pipewrite, piperead, close, kill, write_lock, write_fail, write_full, write_sleep, write_done,
         read_lock, read_fail, read_empty, read_sleep, read_start, read_done, kfree, pipe
<1>6. CASE UNCHANGED vars
  BY <1>1, <1>6, Zenon DEF vars, pipe
<1> QED
  BY <1>1, <1>2, <1>3, <1>4, <1>5, <1>6, Zenon DEF Next, Step, BQ!Next

\* The pipe is a bounded first-in first-out queue of bytes: readers receive
\* what the writers put in, in order, once, also when nread and nwrite wrap.
THEOREM Refinement ==
  ASSUME PipeConstants
  PROVE  Spec => FirstInFirstOut
<1>1. Init => BQ!Init
  BY InitRefines
<1>2. Inv /\ [Next]_vars => [BQ!Next]_(BQ!bqVars)
  BY StepRefines
<1>3. Spec => []Inv
  BY Invariance
<1> QED
  BY <1>1, <1>2, <1>3, PTL DEF Spec, FirstInFirstOut, BQ!Spec
=============================================================================

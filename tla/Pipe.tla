-------------------------------- MODULE Pipe --------------------------------
(***************************************************************************)
(* pipe.c: pipewrite, piperead and pipeclose of one pipe, shared by any    *)
(* number of processes at each end.                                        *)
(*                                                                         *)
(* p->lock is explicit and a process moves one byte per step.  The counters*)
(* nread and nwrite are uints: WORD is the number of their values, and like*)
(* 2^32 a multiple of PIPESIZE.  A process is killed at any time; kill     *)
(* makes it runnable if it is asleep.                                      *)
(***************************************************************************)
EXTENDS Integers, Sequences, FiniteSets

CONSTANTS
  Writer, Reader,   \* processes that have the write end, the read end, open
  Byte,
  PIPESIZE, WORD,
  WLEN, RLEN,       \* the n of each write and each read
  None

PipeConstants ==
  /\ PIPESIZE \in Nat \ {0} /\ WORD \in Nat
  /\ WORD > PIPESIZE /\ WORD % PIPESIZE = 0
  /\ WLEN \in Nat \ {0} /\ RLEN \in Nat \ {0}
  /\ Writer \intersect Reader = {} /\ None \notin Writer \union Reader

Proc == Writer \union Reader

VARIABLES
  data, nread, nwrite, readopen, writeopen,   \* struct pipe
  lock,            \* the process that holds p->lock
  pc, left,        \* of each process: position, n - i
  killed,          \* processes with proc->killed
  fds,             \* processes that have their end open
  freed,           \* kfree was called on the pipe
  out              \* the last byte given to a reader

pipe == <<data, nread, nwrite, readopen, writeopen>>
vars == <<pipe, lock, pc, left, killed, fds, freed, out>>

\* "wlock", "rlock", "clock": about to acquire p->lock (again) in pipewrite,
\* piperead, pipeclose; "w", "r", "rcopy": in their loops with the lock;
\* "wgo", "rgo": killed was tested, sleep() is next.
PC == {"idle", "wlock", "w", "wgo", "wsleep", "rlock", "r", "rgo", "rsleep", "rcopy",
       "clock", "kfree"}

Full == nwrite = (nread + PIPESIZE) % WORD

Empty == nread = nwrite

\* Bytes in the pipe, as the uint difference.
Count == (nwrite - nread) % WORD

Init ==
  /\ data \in [0 .. PIPESIZE - 1 -> Byte]
  /\ nread = 0 /\ nwrite = 0
  /\ readopen = TRUE /\ writeopen = TRUE
  /\ lock = None
  /\ pc = [p \in Proc |-> "idle"]
  /\ left = [p \in Proc |-> 0]
  /\ killed = {}
  /\ fds = Proc
  /\ freed = FALSE
  /\ out \in Byte

acquire(p, l, m) ==
  /\ pc[p] = l /\ lock = None
  /\ lock' = p
  /\ pc' = [pc EXCEPT ![p] = m]

\* p leaves the critical section for m, after a wakeup of those asleep at c.
release(p, m, c, l) ==
  /\ lock' = None
  /\ pc' = [q \in Proc |-> IF q = p THEN m ELSE IF pc[q] = c THEN l ELSE pc[q]]

-----------------------------------------------------------------------------
(* pipewrite                                                               *)

pipewrite(p) ==
  /\ p \in Writer /\ p \in fds /\ p \notin killed
  /\ pc[p] = "idle"
  /\ pc' = [pc EXCEPT ![p] = "wlock"]
  /\ left' = [left EXCEPT ![p] = WLEN]
  /\ UNCHANGED <<pipe, lock, killed, fds, freed, out>>

write_lock(p) ==
  /\ acquire(p, "wlock", "w")
  /\ UNCHANGED <<pipe, left, killed, fds, freed, out>>

write_byte(p, b) ==
  /\ pc[p] = "w" /\ left[p] > 0 /\ ~Full
  /\ data' = [data EXCEPT ![nwrite % PIPESIZE] = b]
  /\ nwrite' = (nwrite + 1) % WORD
  /\ left' = [left EXCEPT ![p] = @ - 1]
  /\ UNCHANGED <<nread, readopen, writeopen, lock, pc, killed, fds, freed, out>>

\* Returns -1, without a wakeup
write_fail(p) ==
  /\ pc[p] = "w" /\ left[p] > 0 /\ Full
  /\ ~readopen \/ p \in killed
  /\ release(p, "idle", "none", "none")
  /\ left' = [left EXCEPT ![p] = 0]
  /\ UNCHANGED <<pipe, killed, fds, freed, out>>

write_full(p) ==
  /\ pc[p] = "w" /\ left[p] > 0 /\ Full
  /\ readopen /\ p \notin killed
  /\ pc' = [q \in Proc |-> IF q = p THEN "wgo" ELSE IF pc[q] = "rsleep" THEN "rlock" ELSE pc[q]]
  /\ UNCHANGED <<pipe, lock, left, killed, fds, freed, out>>

write_sleep(p) ==
  /\ pc[p] = "wgo"
  /\ release(p, "wsleep", "none", "none")
  /\ UNCHANGED <<pipe, left, killed, fds, freed, out>>

write_done(p) ==
  /\ pc[p] = "w" /\ left[p] = 0
  /\ release(p, "idle", "rsleep", "rlock")
  /\ UNCHANGED <<pipe, left, killed, fds, freed, out>>

-----------------------------------------------------------------------------
(* piperead                                                                *)

piperead(p) ==
  /\ p \in Reader /\ p \in fds /\ p \notin killed
  /\ pc[p] = "idle"
  /\ pc' = [pc EXCEPT ![p] = "rlock"]
  /\ left' = [left EXCEPT ![p] = RLEN]
  /\ UNCHANGED <<pipe, lock, killed, fds, freed, out>>

read_lock(p) ==
  /\ acquire(p, "rlock", "r")
  /\ UNCHANGED <<pipe, left, killed, fds, freed, out>>

read_fail(p) ==
  /\ pc[p] = "r" /\ Empty /\ writeopen /\ p \in killed
  /\ release(p, "idle", "none", "none")
  /\ left' = [left EXCEPT ![p] = 0]
  /\ UNCHANGED <<pipe, killed, fds, freed, out>>

read_empty(p) ==
  /\ pc[p] = "r" /\ Empty /\ writeopen /\ p \notin killed
  /\ pc' = [pc EXCEPT ![p] = "rgo"]
  /\ UNCHANGED <<pipe, lock, left, killed, fds, freed, out>>

read_sleep(p) ==
  /\ pc[p] = "rgo"
  /\ release(p, "rsleep", "none", "none")
  /\ UNCHANGED <<pipe, left, killed, fds, freed, out>>

\* Woken once, the reader does not test for an empty pipe again.
read_start_NoRetest(p) ==
  /\ pc[p] = "r"
  /\ pc' = [pc EXCEPT ![p] = "rcopy"]
  /\ UNCHANGED <<pipe, lock, left, killed, fds, freed, out>>

read_start(p) ==
  /\ pc[p] = "r" /\ ~(Empty /\ writeopen)
  /\ pc' = [pc EXCEPT ![p] = "rcopy"]
  /\ UNCHANGED <<pipe, lock, left, killed, fds, freed, out>>

\* The byte is taken after the counter has moved.
read_byte_PreIncrement(p) ==
  /\ pc[p] = "rcopy" /\ left[p] > 0 /\ ~Empty
  /\ out' = data[(nread + 1) % PIPESIZE]
  /\ nread' = (nread + 1) % WORD
  /\ left' = [left EXCEPT ![p] = @ - 1]
  /\ UNCHANGED <<data, nwrite, readopen, writeopen, lock, pc, killed, fds, freed>>

read_byte(p) ==
  /\ pc[p] = "rcopy" /\ left[p] > 0 /\ ~Empty
  /\ out' = data[nread % PIPESIZE]
  /\ nread' = (nread + 1) % WORD
  /\ left' = [left EXCEPT ![p] = @ - 1]
  /\ UNCHANGED <<data, nwrite, readopen, writeopen, lock, pc, killed, fds, freed>>

read_done(p) ==
  /\ pc[p] = "rcopy" /\ (left[p] = 0 \/ Empty)
  /\ release(p, "idle", "wsleep", "wlock")
  /\ left' = [left EXCEPT ![p] = 0]
  /\ UNCHANGED <<pipe, killed, fds, freed, out>>

-----------------------------------------------------------------------------
(* pipeclose, called by fileclose for the last reference to an end; kill    *)

\* The processes that have the same end open as p.
Peers(p) == IF p \in Writer THEN Writer ELSE Reader

close(p) ==
  /\ p \in fds /\ pc[p] = "idle"
  /\ fds' = fds \ {p}
  /\ pc' = [pc EXCEPT ![p] = IF fds' \intersect Peers(p) = {} THEN "clock" ELSE @]
  /\ UNCHANGED <<pipe, lock, left, killed, freed, out>>

\* The two tests that free the pipe joined by "or".
pipeclose_FreesEarly(p) ==
  /\ pc[p] = "clock" /\ lock = None
  /\ writeopen' = (writeopen /\ p \notin Writer)
  /\ readopen' = (readopen /\ p \notin Reader)
  /\ pc' = [q \in Proc |->
       IF q = p THEN IF ~readopen' \/ ~writeopen' THEN "kfree" ELSE "idle"
       ELSE IF p \in Writer /\ pc[q] = "rsleep" THEN "rlock"
       ELSE IF p \in Reader /\ pc[q] = "wsleep" THEN "wlock" ELSE pc[q]]
  /\ UNCHANGED <<data, nread, nwrite, lock, left, killed, fds, freed, out>>

\* Each close wakes its own end instead of the other one.
pipeclose_WakesOwnEnd(p) ==
  /\ pc[p] = "clock" /\ lock = None
  /\ writeopen' = (writeopen /\ p \notin Writer)
  /\ readopen' = (readopen /\ p \notin Reader)
  /\ pc' = [q \in Proc |->
       IF q = p THEN IF ~readopen' /\ ~writeopen' THEN "kfree" ELSE "idle"
       ELSE IF p \in Reader /\ pc[q] = "rsleep" THEN "rlock"
       ELSE IF p \in Writer /\ pc[q] = "wsleep" THEN "wlock" ELSE pc[q]]
  /\ UNCHANGED <<data, nread, nwrite, lock, left, killed, fds, freed, out>>

\* The body runs under p->lock from acquire to release; kfree comes after.
pipeclose(p) ==
  /\ pc[p] = "clock" /\ lock = None
  /\ writeopen' = (writeopen /\ p \notin Writer)
  /\ readopen' = (readopen /\ p \notin Reader)
  /\ pc' = [q \in Proc |->
       IF q = p THEN IF ~readopen' /\ ~writeopen' THEN "kfree" ELSE "idle"
       ELSE IF p \in Writer /\ pc[q] = "rsleep" THEN "rlock"
       ELSE IF p \in Reader /\ pc[q] = "wsleep" THEN "wlock" ELSE pc[q]]
  /\ UNCHANGED <<data, nread, nwrite, lock, left, killed, fds, freed, out>>

kfree(p) ==
  /\ pc[p] = "kfree"
  /\ freed' = TRUE
  /\ pc' = [pc EXCEPT ![p] = "idle"]
  /\ UNCHANGED <<pipe, lock, left, killed, fds, out>>

kill(p) ==
  /\ p \notin killed
  /\ killed' = killed \union {p}
  /\ pc' = [pc EXCEPT ![p] = CASE @ = "wsleep" -> "wlock" [] @ = "rsleep" -> "rlock" [] OTHER -> @]
  /\ UNCHANGED <<pipe, lock, left, fds, freed, out>>

-----------------------------------------------------------------------------
\* The steps of a call in progress.
Step(p) ==
  \/ write_lock(p) \/ (\E b \in Byte : write_byte(p, b))
  \/ write_fail(p) \/ write_full(p) \/ write_sleep(p) \/ write_done(p)
  \/ read_lock(p) \/ read_fail(p) \/ read_empty(p) \/ read_sleep(p)
  \/ read_start(p) \/ read_byte(p) \/ read_done(p)
  \/ pipeclose(p) \/ kfree(p)

Next == \E p \in Proc : pipewrite(p) \/ piperead(p) \/ close(p) \/ kill(p) \/ Step(p)

Spec == Init /\ [][Next]_vars

-----------------------------------------------------------------------------
(* Properties                                                              *)

Waiting == {p \in Proc : pc[p] \in {"wsleep", "rsleep"}}

Critical == {p \in Proc : pc[p] \in {"w", "wgo", "r", "rgo", "rcopy"}}

\* Types; the uint counters never differ by more than the buffer holds, also
\* after they have wrapped, and the holder of p->lock is the one process in
\* the critical section.
TypeOK ==
  /\ data \in [0 .. PIPESIZE - 1 -> Byte]
  /\ nread \in 0 .. WORD - 1 /\ nwrite \in 0 .. WORD - 1
  /\ Count <= PIPESIZE
  /\ readopen \in BOOLEAN /\ writeopen \in BOOLEAN /\ freed \in BOOLEAN
  /\ lock \in Proc \union {None}
  /\ Critical = {lock} \ {None}
  /\ pc \in [Proc -> PC]
  /\ left \in [Proc -> Nat]
  /\ killed \subseteq Proc /\ fds \subseteq Proc
  /\ out \in Byte

\* Nobody sleeps on a condition that has come true: a writer sleeps only while
\* the pipe is full and open for reading, a reader only while it is open for
\* writing and, as long as no writer is killed, empty; or else the process that
\* changed this still holds p->lock and its wakeup is to come.
SleepersWoken ==
  \A p \in Proc :
    /\ pc[p] = "wsleep" => readopen /\ (Full \/ lock \in Reader)
    /\ pc[p] = "rsleep" => /\ writeopen
                           /\ Empty \/ lock \in Writer \/ Writer \intersect killed # {}

\* "while(p->nread == p->nwrite && p->writeopen){  //DOC: pipe-empty": piperead
\* sleeps while the pipe is empty.  So a reader still asleep when p->lock is
\* free has nothing to read.
ReaderSleepsOnEmpty ==
  lock = None => \A p \in Reader : pc[p] = "rsleep" => Empty

\* The pipe is freed by one process, when no process is inside a pipe
\* operation and none has an end open that could enter one.
FreedOnlyUnused ==
  \A p \in Proc : (pc[p] = "kfree" \/ freed) =>
    /\ fds = {} /\ ~readopen /\ ~writeopen
    /\ \A q \in Proc \ {p} : pc[q] = "idle"
    /\ freed => pc[p] = "idle"

\* The three together: the counters stay at most PIPESIZE apart, the pipe is freed
\* once and unused, and every sleeper in pipewrite and piperead is woken.
PipeConsistent == TypeOK /\ FreedOnlyUnused /\ SleepersWoken

\* A read that returns 0 is the end of the file: no bytes are left and the
\* last writer has closed its end.
ZeroMeansEof ==
  [][\A p \in Proc : read_done(p) /\ left[p] = RLEN => Empty /\ ~writeopen]_vars

\* The buffer and the two counters are a queue: readers receive the bytes in
\* the order in which the writers put them, none twice, none lost.
BQ == INSTANCE ByteQueue WITH
        Capacity <- PIPESIZE,
        q <- [i \in 1 .. Count |-> data[(nread + i - 1) % PIPESIZE]],
        wopen <- writeopen, ropen <- readopen

\* Every step of the pipe is a step of that queue or changes nothing in it.
FirstInFirstOut == BQ!Spec

\* When the last writer has closed, every reader in piperead returns.
EofDelivered ==
  \A p \in Reader : (pc[p] # "idle" /\ ~writeopen) ~> pc[p] = "idle"

\* When the last reader has closed, every writer in pipewrite returns.
WriterReleased ==
  \A p \in Writer : (pc[p] # "idle" /\ ~readopen) ~> pc[p] = "idle"
=============================================================================

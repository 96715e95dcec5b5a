------------------------------- MODULE MCSync -------------------------------
(***************************************************************************)
(* The three components in which processes sleep and wake one another      *)
(* under spin locks: the scheduler, a pipe and the buffer cache.  They     *)
(* share no state, so a behaviour is about one of them, chosen at the      *)
(* start, and the others stay in an initial state.  Safety is checked here *)
(* for the scheduler only: for the pipe see MCPipe, for the buffer cache   *)
(* MCFrames.                                                               *)
(***************************************************************************)
EXTENDS Sched, TLC

CONSTANTS
  Parts,                                                     \* parts to choose from
  Writer, Reader, Byte, PIPESIZE, WORD, WLEN, RLEN,          \* Pipe
  User, NBUF, Sector, Value, Zero, MaxHold, MaxPin           \* Bcache

VARIABLES
  part,
  data, nread, nwrite, readopen, writeopen, lock, ppc, left, killed, fds, freed, out,
  disk, bsec, bdata, busy, valid, dirty, lru, idequeue, cmd, irq, bpc, want, chan, hold, panicked

Pip == INSTANCE Pipe WITH pc <- ppc
Buf == INSTANCE Bcache WITH Proc <- User, DiskErrors <- FALSE, data <- bdata, pc <- bpc

ASSUME PipeAndCacheConstants == Pip!PipeConstants /\ Buf!BcacheConstants

pvars == <<data, nread, nwrite, readopen, writeopen, lock, ppc, left, killed, fds, freed, out>>
bvars == <<disk, bsec, bdata, busy, valid, dirty, lru, idequeue, cmd, irq, bpc, want, chan, hold, panicked>>

(* The first contents of a pipe's page are anything; while another part    *)
(* runs they do not matter.                                                *)
MCInit ==
  /\ part \in Parts /\ Init /\ Pip!Init /\ Buf!Init
  /\ part # "pipe" => \A i \in DOMAIN data : data[i] = out
  /\ part # "pipe" => out = CHOOSE b \in Byte : TRUE

MCNext ==
  /\ \/ part = "sched"  /\ Next     /\ UNCHANGED <<pvars, bvars>>
     \/ part = "pipe"   /\ Pip!Next /\ UNCHANGED <<vars, bvars>>
     \/ part = "bcache" /\ Buf!Next /\ UNCHANGED <<vars, pvars>>
  /\ UNCHANGED part

MCSpec == MCInit /\ [][MCNext]_<<part, vars, pvars, bvars>>

(* CPUs run, and the timer interrupts a process that stays interruptible.  *)
Scheduled ==
  \A c \in CPU :
    /\ WF_vars(part = "sched" /\ scheduler(c))
    /\ \A p \in Proc : /\ WF_vars(part = "sched" /\ Continue(c, p))
                       /\ SF_vars(part = "sched" /\ yield_acquire(c, p))

(* A runnable process is scheduled.  No strong fairness of p->lock is      *)
(* needed: once an end is closed, only the other end contends for it.      *)
Moves == \A p \in Writer \union Reader : WF_pvars(part = "pipe" /\ Pip!Step(p))

(* The controller answers, interrupts are taken and runnable processes     *)
(* run.  SF: a process writes a buffer a bounded number of times before    *)
(* brelse.                                                                 *)
On == part = "bcache" /\ ~panicked
Served ==
  /\ WF_bvars(On /\ Buf!controller) /\ WF_bvars(On /\ Buf!ideintr)
  /\ \A p \in User : /\ WF_bvars(On /\ Buf!bget(p))
                     /\ WF_bvars(On /\ Buf!sync(p))
                     /\ SF_bvars(On /\ Buf!brelse(p))

MCFairSpec == MCSpec /\ Scheduled /\ Moves /\ Served

CPUs == Permutations(CPU)

-----------------------------------------------------------------------------
(* Liveness, where nobody can keep a spin lock from its next holder: one   *)
(* CPU, and one process at each end.                                       *)

(* Round robin: a runnable process is run, whatever the others do, and a   *)
(* process asleep while its condition holds is made runnable.              *)
ProcessesRun == part = "sched" => RunnableRuns /\ SleeperWakes

(* Neither end of a pipe waits for an end that has closed: a waiting       *)
(* reader gets its end of file, a waiting writer its error.                *)
EndsReleased == part = "pipe" => Pip!EofDelivered /\ Pip!WriterReleased

(* A transfer asked of the disk ends, unless bget runs out of buffers and  *)
(* panics first: it can, when all buffers are pinned or held.              *)
TransferCompletes == part = "bcache" => Buf!TransferCompletes
=============================================================================

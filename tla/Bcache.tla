------------------------------- MODULE Bcache -------------------------------
(***************************************************************************)
(* The buffer cache (bio.c) and the IDE driver below it (ide.c).           *)
(*                                                                         *)
(* Processes get exclusive use of a buffer with bread, change it and either*)
(* write it through with bwrite or leave it pinned by B_DIRTY as log_write *)
(* does, and hand it back with brelse.  A section of code under bcache.lock*)
(* or idelock is one step; the process leaves the processor only in sleep. *)
(* bget and iderw sleep on the same channel, the buffer, so either may be  *)
(* woken by the other's wakeup and must look again.                        *)
(***************************************************************************)
EXTENDS Integers, Sequences, FiniteSets, FiniteSetsExt, Functions

CONSTANTS
  Proc,
  NBUF,        \* param.h: number of buffers
  Sector,      \* sectors in use, numbered in the order in which they nest
  Value,       \* contents of a sector
  Zero,        \* contents of a buffer never used
  MaxHold,     \* buffers one process may hold at a time
  MaxPin,      \* LOGSIZE - 1: buffers log_write may pin
  DiskErrors,  \* whether a read may end with IDE_ERR or IDE_DF
  None

BcacheConstants ==
  /\ NBUF \in Nat \ {0}
  /\ Sector \subseteq Nat
  /\ Zero \in Value
  /\ MaxHold \in Nat /\ MaxPin \in Nat
  /\ DiskErrors \in BOOLEAN
  /\ None \notin Sector /\ None \notin [sec : Sector, write : BOOLEAN, val : Value]

Buf == 1 .. NBUF

VARIABLES
  disk,                \* what the platters hold
  bsec, data,          \* sector and contents of each buffer
  busy, valid, dirty,  \* buffers with B_BUSY, B_VALID, B_DIRTY
  lru,                 \* the list of bcache.head, most recently used first
  idequeue,            \* buffers waiting for the disk; the first is in progress
  cmd,                 \* the command the controller was given, or None
  irq,                 \* the controller has finished and raised IRQ_IDE
  pc, want, chan,      \* of each process: position, bget's sector, sleep channel
  hold,                \* buffers each process got from bread, oldest first
  panicked

flags == <<busy, valid, dirty>>
cache == <<bsec, data, busy, valid, dirty, lru>>
ide == <<disk, idequeue, cmd, irq>>
procs == <<pc, want, chan, hold>>
vars == <<cache, ide, procs, panicked>>

\* "bget", "iderw": about to (re)do the scan, or to queue the buffer;
\* "iowait": in the loop at the end of iderw, awake.
PC == {"run", "bget", "bsleep", "iderw", "iosleep", "iowait"}

InIO == {"iderw", "iosleep", "iowait"}

Last(s) == s[Len(s)]
RemoveAt(s, i) == SubSeq(s, 1, i - 1) \o SubSeq(s, i + 1, Len(s))

Cached(s) == {b \in Buf : bsec[b] = s}

\* Buffers pinned by log_write, as opposed to those on their way to the disk.
Pinned == dirty \ {Last(hold[p]) : p \in {q \in Proc : pc[q] \in InIO}}

Victims_EvenDirty == {i \in 1 .. NBUF : lru[i] \notin busy}

\* The first clean idle buffer from the tail of the list: index in lru.
Victims == {i \in 1 .. NBUF : lru[i] \notin busy /\ lru[i] \notin dirty}

Victim == lru[Max(Victims)]

Init ==
  /\ disk \in [Sector -> Value]
  /\ bsec = [b \in Buf |-> None]
  /\ data = [b \in Buf |-> Zero]
  /\ busy = {} /\ valid = {} /\ dirty = {}
  /\ lru = [i \in Buf |-> NBUF + 1 - i]
  /\ idequeue = <<>> /\ cmd = None /\ irq = FALSE
  /\ pc = [p \in Proc |-> "run"]
  /\ want = [p \in Proc |-> None]
  /\ chan = [p \in Proc |-> None]
  /\ hold = [p \in Proc |-> <<>>]
  /\ panicked = FALSE

-----------------------------------------------------------------------------
(* bio.c                                                                   *)

\* A process that holds a buffer asks only for a later one: the file system
\* nests an indirect block, then the bitmap block, then a log block.  The one
\* exception is left out: install_trans holds a log block and reads its home
\* block, and as the only user of log blocks it closes no cycle.
bread(p, s) ==
  /\ pc[p] = "run" /\ Len(hold[p]) < MaxHold
  /\ \A i \in 1 .. Len(hold[p]) : bsec[hold[p][i]] < s
  /\ pc' = [pc EXCEPT ![p] = "bget"]
  /\ want' = [want EXCEPT ![p] = s]
  /\ UNCHANGED <<cache, ide, chan, hold, panicked>>

bget_hit(p) ==
  /\ pc[p] = "bget"
  /\ \E b \in Cached(want[p]) :
       /\ b \notin busy
       /\ busy' = busy \union {b}
       /\ hold' = [hold EXCEPT ![p] = Append(@, b)]
       /\ pc' = [pc EXCEPT ![p] = IF b \in valid THEN "run" ELSE "iderw"]
  /\ want' = [want EXCEPT ![p] = None]
  /\ UNCHANGED <<bsec, data, valid, dirty, lru, ide, chan, panicked>>

bget_sleep(p) ==
  /\ pc[p] = "bget"
  /\ \E b \in Cached(want[p]) :
       b \in busy /\ chan' = [chan EXCEPT ![p] = b]
  /\ pc' = [pc EXCEPT ![p] = "bsleep"]
  /\ UNCHANGED <<cache, ide, want, hold, panicked>>

bget_recycle_NoRescan(p) ==
  /\ pc[p] = "bget" /\ Victims # {}
  /\ bsec' = [bsec EXCEPT ![Victim] = want[p]]
  /\ busy' = busy \union {Victim}
  /\ valid' = valid \ {Victim}
  /\ hold' = [hold EXCEPT ![p] = Append(@, Victim)]
  /\ pc' = [pc EXCEPT ![p] = "iderw"]
  /\ want' = [want EXCEPT ![p] = None]
  /\ UNCHANGED <<data, dirty, lru, ide, chan, panicked>>

bget_recycle(p) ==
  /\ pc[p] = "bget" /\ Cached(want[p]) = {} /\ Victims # {}
  /\ bsec' = [bsec EXCEPT ![Victim] = want[p]]
  /\ busy' = busy \union {Victim}
  /\ valid' = valid \ {Victim}
  /\ hold' = [hold EXCEPT ![p] = Append(@, Victim)]
  /\ pc' = [pc EXCEPT ![p] = "iderw"]
  /\ want' = [want EXCEPT ![p] = None]
  /\ UNCHANGED <<data, dirty, lru, ide, chan, panicked>>

bget_panic(p) ==
  /\ pc[p] = "bget" /\ Cached(want[p]) = {} /\ Victims = {}
  /\ panicked' = TRUE
  /\ UNCHANGED <<cache, ide, procs>>

\* The holder fills the buffer and writes it through.
bwrite(p, v) ==
  /\ pc[p] = "run" /\ hold[p] # <<>>
  /\ data' = [data EXCEPT ![Last(hold[p])] = v]
  /\ dirty' = dirty \union {Last(hold[p])}
  /\ pc' = [pc EXCEPT ![p] = "iderw"]
  /\ UNCHANGED <<bsec, busy, valid, lru, ide, want, chan, hold, panicked>>

\* log_write: the holder has filled the buffer and leaves it pinned.
log_write(p, v) ==
  /\ pc[p] = "run" /\ hold[p] # <<>>
  /\ Cardinality(Pinned \union {Last(hold[p])}) <= MaxPin
  /\ data' = [data EXCEPT ![Last(hold[p])] = v]
  /\ dirty' = dirty \union {Last(hold[p])}
  /\ UNCHANGED <<bsec, busy, valid, lru, ide, procs, panicked>>

\* wakeup(b): sleepers in bget scan again, sleepers in iderw test the flags again.
Woken(b) ==
  [q \in Proc |-> IF pc[q] = "bsleep" /\ chan[q] = b THEN "bget"
                  ELSE IF pc[q] = "iosleep" /\ chan[q] = b THEN "iowait"
                  ELSE pc[q]]

WokenChan(b) == [q \in Proc |-> IF chan[q] = b THEN None ELSE chan[q]]

brelse_NoWakeup(p) ==
  /\ pc[p] = "run"
  /\ \E i \in 1 .. Len(hold[p]), j \in Buf : LET b == hold[p][i] IN
       /\ lru[j] = b
       /\ lru' = <<b>> \o RemoveAt(lru, j)
       /\ busy' = busy \ {b}
       /\ hold' = [hold EXCEPT ![p] = RemoveAt(@, i)]
  /\ UNCHANGED <<bsec, data, valid, dirty, ide, pc, want, chan, panicked>>

\* Unlinks the buffer, the j-th of the list, and puts it first.
brelse(p) ==
  /\ pc[p] = "run"
  /\ \E i \in 1 .. Len(hold[p]), j \in Buf : LET b == hold[p][i] IN
       /\ lru[j] = b
       /\ lru' = <<b>> \o RemoveAt(lru, j)
       /\ busy' = busy \ {b}
       /\ hold' = [hold EXCEPT ![p] = RemoveAt(@, i)]
       /\ pc' = Woken(b)
       /\ chan' = WokenChan(b)
  /\ UNCHANGED <<bsec, data, valid, dirty, ide, want, panicked>>

-----------------------------------------------------------------------------
(* ide.c                                                                   *)

\* idestart(b): the sector, the direction and, for a write, the data go to the
\* controller at once.
Command(b) == [sec |-> bsec[b], write |-> b \in dirty, val |-> data[b]]

iderw_AlwaysStarts(p) ==
  /\ pc[p] = "iderw"
  /\ idequeue' = Append(idequeue, Last(hold[p]))
  /\ cmd' = Command(Last(hold[p]))
  /\ chan' = [chan EXCEPT ![p] = Last(hold[p])]
  /\ pc' = [pc EXCEPT ![p] = "iosleep"]
  /\ UNCHANGED <<cache, disk, irq, want, hold, panicked>>

\* Append to idequeue, start the disk if the queue was empty, and sleep: the
\* flags cannot be right yet.
iderw(p) ==
  /\ pc[p] = "iderw"
  /\ idequeue' = Append(idequeue, Last(hold[p]))
  /\ cmd' = IF idequeue = <<>> THEN Command(Last(hold[p])) ELSE cmd
  /\ chan' = [chan EXCEPT ![p] = Last(hold[p])]
  /\ pc' = [pc EXCEPT ![p] = "iosleep"]
  /\ UNCHANGED <<cache, disk, irq, want, hold, panicked>>

\* The controller carries out its command and raises the interrupt.
controller ==
  /\ cmd # None /\ ~irq
  /\ disk' = IF cmd.write THEN [disk EXCEPT ![cmd.sec] = cmd.val] ELSE disk
  /\ irq' = TRUE
  /\ UNCHANGED <<cache, idequeue, cmd, procs, panicked>>

ideintr_KeepsHead ==
  /\ irq /\ idequeue # <<>>
  /\ LET b == Head(idequeue)
     IN /\ data' = IF b \in dirty THEN data ELSE [data EXCEPT ![b] = disk[cmd.sec]]
        /\ valid' = valid \union {b}
        /\ dirty' = dirty \ {b}
        /\ pc' = Woken(b)
        /\ chan' = WokenChan(b)
  /\ irq' = FALSE
  /\ UNCHANGED <<idequeue, cmd, disk, bsec, busy, lru, want, hold, panicked>>

\* Data is read unless idewait reports an error; the flags change in any case.
ideintr ==
  /\ irq /\ idequeue # <<>>
  /\ LET b == Head(idequeue)
         rest == Tail(idequeue)
     IN /\ idequeue' = rest
        /\ data' \in {IF b \in dirty \/ err THEN data
                      ELSE [data EXCEPT ![b] = disk[cmd.sec]] :
                      err \in {FALSE, DiskErrors}}
        /\ valid' = valid \union {b}
        /\ dirty' = dirty \ {b}
        /\ pc' = Woken(b)
        /\ chan' = WokenChan(b)
        /\ cmd' = IF rest = <<>> THEN None ELSE Command(Head(rest))
  /\ irq' = FALSE
  /\ UNCHANGED <<disk, bsec, busy, lru, want, hold, panicked>>

\* The loop at the end of iderw: return, or sleep again.
iderw_loop(p) ==
  /\ pc[p] = "iowait"
  /\ IF Last(hold[p]) \in valid \ dirty
     THEN pc' = [pc EXCEPT ![p] = "run"] /\ UNCHANGED chan
     ELSE pc' = [pc EXCEPT ![p] = "iosleep"]
          /\ chan' = [chan EXCEPT ![p] = Last(hold[p])]
  /\ UNCHANGED <<cache, ide, want, hold, panicked>>

-----------------------------------------------------------------------------
bget(p) == bget_hit(p) \/ bget_sleep(p) \/ bget_recycle(p) \/ bget_panic(p)

sync(p) == iderw(p) \/ iderw_loop(p)

Running ==
  \/ \E p \in Proc :
       \/ \E s \in Sector : bread(p, s)
       \/ \E v \in Value : bwrite(p, v) \/ log_write(p, v)
       \/ bget(p) \/ sync(p) \/ brelse(p)
  \/ controller
  \/ ideintr

\* After panic the machine spins: that stop is not a deadlock of the cache.
Next == (~panicked /\ Running) \/ (panicked /\ UNCHANGED vars)

Spec == Init /\ [][Next]_vars

-----------------------------------------------------------------------------
(* Properties.                                                             *)

\* Every variable has its type; the LRU list stays a permutation of the buffers
\* through the unlinking and relinking of brelse.
TypeOK ==
  /\ disk \in [Sector -> Value]
  /\ bsec \in [Buf -> Sector \union {None}]
  /\ data \in [Buf -> Value]
  /\ busy \subseteq Buf /\ valid \subseteq Buf /\ dirty \subseteq Buf
  /\ lru \in [Buf -> Buf] /\ Range(lru) = Buf
  /\ Range(idequeue) \subseteq Buf
  /\ cmd \in [sec : Sector, write : BOOLEAN, val : Value] \union {None}
  /\ irq \in BOOLEAN
  /\ pc \in [Proc -> PC]
  /\ want \in [Proc -> Sector \union {None}]
  /\ chan \in [Proc -> Buf \union {None}]
  /\ \A p \in Proc : Range(hold[p]) \subseteq Buf /\ Len(hold[p]) <= MaxHold
  /\ panicked \in BOOLEAN

\* No sector is ever cached twice, although a process that slept in bget finds
\* the cache changed: bget scans again from the start before it recycles.
OneBufferPerSector ==
  \A b, c \in Buf : bsec[b] = bsec[c] /\ bsec[b] # None => b = c

\* A buffer is busy exactly while one process has it between bread and brelse
\* ("Only one process at a time can use a buffer").
OneHolder ==
  /\ busy = UNION {Range(hold[p]) : p \in Proc}
  /\ \A p, q \in Proc : p # q => Range(hold[p]) \intersect Range(hold[q]) = {}

\* The three together: a sector has at most one buffer, a busy buffer exactly one
\* holder, and brelse's relinking keeps every buffer in the list.
ExclusiveUse == TypeOK /\ OneBufferPerSector /\ OneHolder

\* A clean valid buffer agrees with the disk and the controller always works on
\* the first buffer of the queue with that buffer's current contents, so what
\* bread returns is the sector's contents and nothing is written stale.
BufferMatchesDisk ==
  /\ \A b \in valid \ dirty : data[b] = disk[bsec[b]]
  /\ (cmd = None) <=> (idequeue = <<>>)
  /\ idequeue # <<>> => cmd = Command(Head(idequeue))

\* bread's caller always has a buffer with the contents of the sector: valid,
\* and, unless it or the log has changed it since, equal to the disk ("Return a
\* B_BUSY buf with the contents of the indicated disk sector").
BreadReturnsContents ==
  \A p \in Proc : pc[p] = "run" =>
    \A b \in Range(hold[p]) : b \in valid /\ (b \notin dirty => data[b] = disk[bsec[b]])

\* Every sleeper will be woken: one in bget waits for a buffer still busy, one
\* in iderw for a buffer still queued, queued once; and a process woken in iderw
\* finds its transfer done although bget's sleepers share the channel.
NoLostWakeup ==
  \A p \in Proc :
    /\ pc[p] = "bsleep" => chan[p] \in busy
    /\ pc[p] = "iosleep" =>
         /\ chan[p] = Last(hold[p])
         /\ Cardinality({i \in 1 .. Len(idequeue) : idequeue[i] = chan[p]}) = 1
    /\ pc[p] = "iowait" => Last(hold[p]) \in valid \ dirty

\* What a reader of sector s gets: the cached copy if there is one that counts.
Contents(s) ==
  IF \E b \in Cached(s) : b \in valid \union dirty
  THEN data[CHOOSE b \in Cached(s) : b \in valid \union dirty]
  ELSE disk[s]

\* The contents of a sector change only when the process that holds its buffer
\* writes them: recycling, transfers and interrupts never lose or revive data.
OnlyHolderWrites ==
  [][\A s \in Sector : Contents(s)' # Contents(s) =>
       \E p \in Proc : pc[p] = "run" /\ hold[p] # <<>> /\ bsec[Last(hold[p])] = s]_vars

\* Every transfer that is asked for completes, unless bget stops the machine
\* first because all buffers are busy or pinned ("panic: bget: no buffers").
TransferCompletes ==
  \A p \in Proc : pc[p] \in InIO ~> (pc[p] = "run" \/ panicked)
=============================================================================

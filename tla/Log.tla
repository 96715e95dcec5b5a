-------------------------------- MODULE Log ---------------------------------
(***************************************************************************)
(* The physical re-do log of log.c.  Processes run transactions one at a   *)
(* time; log_write puts a copy of a modified buffer into the log area and  *)
(* pins the buffer; commit_trans writes the log header (the commit point), *)
(* copies every logged block home and erases the header.  The machine may  *)
(* stop between any two disk writes, recovery included.                    *)
(*                                                                         *)
(* One step performs at most one disk write, so every instant at which the *)
(* disk can be caught by a crash is a state of the model.  A sector write  *)
(* is atomic.  The buffer cache is seen through `buf' and `dirty' only;    *)
(* its buffers, its I/O queue and its locks are the subject of Bcache.     *)
(***************************************************************************)
EXTENDS Naturals, Sequences

CONSTANTS
  Proc,      \* processes that make system calls
  Block,     \* sectors of the file system outside the log
  Value,     \* contents of a sector
  LOGSIZE,   \* param.h: entries of struct logheader
  NLOG,      \* sb.nlog: sectors of the log area, header included
  Uncached   \* "no buffer holds this sector"

ASSUME LogAssumption ==
  /\ LOGSIZE \in Nat \ {0}
  /\ NLOG \in Nat \ {0}
  /\ Uncached \notin Value

VARIABLES
  disk,      \* home location of every block
  logblk,    \* log.start+1 .. log.start+size-1
  head,      \* the header block on disk: the first n entries of sector[]
  buf,       \* cached contents of every block
  dirty,     \* blocks whose buffer has B_DIRTY: they cannot be recycled
  lh,        \* log.lh, the header in memory
  tail,      \* install_trans's loop index, 0 outside the loop
  busy,      \* log.busy
  pc,        \* where each process is
  mode       \* what the machine is doing

persistent == <<disk, logblk, head>>
vars == <<disk, logblk, head, buf, dirty, lh, tail, busy, pc, mode>>

Slot == 1 .. (NLOG - 1)

\* "ended": after the second write_head of commit_trans, before log.busy = 0.
PC == {"idle", "asleep", "trans", "install", "ended"}

\* A process between the end of begin_trans and the release in commit_trans.
InTrans == {"trans", "install", "ended"}

Sectors(h) == {h[i] : i \in 1 .. Len(h)}

\* The position of sector b in header h, or the first free one: the for loop of log_write.
SlotOf(h, b) ==
  IF b \in Sectors(h) THEN CHOOSE i \in 1 .. Len(h) : h[i] = b ELSE Len(h) + 1

\* log.lh.n >= LOGSIZE || log.lh.n >= log.size - 1
TooBig == Len(lh) >= LOGSIZE \/ Len(lh) >= NLOG - 1

\* What bread() returns for b.
View == [b \in Block |-> IF buf[b] = Uncached THEN disk[b] ELSE buf[b]]

\* What recovery would make of the disk as it is.
Recovered ==
  [b \in Block |-> IF b \in Sectors(head) THEN logblk[SlotOf(head, b)] ELSE disk[b]]

Init ==
  /\ disk \in [Block -> Value]
  /\ logblk \in [Slot -> Value]
  /\ head = <<>>
  /\ buf = [b \in Block |-> Uncached]
  /\ dirty = {}
  /\ lh = <<>>
  /\ tail = 0
  /\ busy = FALSE
  /\ pc = [p \in Proc |-> "idle"]
  /\ mode = "boot"

-----------------------------------------------------------------------------
(* Transactions.                                                           *)

begin_trans(p) ==
  /\ mode = "up" /\ pc[p] = "idle" /\ ~busy
  /\ busy' = TRUE
  /\ pc' = [pc EXCEPT ![p] = "trans"]
  /\ UNCHANGED <<persistent, buf, dirty, lh, tail, mode>>

begin_trans_sleep(p) ==
  /\ mode = "up" /\ pc[p] = "idle" /\ busy
  /\ pc' = [pc EXCEPT ![p] = "asleep"]
  /\ UNCHANGED <<persistent, buf, dirty, lh, tail, busy, mode>>

log_write_NoPin(p, b, v) ==
  /\ mode = "up" /\ pc[p] = "trans" /\ busy /\ ~TooBig
  /\ logblk' = [logblk EXCEPT ![SlotOf(lh, b)] = v]
  /\ lh' = IF b \in Sectors(lh) THEN lh ELSE Append(lh, b)
  /\ buf' = [buf EXCEPT ![b] = v]
  /\ UNCHANGED <<disk, head, dirty, tail, busy, pc, mode>>

\* The caller reads b, sets its contents to v and calls log_write.
log_write(p, b, v) ==
  /\ mode = "up" /\ pc[p] = "trans" /\ busy /\ ~TooBig
  /\ logblk' = [logblk EXCEPT ![SlotOf(lh, b)] = v]
  /\ lh' = IF b \in Sectors(lh) THEN lh ELSE Append(lh, b)
  /\ buf' = [buf EXCEPT ![b] = v]
  /\ dirty' = dirty \union {b}
  /\ UNCHANGED <<disk, head, tail, busy, pc, mode>>

log_write_panic(p) ==
  /\ mode = "up" /\ pc[p] = "trans" /\ TooBig
  /\ mode' = "panic"
  /\ UNCHANGED <<persistent, buf, dirty, lh, tail, busy, pc>>

\* The first write_head of commit_trans.
write_head(p) ==
  /\ mode = "up" /\ pc[p] = "trans" /\ lh # <<>>
  /\ head' = lh
  /\ pc' = [pc EXCEPT ![p] = "install"]
  /\ UNCHANGED <<disk, logblk, buf, dirty, lh, tail, busy, mode>>

\* One iteration of install_trans: copy a log block home, through the cache.
InstallOne ==
  /\ tail < Len(lh)
  /\ disk' = [disk EXCEPT ![lh[tail + 1]] = logblk[tail + 1]]
  /\ buf' = [buf EXCEPT ![lh[tail + 1]] = logblk[tail + 1]]
  /\ dirty' = dirty \ {lh[tail + 1]}
  /\ tail' = tail + 1

\* log.lh.n = 0; write_head().
EraseHead ==
  /\ tail = Len(lh)
  /\ lh' = <<>>
  /\ head' = <<>>
  /\ tail' = 0

install_trans(p) ==
  /\ mode = "up" /\ pc[p] = "install"
  /\ InstallOne
  /\ UNCHANGED <<logblk, head, lh, busy, pc, mode>>

erase_trans(p) ==
  /\ mode = "up" /\ pc[p] = "install"
  /\ EraseHead
  /\ pc' = [pc EXCEPT ![p] = "ended"]
  /\ UNCHANGED <<disk, logblk, buf, dirty, busy, mode>>

\* wakeup(&log): every sleeper on the channel becomes runnable.
AfterWakeup(p) ==
  [q \in Proc |-> IF q = p \/ pc[q] = "asleep" THEN "idle" ELSE pc[q]]

release_trans_OnlyIfLogged(p) ==
  /\ mode = "up" /\ pc[p] = "ended"
  /\ busy' = FALSE
  /\ pc' = AfterWakeup(p)
  /\ UNCHANGED <<persistent, buf, dirty, lh, tail, mode>>

\* The end of commit_trans; a transaction that logged nothing comes here directly.
release_trans(p) ==
  /\ mode = "up"
  /\ pc[p] = "ended" \/ (pc[p] = "trans" /\ lh = <<>>)
  /\ busy' = FALSE
  /\ pc' = AfterWakeup(p)
  /\ UNCHANGED <<persistent, buf, dirty, lh, tail, mode>>

-----------------------------------------------------------------------------
(* The cache, from outside: a block is loaded, a clean one recycled.       *)

bread(b) ==
  /\ mode = "up" /\ buf[b] = Uncached
  /\ buf' = [buf EXCEPT ![b] = disk[b]]
  /\ UNCHANGED <<persistent, dirty, lh, tail, busy, pc, mode>>

recycle(b) ==
  /\ mode \in {"up", "recover"} /\ buf[b] # Uncached /\ b \notin dirty
  /\ buf' = [buf EXCEPT ![b] = Uncached]
  /\ UNCHANGED <<persistent, dirty, lh, tail, busy, pc, mode>>

-----------------------------------------------------------------------------
(* Crash and recovery.                                                     *)

\* Memory is lost and the machine boots: recovery runs before any process does.
crash ==
  /\ buf' = [b \in Block |-> Uncached]
  /\ dirty' = {}
  /\ lh' = <<>>
  /\ tail' = 0
  /\ busy' = FALSE
  /\ pc' = [p \in Proc |-> "idle"]
  /\ mode' = "boot"
  /\ UNCHANGED persistent

read_head_Skipped ==
  /\ mode = "boot"
  /\ mode' = "recover"
  /\ UNCHANGED <<persistent, buf, dirty, lh, tail, busy, pc>>

read_head ==
  /\ mode = "boot"
  /\ lh' = head
  /\ mode' = "recover"
  /\ UNCHANGED <<persistent, buf, dirty, tail, busy, pc>>

recover_install ==
  /\ mode = "recover"
  /\ InstallOne
  /\ UNCHANGED <<logblk, head, lh, busy, pc, mode>>

recover_erase ==
  /\ mode = "recover"
  /\ EraseHead
  /\ mode' = "up"
  /\ UNCHANGED <<disk, logblk, buf, dirty, busy, pc>>

-----------------------------------------------------------------------------
commit_trans(p) ==
  write_head(p) \/ install_trans(p) \/ erase_trans(p) \/ release_trans(p)

recover_from_log == read_head \/ recover_install \/ recover_erase

Next ==
  \/ \E p \in Proc :
       \/ begin_trans(p) \/ begin_trans_sleep(p)
       \/ \E b \in Block, v \in Value : log_write(p, b, v)
       \/ log_write_panic(p)
       \/ commit_trans(p)
  \/ \E b \in Block : bread(b) \/ recycle(b)
  \/ crash
  \/ recover_from_log

Spec == Init /\ [][Next]_vars

\* A process inside a transaction runs until its commit_trans returns (every
\* system call makes a bounded number of log_writes), and so does recovery.
\* Nothing obliges a process to begin a transaction, or the machine to crash.
Fairness ==
  /\ \A p \in Proc : WF_vars(commit_trans(p))
  /\ WF_vars(recover_from_log)

FairSpec == Spec /\ Fairness

-----------------------------------------------------------------------------
(* Properties.                                                             *)

\* Every variable has its type; in particular neither header ever holds more
\* entries than struct logheader or the log area has room for, which is what
\* log_write's first panic is there to guarantee.
TypeOK ==
  /\ disk \in [Block -> Value]
  /\ logblk \in [Slot -> Value]
  /\ head \in Seq(Block) /\ Len(head) <= NLOG - 1 /\ Len(head) <= LOGSIZE
  /\ buf \in [Block -> Value \union {Uncached}]
  /\ dirty \subseteq Block
  /\ lh \in Seq(Block) /\ Len(lh) <= NLOG - 1 /\ Len(lh) <= LOGSIZE
  /\ tail \in 0 .. Len(lh)
  /\ busy \in BOOLEAN
  /\ pc \in [Proc -> PC]
  /\ mode \in {"boot", "recover", "up", "panic"}

\* At most one process is between begin_trans and the end of commit_trans, and
\* log.busy says exactly whether one is ("begin_trans() ensures that only one
\* system call can be in a transaction").
OneTransaction ==
  /\ \A p, q \in Proc : pc[p] \in InTrans /\ pc[q] \in InTrans => p = q
  /\ busy <=> \E p \in Proc : pc[p] \in InTrans

\* No process sleeps in begin_trans while the log is free: the test of log.busy
\* and the sleep are one step under log.lock, so a wakeup cannot fall between.
NoLostWakeup == \A p \in Proc : pc[p] = "asleep" => busy

\* The buffers pinned by B_DIRTY are exactly the logged blocks that are not
\* installed yet.  So a buffer that may be recycled agrees with the disk, and
\* once no transaction is active nothing stays pinned in the buffer cache.
PinnedUntilInstalled ==
  /\ mode = "up" => dirty = {lh[i] : i \in tail + 1 .. Len(lh)}
  /\ \A b \in Block : b \notin dirty /\ buf[b] # Uncached => buf[b] = disk[b]

\* What a reboot would find never mixes two transactions: it is the state
\* before the running transaction or the state after it, and it is what every
\* process reads whenever no transaction is active.
QuiescentIsDurable == mode = "up" /\ ~busy => View = Recovered

Distinct(h) == \A i, j \in 1 .. Len(h) : h[i] = h[j] => i = j

\* The log between two steps, which ties memory to disk.  No sector is logged
\* twice.  Before write_head the header on disk is empty, from then until it is
\* erased it equals log.lh, and recovery reads the same.  Log block i holds the
\* contents of the i-th logged sector as the processes see it, in its pinned
\* buffer up to the iteration of install_trans that writes it home and in its
\* home location after.  This is what makes the log safe to replay from any
\* point.
LogInv ==
  /\ Distinct(lh) /\ Distinct(head)
  /\ \A i \in 1 .. tail : disk[lh[i]] = logblk[i]
  /\ mode \in {"boot", "recover"} =>
       /\ dirty = {} /\ pc = [p \in Proc |-> "idle"]
       /\ mode = "boot" => lh = <<>>
       /\ mode = "recover" => lh = head
  /\ mode \in {"up", "panic"} =>
       /\ \A i \in tail + 1 .. Len(lh) : buf[lh[i]] = logblk[i]
       /\ \A p \in Proc : pc[p] = "install" => head = lh
       /\ (\A p \in Proc : pc[p] # "install") => head = <<>> /\ tail = 0
       /\ (\A p \in Proc : pc[p] \notin {"trans", "install"}) => lh = <<>>
       /\ dirty = {lh[i] : i \in tail + 1 .. Len(lh)}

AD == INSTANCE AtomicDisk WITH
        stable  <- Recovered,
        current <- IF mode \in {"boot", "recover"} THEN Recovered ELSE View,
        holders <- {p \in Proc : pc[p] \in InTrans},
        up      <- (mode = "up")

\* The log implements the atomic disk: the writes of a transaction become
\* durable all at once at write_head, a crash before it undoes all of them and
\* a crash after it, at any point of install_trans or of recovery, none.
AtomicTransactions == AD!Spec

\* A transaction, once begun, ends, unless log_write panics.
TransactionEnds == busy ~> (~busy \/ mode = "panic")

\* If the machine does not crash for ever, every boot ends with recovery done,
\* however often recovery itself was interrupted.
RecoveryCompletes == []<><<crash>>_vars \/ (mode = "boot" ~> mode = "up")
=============================================================================

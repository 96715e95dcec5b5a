----------------------------- MODULE LogProofs ------------------------------
(***************************************************************************)
(* Proofs about Log, for any number of processes, blocks and log sectors.  *)
(***************************************************************************)
EXTENDS Log, TLAPS

Inv == TypeOK /\ OneTransaction /\ NoLostWakeup /\ PinnedUntilInstalled /\ LogInv

\* SlotOf finds a logged sector: the loop of log_write and the redo of
\* install_trans speak of the same log block.
LEMMA SlotOfLogged ==
  ASSUME NEW h \in Seq(Block), NEW b \in Sectors(h)
  PROVE  SlotOf(h, b) \in 1 .. Len(h) /\ h[SlotOf(h, b)] = b
BY DEF Sectors, SlotOf

\* In a header without repetitions the slot of the i-th sector is i.
LEMMA SlotOfUnique ==
  ASSUME NEW h \in Seq(Block), Distinct(h), NEW i \in 1 .. Len(h)
  PROVE  SlotOf(h, h[i]) = i
<1>1. h[i] \in Sectors(h)
  BY DEF Sectors
<1> QED
  BY <1>1, SlotOfLogged DEF Distinct

\* The machine starts in a state of the invariant.
LEMMA InitInv == Init => Inv
<1> SUFFICES ASSUME Init PROVE Inv
  OBVIOUS
<1> USE DEF Init
<1>1. TypeOK
  <2>1. pc \in [Proc -> PC] /\ buf \in [Block -> Value \union {Uncached}]
    BY DEF PC
  <2>2. lh \in Seq(Block) /\ Len(lh) = 0 /\ head \in Seq(Block) /\ Len(head) = 0
    OBVIOUS
  <2>3. tail \in 0 .. Len(lh) /\ Len(lh) <= NLOG - 1 /\ Len(lh) <= LOGSIZE
    BY <2>2, LogAssumption
  <2> QED
    BY <2>1, <2>2, <2>3 DEF TypeOK
<1>2. OneTransaction /\ NoLostWakeup
  BY DEF OneTransaction, NoLostWakeup, InTrans
<1>3. PinnedUntilInstalled
  BY DEF PinnedUntilInstalled
<1>4. LogInv
  BY DEF LogInv, Distinct
<1> QED
  BY <1>1, <1>2, <1>3, <1>4 DEF Inv

\* Every step keeps every variable in its type; no header outgrows the log.
LEMMA TypeStep == Inv /\ [Next]_vars => TypeOK'
<1> SUFFICES ASSUME Inv, [Next]_vars PROVE TypeOK'
  OBVIOUS
<1> USE DEF Inv, TypeOK, persistent
<1>1. ASSUME NEW p \in Proc, begin_trans(p) PROVE TypeOK'
  BY <1>1 DEF begin_trans, PC
<1>2. ASSUME NEW p \in Proc, begin_trans_sleep(p) PROVE TypeOK'
  BY <1>2 DEF begin_trans_sleep, PC
<1>3. ASSUME NEW p \in Proc, NEW b \in Block, NEW v \in Value, log_write(p, b, v)
      PROVE  TypeOK'
  <2>1. lh' \in Seq(Block) /\ Len(lh') <= NLOG - 1 /\ Len(lh') <= LOGSIZE
        /\ tail' \in 0 .. Len(lh')
    BY <1>3, LogAssumption DEF log_write, TooBig
  <2> QED
    BY <1>3, <2>1 DEF log_write
<1>4. ASSUME NEW p \in Proc, log_write_panic(p) PROVE TypeOK'
  BY <1>4 DEF log_write_panic
<1>5. ASSUME NEW p \in Proc, write_head(p) PROVE TypeOK'
  BY <1>5 DEF write_head, PC
<1>6. ASSUME InstallOne, UNCHANGED <<logblk, head, lh, busy, pc, mode>> PROVE TypeOK'
  <2>1. tail + 1 \in 1 .. Len(lh) /\ tail + 1 \in Slot
    BY <1>6, LogAssumption DEF InstallOne, Slot
  <2>2. lh[tail + 1] \in Block /\ logblk[tail + 1] \in Value
    BY <2>1
  <2> QED
    BY <1>6, <2>1, <2>2 DEF InstallOne
<1>7. ASSUME NEW p \in Proc, erase_trans(p) PROVE TypeOK'
  BY <1>7, LogAssumption DEF erase_trans, EraseHead, PC
<1>8. ASSUME NEW p \in Proc, release_trans(p) PROVE TypeOK'
  BY <1>8 DEF release_trans, AfterWakeup, PC
<1>9. ASSUME NEW b \in Block, bread(b) PROVE TypeOK'
  BY <1>9 DEF bread
<1>10. ASSUME NEW b \in Block, recycle(b) PROVE TypeOK'
  BY <1>10 DEF recycle
<1>11. CASE crash
  <2>1. pc' \in [Proc -> PC] /\ buf' \in [Block -> Value \union {Uncached}]
    BY <1>11 DEF crash, PC
  <2>2. lh' \in Seq(Block) /\ Len(lh') = 0
    BY <1>11 DEF crash
  <2>3. tail' \in 0 .. Len(lh') /\ Len(lh') <= NLOG - 1 /\ Len(lh') <= LOGSIZE
    BY <1>11, <2>2, LogAssumption DEF crash
  <2> QED
    BY <1>11, <2>1, <2>2, <2>3 DEF crash
<1>12. CASE read_head
  BY <1>12 DEF read_head, LogInv
<1>13. CASE recover_erase
  BY <1>13, LogAssumption DEF recover_erase, EraseHead
<1>14. CASE UNCHANGED vars
  BY <1>14 DEF vars
<1> QED
  BY <1>1, <1>2, <1>3, <1>4, <1>5, <1>6, <1>7, <1>8, <1>9, <1>10, <1>11, <1>12,
     <1>13, <1>14
  DEF Next, commit_trans, recover_from_log, install_trans, recover_install

\* Every step keeps transactions serial and leaves no process asleep on a free
\* log: begin_trans tests and sets log.busy, or tests it and sleeps, in one step.
LEMMA ExclusionStep == Inv /\ [Next]_vars => OneTransaction' /\ NoLostWakeup'
<1> SUFFICES ASSUME Inv, [Next]_vars PROVE OneTransaction' /\ NoLostWakeup'
  OBVIOUS
<1> USE DEF OneTransaction, NoLostWakeup, InTrans
<1>0. pc \in [Proc -> PC] /\ OneTransaction /\ NoLostWakeup
  BY DEF Inv, TypeOK
<1>1. ASSUME NEW p \in Proc, begin_trans(p) PROVE OneTransaction' /\ NoLostWakeup'
  BY <1>0, <1>1 DEF begin_trans
<1>2. ASSUME NEW p \in Proc, begin_trans_sleep(p)
      PROVE  OneTransaction' /\ NoLostWakeup'
  BY <1>0, <1>2 DEF begin_trans_sleep
<1>3. ASSUME NEW p \in Proc, write_head(p) \/ erase_trans(p)
      PROVE  OneTransaction' /\ NoLostWakeup'
  BY <1>0, <1>3 DEF write_head, erase_trans
<1>4. ASSUME NEW p \in Proc, release_trans(p) PROVE OneTransaction' /\ NoLostWakeup'
  <2>1. \A q \in Proc : pc'[q] \notin InTrans /\ pc'[q] # "asleep"
    BY <1>0, <1>4 DEF release_trans, AfterWakeup, PC
  <2> QED
    BY <1>4, <2>1 DEF release_trans
<1>5. CASE crash
  BY <1>5 DEF crash
<1>6. CASE UNCHANGED <<pc, busy>>
  BY <1>0, <1>6
<1> QED
  BY <1>1, <1>2, <1>3, <1>4, <1>5, <1>6
  DEF Next, commit_trans, recover_from_log, install_trans, recover_install,
      InstallOne, log_write, log_write_panic, bread, recycle, read_head,
      recover_erase, vars

\* One iteration of install_trans, in commit or in recovery: the blocks already
\* home stay home, one more is, and its buffer is unpinned.
LEMMA InstallOneStep ==
  ASSUME TypeOK, Distinct(lh), InstallOne, UNCHANGED <<logblk, lh>>,
         \A i \in 1 .. tail : disk[lh[i]] = logblk[i],
         \A b \in Block : b \notin dirty /\ buf[b] # Uncached => buf[b] = disk[b]
  PROVE  /\ \A i \in 1 .. tail' : disk'[lh'[i]] = logblk'[i]
         /\ \A b \in Block : b \notin dirty' /\ buf'[b] # Uncached => buf'[b] = disk'[b]
         /\ \A i \in tail' + 1 .. Len(lh') : buf'[lh'[i]] = buf[lh[i]]
         /\ dirty = {lh[i] : i \in tail + 1 .. Len(lh)}
              => dirty' = {lh'[i] : i \in tail' + 1 .. Len(lh')}
<1> DEFINE b0 == lh[tail + 1]
           v0 == logblk[tail + 1]
<1>1. /\ tail \in Nat /\ tail + 1 \in 1 .. Len(lh) /\ Len(lh) \in Nat
      /\ b0 \in Block
      /\ \A i \in 1 .. Len(lh) : lh[i] \in Block
  BY DEF InstallOne, TypeOK
<1>2. \A i \in 1 .. Len(lh) : i # tail + 1 => lh[i] # b0
  BY <1>1 DEF Distinct
<1>3. disk' = [disk EXCEPT ![b0] = v0] /\ buf' = [buf EXCEPT ![b0] = v0]
      /\ dirty' = dirty \ {b0} /\ tail' = tail + 1
  BY DEF InstallOne
<1>4. disk \in [Block -> Value] /\ buf \in [Block -> Value \union {Uncached}]
  BY DEF TypeOK
<1> HIDE DEF b0, v0
<1>5. \A i \in 1 .. tail' : disk'[lh'[i]] = logblk'[i]
  <2> SUFFICES ASSUME NEW i \in 1 .. tail' PROVE disk'[lh'[i]] = logblk'[i]
    OBVIOUS
  <2>1. CASE i = tail + 1
    BY <1>1, <1>3, <1>4, <2>1 DEF b0, v0
  <2>2. CASE i # tail + 1
    BY <1>1, <1>2, <1>3, <1>4, <2>2
  <2> QED
    BY <2>1, <2>2
<1>6. \A b \in Block : b \notin dirty' /\ buf'[b] # Uncached => buf'[b] = disk'[b]
  BY <1>1, <1>3, <1>4
<1>7. \A i \in tail' + 1 .. Len(lh') : buf'[lh'[i]] = buf[lh[i]]
  BY <1>1, <1>2, <1>3, <1>4
<1>8. ASSUME dirty = {lh[i] : i \in tail + 1 .. Len(lh)}
      PROVE  dirty' = {lh'[i] : i \in tail' + 1 .. Len(lh')}
  <2>1. {lh[i] : i \in tail + 1 .. Len(lh)} \ {b0}
          = {lh[i] : i \in tail + 1 + 1 .. Len(lh)}
    BY <1>1, <1>2 DEF b0
  <2> QED
    BY <1>3, <1>8, <2>1
<1> QED
  BY <1>5, <1>6, <1>7, <1>8

\* Every step keeps memory and disk tied together as LogInv says.
LEMMA LogStep == Inv /\ [Next]_vars => PinnedUntilInstalled' /\ LogInv'
<1> SUFFICES ASSUME Inv, [Next]_vars PROVE PinnedUntilInstalled' /\ LogInv'
  OBVIOUS
<1> USE DEF PinnedUntilInstalled, LogInv
<1>0. TypeOK /\ OneTransaction /\ PinnedUntilInstalled /\ LogInv
  BY DEF Inv
<1>1. ASSUME NEW p \in Proc, begin_trans(p) \/ begin_trans_sleep(p)
      PROVE  PinnedUntilInstalled' /\ LogInv'
  <2>1. mode = "up" /\ \A q \in Proc : q # p => pc'[q] = pc[q]
    BY <1>0, <1>1 DEF begin_trans, begin_trans_sleep, TypeOK
  <2>2. pc[p] = "idle" /\ pc'[p] \in {"trans", "asleep"}
    BY <1>0, <1>1 DEF begin_trans, begin_trans_sleep, TypeOK
  <2>3. (\E q \in Proc : pc[q] = "install") <=> \E q \in Proc : pc'[q] = "install"
    BY <2>1, <2>2
  <2>4. (\A q \in Proc : pc'[q] \notin {"trans", "install"}) => lh = <<>>
    BY <1>0, <2>1, <2>2
  <2>5. UNCHANGED <<persistent, buf, dirty, lh, tail, mode>>
    BY <1>1 DEF begin_trans, begin_trans_sleep
  <2> QED
    BY <1>0, <2>1, <2>3, <2>4, <2>5 DEF persistent, Distinct
<1>2. ASSUME NEW p \in Proc, NEW b \in Block, NEW v \in Value, log_write(p, b, v)
      PROVE  PinnedUntilInstalled' /\ LogInv'
  <2> DEFINE k == SlotOf(lh, b)
  <2>1. /\ mode = "up" /\ pc[p] = "trans"
        /\ \A q \in Proc : pc[q] # "install"
        /\ head = <<>> /\ tail = 0
    BY <1>0, <1>2 DEF log_write, OneTransaction, InTrans
  <2>2. /\ lh \in Seq(Block) /\ Len(lh) \in Nat
        /\ Len(lh) + 1 \in Slot /\ Len(lh) < NLOG - 1
        /\ logblk \in [Slot -> Value] /\ buf \in [Block -> Value \union {Uncached}]
    BY <1>0, <1>2, LogAssumption DEF log_write, TooBig, TypeOK, Slot
  <2>3. /\ lh' \in Seq(Block) /\ Len(lh') \in Nat /\ k \in 1 .. Len(lh')
        /\ k \in Slot /\ lh'[k] = b /\ Len(lh') \in {Len(lh), Len(lh) + 1}
        /\ \A i \in 1 .. Len(lh') : i # k => i \in 1 .. Len(lh) /\ lh'[i] = lh[i] /\ lh[i] # b
        /\ \A i \in 1 .. Len(lh) : i \in 1 .. Len(lh') /\ lh'[i] = lh[i]
    <3>1. CASE b \in Sectors(lh)
      <4>1. k \in 1 .. Len(lh) /\ lh[k] = b /\ lh' = lh
        BY <1>2, <2>2, <3>1, SlotOfLogged DEF log_write
      <4>2. \A i \in 1 .. Len(lh) : i # k => lh[i] # b
        BY <1>0, <4>1 DEF Distinct
      <4>3. k \in Slot
        BY <2>2, <4>1, LogAssumption DEF Slot
      <4> HIDE DEF k
      <4> QED
        BY <2>2, <4>1, <4>2, <4>3
    <3>2. CASE b \notin Sectors(lh)
      <4>1. k = Len(lh) + 1 /\ lh' = Append(lh, b)
        BY <1>2, <3>2 DEF log_write, SlotOf
      <4>2. \A i \in 1 .. Len(lh) : lh[i] # b
        BY <3>2 DEF Sectors
      <4> QED
        BY <2>2, <4>1, <4>2
    <3> QED
      BY <3>1, <3>2
  <2>4. /\ logblk' = [logblk EXCEPT ![k] = v] /\ buf' = [buf EXCEPT ![b] = v]
        /\ dirty' = dirty \union {b}
        /\ UNCHANGED <<disk, head, tail, busy, pc, mode>>
    BY <1>2 DEF log_write
  <2> HIDE DEF k
  <2>5. Distinct(lh')
    BY <1>0, <2>2, <2>3 DEF Distinct
  <2>6. \A i \in 1 .. Len(lh') : buf'[lh'[i]] = logblk'[i]
    <3> SUFFICES ASSUME NEW i \in 1 .. Len(lh') PROVE buf'[lh'[i]] = logblk'[i]
      OBVIOUS
    <3>1. CASE i = k
      BY <2>2, <2>3, <2>4, <3>1
    <3>2. CASE i # k
      <4>1. i \in 1 .. Len(lh) /\ lh'[i] = lh[i] /\ lh[i] # b /\ lh[i] \in Block
        BY <2>2, <2>3, <3>2
      <4>2. i \in Slot
        BY <2>2, <4>1, LogAssumption DEF Slot
      <4>3. i \in tail + 1 .. Len(lh)
        BY <2>1, <4>1
      <4>4. buf[lh[i]] = logblk[i]
        BY <1>0, <2>1, <4>3
      <4>5. buf'[lh[i]] = buf[lh[i]] /\ logblk'[i] = logblk[i]
        BY <2>2, <2>4, <3>2, <4>1, <4>2
      <4> QED
        BY <4>1, <4>4, <4>5
    <3> QED
      BY <3>1, <3>2
  <2>7. dirty' = {lh'[i] : i \in 1 .. Len(lh')}
    <3>1. dirty = {lh[i] : i \in 1 .. Len(lh)}
      BY <1>0, <2>1
    <3>2. {lh'[i] : i \in 1 .. Len(lh')} = {lh[i] : i \in 1 .. Len(lh)} \union {b}
      BY <2>2, <2>3
    <3> QED
      BY <2>4, <3>1, <3>2
  <2>8. \A c \in Block : c \notin dirty' /\ buf'[c] # Uncached => buf'[c] = disk'[c]
    BY <1>0, <2>2, <2>4
  <2>9. Distinct(head')
    BY <1>0, <2>4 DEF Distinct
  <2>10. tail' = 0 /\ tail' + 1 = 1 /\ head' = <<>>
    BY <2>1, <2>4
  <2> QED
    BY <2>1, <2>4, <2>5, <2>6, <2>7, <2>8, <2>9, <2>10
<1>3. ASSUME NEW p \in Proc, log_write_panic(p)
      PROVE  PinnedUntilInstalled' /\ LogInv'
  BY <1>0, <1>3 DEF log_write_panic, persistent, Distinct
<1>4. ASSUME NEW p \in Proc, write_head(p) PROVE PinnedUntilInstalled' /\ LogInv'
  <2>1. mode = "up" /\ pc'[p] = "install" /\ head' = lh
        /\ UNCHANGED <<disk, logblk, buf, dirty, lh, tail, mode>>
    BY <1>0, <1>4 DEF write_head, TypeOK
  <2> QED
    BY <1>0, <2>1 DEF Distinct
<1>5. ASSUME NEW p \in Proc, install_trans(p) PROVE PinnedUntilInstalled' /\ LogInv'
  <2>1. mode = "up" /\ pc[p] = "install" /\ InstallOne
        /\ UNCHANGED <<logblk, head, lh, busy, pc, mode>>
    BY <1>5 DEF install_trans
  <2>2. /\ \A i \in 1 .. tail' : disk'[lh'[i]] = logblk'[i]
        /\ \A b \in Block : b \notin dirty' /\ buf'[b] # Uncached => buf'[b] = disk'[b]
        /\ \A i \in tail' + 1 .. Len(lh') : buf'[lh'[i]] = buf[lh[i]]
        /\ dirty' = {lh'[i] : i \in tail' + 1 .. Len(lh')}
    BY <1>0, <2>1, InstallOneStep
  <2>3. \A i \in tail' + 1 .. Len(lh') : buf'[lh'[i]] = logblk'[i]
    BY <1>0, <2>1, <2>2 DEF TypeOK, InstallOne
  <2> QED
    BY <1>0, <2>1, <2>2, <2>3 DEF Distinct
<1>6. ASSUME NEW p \in Proc, erase_trans(p) PROVE PinnedUntilInstalled' /\ LogInv'
  <2>1. /\ mode = "up" /\ tail = Len(lh)
        /\ lh' = <<>> /\ head' = <<>> /\ tail' = 0
        /\ UNCHANGED <<disk, logblk, buf, dirty, mode>>
    BY <1>6 DEF erase_trans, EraseHead
  <2>2. \A q \in Proc : pc'[q] # "install"
    BY <1>0, <1>6 DEF erase_trans, OneTransaction, InTrans, TypeOK
  <2>3. dirty = {}
    BY <1>0, <2>1 DEF TypeOK
  <2> QED
    BY <1>0, <2>1, <2>2, <2>3 DEF Distinct
<1>7. ASSUME NEW p \in Proc, release_trans(p) PROVE PinnedUntilInstalled' /\ LogInv'
  <2>1. \A q \in Proc : pc[q] # "install"
    BY <1>0, <1>7 DEF release_trans, OneTransaction, InTrans
  <2>2. lh = <<>>
    BY <1>0, <1>7 DEF release_trans, OneTransaction, InTrans
  <2>3. mode = "up" /\ UNCHANGED <<disk, logblk, head, buf, dirty, lh, tail, mode>>
    BY <1>7 DEF release_trans, persistent
  <2>4. \A q \in Proc : pc'[q] # "install"
    BY <1>0, <1>7, <2>1 DEF release_trans, AfterWakeup
  <2> QED
    BY <1>0, <2>1, <2>2, <2>3, <2>4 DEF Distinct
<1>8. ASSUME NEW b \in Block, bread(b) \/ recycle(b)
      PROVE  PinnedUntilInstalled' /\ LogInv'
  <2>1. /\ \A c \in Block : c # b => buf'[c] = buf[c]
        /\ UNCHANGED <<disk, logblk, head, dirty, lh, tail, busy, pc, mode>>
        /\ buf'[b] \in {disk[b], Uncached}
    BY <1>0, <1>8 DEF bread, recycle, persistent, TypeOK
  <2>2. ASSUME mode \in {"up", "panic"}, NEW i \in tail + 1 .. Len(lh) PROVE lh[i] # b
    <3>1. i \in 1 .. Len(lh) /\ i \in Slot /\ lh[i] \in Block
      BY <1>0, LogAssumption DEF TypeOK, Slot
    <3>2. buf[lh[i]] = logblk[i] /\ logblk[i] # Uncached /\ lh[i] \in dirty
      BY <1>0, <2>2, <3>1, LogAssumption DEF TypeOK
    <3> QED
      BY <1>8, <3>2 DEF bread, recycle
  <2>3. \A i \in tail + 1 .. Len(lh) : lh[i] \in Block
    BY <1>0 DEF TypeOK
  <2>4. \A c \in Block : c \notin dirty' /\ buf'[c] # Uncached => buf'[c] = disk'[c]
    BY <1>0, <2>1
  <2> QED
    BY <1>0, <2>1, <2>2, <2>3, <2>4 DEF Distinct
<1>9. CASE crash
  BY <1>0, <1>9 DEF crash, persistent, Distinct
<1>10. CASE read_head
  <2>1. tail = 0 /\ mode' = "recover"
    BY <1>0, <1>10 DEF read_head, TypeOK
  <2> QED
    BY <1>0, <1>10, <2>1 DEF read_head, persistent, Distinct
<1>11. CASE recover_install
  <2>1. mode = "recover" /\ InstallOne
        /\ UNCHANGED <<logblk, head, lh, busy, pc, mode>>
    BY <1>11 DEF recover_install
  <2>2. /\ \A i \in 1 .. tail' : disk'[lh'[i]] = logblk'[i]
        /\ \A b \in Block : b \notin dirty' /\ buf'[b] # Uncached => buf'[b] = disk'[b]
    BY <1>0, <2>1, InstallOneStep
  <2>3. dirty' = {}
    BY <1>0, <2>1 DEF InstallOne
  <2> QED
    BY <1>0, <2>1, <2>2, <2>3 DEF Distinct
<1>12. CASE recover_erase
  <2>1. /\ mode = "recover" /\ mode' = "up"
        /\ lh' = <<>> /\ head' = <<>> /\ tail' = 0
        /\ UNCHANGED <<disk, logblk, buf, dirty, pc>>
    BY <1>12 DEF recover_erase, EraseHead
  <2> QED
    BY <1>0, <2>1 DEF Distinct
<1>13. CASE UNCHANGED vars
  BY <1>0, <1>13 DEF vars, Distinct
<1> QED
  BY <1>1, <1>2, <1>3, <1>4, <1>5, <1>6, <1>7, <1>8, <1>9, <1>10, <1>11, <1>12,
     <1>13
  DEF Next, commit_trans, recover_from_log

-----------------------------------------------------------------------------
\* The inductive invariant holds in every reachable state of the log.
THEOREM Invariance == Spec => []Inv
<1>1. Inv /\ [Next]_vars => Inv'
  BY TypeStep, ExclusionStep, LogStep DEF Inv
<1> QED
  BY InitInv, <1>1, PTL DEF Spec

\* No variable leaves its type: the headers never outgrow the log area.
THEOREM TypeCorrect == Spec => []TypeOK
<1>1. Inv => TypeOK
  BY DEF Inv
<1> QED
  BY Invariance, <1>1, PTL

\* begin_trans and commit_trans make transactions serial.
THEOREM Serial == Spec => []OneTransaction
<1>1. Inv => OneTransaction
  BY DEF Inv
<1> QED
  BY Invariance, <1>1, PTL

\* begin_trans never sleeps through the wakeup of commit_trans.
THEOREM WakeupNotLost == Spec => []NoLostWakeup
<1>1. Inv => NoLostWakeup
  BY DEF Inv
<1> QED
  BY Invariance, <1>1, PTL

\* B_DIRTY pins exactly the logged blocks that are not home yet.
THEOREM Pinning == Spec => []PinnedUntilInstalled
<1>1. Inv => PinnedUntilInstalled
  BY DEF Inv
<1> QED
  BY Invariance, <1>1, PTL

\* With an empty header, and nothing pinned, what is read is what is on disk.
LEMMA EmptyLogIsDurable ==
  ASSUME TypeOK, PinnedUntilInstalled, head = <<>>, dirty = {}
  PROVE  View = disk /\ Recovered = disk
<1>1. disk = [b \in Block |-> disk[b]]
  BY DEF TypeOK
<1>2. \A b \in Block : View[b] = disk[b]
  BY DEF View, PinnedUntilInstalled
<1>3. \A b \in Block : Recovered[b] = disk[b]
  BY DEF Recovered, Sectors
<1> QED
  BY <1>1, <1>2, <1>3 DEF View, Recovered

\* Outside transactions the disk, the cache and the log all tell the same.
THEOREM Quiescence == Spec => []QuiescentIsDurable
<1>1. Inv => QuiescentIsDurable
  <2> SUFFICES ASSUME Inv, mode = "up", ~busy PROVE View = Recovered
    BY DEF QuiescentIsDurable
  <2>1. \A p \in Proc : pc[p] \notin InTrans
    BY DEF Inv, OneTransaction
  <2>2. head = <<>> /\ tail = 0 /\ lh = <<>>
    BY <2>1 DEF Inv, LogInv, InTrans
  <2>3. dirty = {}
    BY <2>2 DEF Inv, LogInv
  <2> QED
    BY <2>2, <2>3, EmptyLogIsDurable DEF Inv
<1> QED
  BY Invariance, <1>1, PTL

-----------------------------------------------------------------------------
(* Refinement.                                                             *)

Current == IF mode \in {"boot", "recover"} THEN Recovered ELSE View

Holders == {p \in Proc : pc[p] \in InTrans}

\* Installing a committed block changes neither what recovery would build nor
\* what a process reads.
LEMMA InstallHidden ==
  ASSUME TypeOK, Distinct(lh), InstallOne, UNCHANGED <<logblk, head, lh>>, head = lh
  PROVE  /\ Recovered' = Recovered
         /\ (\A i \in tail + 1 .. Len(lh) : buf[lh[i]] = logblk[i]) => View' = View
<1> DEFINE b0 == lh[tail + 1]
           v0 == logblk[tail + 1]
<1>1. /\ tail + 1 \in 1 .. Len(lh) /\ tail + 1 \in tail + 1 .. Len(lh)
      /\ b0 \in Block /\ b0 \in Sectors(head) /\ v0 \in Value
  BY LogAssumption DEF InstallOne, TypeOK, Sectors, Slot
<1>2. disk' = [disk EXCEPT ![b0] = v0] /\ buf' = [buf EXCEPT ![b0] = v0]
  BY DEF InstallOne
<1>3. disk \in [Block -> Value] /\ buf \in [Block -> Value \union {Uncached}]
  BY DEF TypeOK
<1> HIDE DEF b0, v0
<1>4. Recovered' = Recovered
  <2>1. \A b \in Block : b \notin Sectors(head) => disk'[b] = disk[b]
    BY <1>1, <1>2, <1>3
  <2> QED
    BY <2>1 DEF Recovered
<1>5. ASSUME \A i \in tail + 1 .. Len(lh) : buf[lh[i]] = logblk[i]
      PROVE  View' = View
  <2>1. buf[b0] = v0
    BY <1>1, <1>5 DEF b0, v0
  <2>2. \A b \in Block : buf'[b] = buf[b]
    BY <1>2, <1>3, <2>1
  <2>3. \A b \in Block : b # b0 => disk'[b] = disk[b]
    BY <1>2, <1>3
  <2>4. buf[b0] # Uncached
    BY <1>1, <2>1, LogAssumption
  <2> QED
    BY <2>2, <2>3, <2>4 DEF View
<1> QED
  BY <1>4, <1>5

\* Once every logged block is home, erasing the header changes nothing.
LEMMA EraseHidden ==
  ASSUME TypeOK, \A i \in 1 .. Len(lh) : disk[lh[i]] = logblk[i], head = lh,
         head' = <<>>, UNCHANGED <<disk, logblk>>
  PROVE  Recovered' = Recovered /\ Recovered' = disk'
<1>1. \A b \in Block : Recovered[b] = disk[b]
  <2> SUFFICES ASSUME NEW b \in Sectors(head), b \in Block
               PROVE  logblk[SlotOf(head, b)] = disk[b]
    BY DEF Recovered
  <2>1. SlotOf(head, b) \in 1 .. Len(head) /\ head[SlotOf(head, b)] = b
    BY SlotOfLogged DEF TypeOK
  <2> QED
    BY <2>1
<1>2. \A b \in Block : Recovered'[b] = disk'[b]
  BY DEF Recovered, Sectors
<1>3. disk = [b \in Block |-> disk[b]]
  BY DEF TypeOK
<1> QED
  BY <1>1, <1>2, <1>3 DEF Recovered

\* The log starts as an atomic disk does.
LEMMA InitRefines == Init => AD!Init
<1> SUFFICES ASSUME Init PROVE AD!Init
  OBVIOUS
<1>1. Recovered = disk
  BY DEF Init, Recovered, Sectors
<1> QED
  BY <1>1 DEF Init, AD!Init, InTrans

\* Every step of the log is a step of the atomic disk or changes nothing there.
LEMMA StepRefines == Inv /\ [Next]_vars => [AD!Next]_(AD!adVars)
<1> SUFFICES ASSUME Inv, [Next]_vars PROVE [AD!Next]_(AD!adVars)
  OBVIOUS
<1>0. TypeOK /\ OneTransaction /\ PinnedUntilInstalled /\ LogInv
  BY DEF Inv
<1> DEFINE Up == mode = "up"
           Stutter == UNCHANGED <<Recovered, Current, Holders, Up>>
<1>a. Stutter => UNCHANGED AD!adVars
  BY DEF AD!adVars, Current, Holders
<1>b. ASSUME NEW p \in Proc, pc[p] \in InTrans PROVE Holders = {p}
  BY <1>0, <1>b DEF OneTransaction, Holders
<1>1. ASSUME NEW p \in Proc, begin_trans(p) PROVE AD!Begin(p)
  <2>1. Holders = {} /\ Holders' = {p}
    BY <1>0, <1>1 DEF begin_trans, OneTransaction, Holders, InTrans, TypeOK
  <2>2. UNCHANGED <<Recovered, Current>> /\ mode = "up" /\ mode' = "up"
    BY <1>1 DEF begin_trans, persistent, Recovered, Current, View
  <2> QED
    BY <2>1, <2>2 DEF AD!Begin, Current, Holders
<1>2. ASSUME NEW p \in Proc, begin_trans_sleep(p) PROVE Stutter
  <2>1. Holders' = Holders
    BY <1>0, <1>2 DEF begin_trans_sleep, Holders, InTrans, TypeOK
  <2> QED
    BY <1>2, <2>1 DEF begin_trans_sleep, persistent, Recovered, Current, View
<1>3. ASSUME NEW p \in Proc, NEW b \in Block, NEW v \in Value, log_write(p, b, v)
      PROVE  AD!Write(p, b, v)
  <2>1. /\ mode = "up" /\ mode' = "up" /\ pc' = pc /\ disk' = disk /\ head' = head
        /\ buf' = [buf EXCEPT ![b] = v]
        /\ pc[p] \in InTrans
    BY <1>3 DEF log_write, InTrans
  <2>2. head = <<>>
    BY <1>0, <1>3 DEF log_write, LogInv, OneTransaction, InTrans
  <2>3. Recovered' = Recovered
    BY <2>1, <2>2 DEF Recovered, Sectors
  <2>4. View' = [View EXCEPT ![b] = v]
    BY <1>0, <2>1, LogAssumption DEF View, TypeOK
  <2>5. Holders = {p} /\ Holders' = Holders
    BY <1>b, <2>1 DEF Holders
  <2> QED
    BY <2>1, <2>3, <2>4, <2>5 DEF AD!Write, Current, Holders
<1>4. ASSUME NEW p \in Proc, log_write_panic(p) PROVE AD!Halt
  BY <1>4 DEF log_write_panic, persistent, AD!Halt, Recovered, View
<1>5. ASSUME NEW p \in Proc, write_head(p) PROVE AD!Commit(p)
  <2>1. /\ mode = "up" /\ mode' = "up" /\ head' = lh
        /\ UNCHANGED <<disk, logblk, buf, dirty, lh, tail>>
        /\ pc[p] \in InTrans
    BY <1>5 DEF write_head, InTrans
  <2>2. Holders = {p} /\ Holders' = Holders
    BY <1>0, <1>5, <1>b, <2>1 DEF write_head, Holders, InTrans, TypeOK
  <2>3. tail = 0
    BY <1>0, <1>5 DEF write_head, LogInv, OneTransaction, InTrans
  <2>4. ASSUME NEW b \in Block PROVE Recovered'[b] = View[b]
    <3>1. CASE b \in Sectors(lh)
      <4>1. SlotOf(lh, b) \in 1 .. Len(lh) /\ lh[SlotOf(lh, b)] = b
        BY <1>0, <3>1, SlotOfLogged DEF TypeOK
      <4>2. buf[b] = logblk[SlotOf(lh, b)]
        BY <1>0, <2>1, <2>3, <4>1 DEF LogInv
      <4>3. SlotOf(lh, b) \in Slot
        BY <1>0, <4>1, LogAssumption DEF Slot, TypeOK
      <4>4. buf[b] # Uncached
        BY <1>0, <4>2, <4>3, LogAssumption DEF TypeOK
      <4> QED
        BY <2>1, <3>1, <4>2, <4>4 DEF Recovered, View
    <3>2. CASE b \notin Sectors(lh)
      <4>1. b \notin dirty
        BY <1>0, <2>1, <2>3, <3>2 DEF LogInv, Sectors
      <4> QED
        BY <1>0, <2>1, <3>2, <4>1 DEF Recovered, View, PinnedUntilInstalled
    <3> QED
      BY <3>1, <3>2
  <2>5. Recovered' = View
    BY <2>4 DEF Recovered, View
  <2>6. View' = View
    BY <2>1 DEF View
  <2> QED
    BY <2>1, <2>2, <2>5, <2>6 DEF AD!Commit, Holders
<1>6. ASSUME NEW p \in Proc, install_trans(p) PROVE Stutter
  <2>1. /\ mode = "up" /\ mode' = "up" /\ pc[p] = "install" /\ InstallOne
        /\ UNCHANGED <<logblk, head, lh, pc>>
    BY <1>6 DEF install_trans
  <2>2. head = lh /\ \A i \in tail + 1 .. Len(lh) : buf[lh[i]] = logblk[i]
    BY <1>0, <2>1 DEF LogInv
  <2>3. Recovered' = Recovered /\ View' = View
    BY <1>0, <2>1, <2>2, InstallHidden DEF LogInv
  <2> QED
    BY <2>1, <2>3 DEF Current, Holders
<1>7. ASSUME NEW p \in Proc, erase_trans(p) PROVE Stutter
  <2>1. /\ mode = "up" /\ mode' = "up" /\ pc[p] = "install"
        /\ tail = Len(lh) /\ head' = <<>> /\ UNCHANGED <<disk, logblk, buf>>
    BY <1>7 DEF erase_trans, EraseHead
  <2>2. head = lh /\ \A i \in 1 .. Len(lh) : disk[lh[i]] = logblk[i]
    BY <1>0, <2>1 DEF LogInv
  <2>3. Recovered' = Recovered
    BY <1>0, <2>1, <2>2, EraseHidden
  <2>4. View' = View
    BY <2>1 DEF View
  <2>5. Holders' = Holders
    BY <1>0, <1>7 DEF erase_trans, Holders, InTrans, TypeOK
  <2> QED
    BY <2>1, <2>3, <2>4, <2>5 DEF Current
<1>8. ASSUME NEW p \in Proc, release_trans(p) PROVE AD!End(p)
  <2>1. /\ mode = "up" /\ mode' = "up" /\ pc[p] \in InTrans
        /\ UNCHANGED <<persistent, buf>> /\ pc' = AfterWakeup(p)
    BY <1>8 DEF release_trans, InTrans
  <2>2. Holders = {p} /\ Holders' = {}
    BY <1>0, <2>1 DEF OneTransaction, Holders, AfterWakeup, InTrans
  <2>3. \A q \in Proc : pc[q] # "install"
    BY <1>0, <1>8 DEF release_trans, OneTransaction, InTrans
  <2>4. lh = <<>>
    BY <1>0, <1>8 DEF release_trans, LogInv, OneTransaction, InTrans
  <2>5. head = <<>> /\ tail = 0
    BY <1>0, <2>1, <2>3 DEF LogInv
  <2>6. dirty = {}
    BY <1>0, <2>1, <2>4, <2>5 DEF LogInv
  <2>7. View = Recovered
    BY <1>0, <2>5, <2>6, EmptyLogIsDurable
  <2>8. View' = View /\ Recovered' = Recovered
    BY <2>1 DEF View, Recovered, persistent
  <2> QED
    BY <2>1, <2>2, <2>7, <2>8 DEF AD!End, Holders
<1>9. ASSUME NEW b \in Block, bread(b) \/ recycle(b) PROVE Stutter
  <2>1. UNCHANGED <<disk, logblk, head, pc, mode, dirty>>
    BY <1>9 DEF bread, recycle, persistent
  <2>2. \A c \in Block : c # b => buf'[c] = buf[c]
    BY <1>0, <1>9 DEF bread, recycle, TypeOK
  <2>3. View'[b] = View[b]
    BY <1>0, <1>9 DEF bread, recycle, persistent, TypeOK, View, PinnedUntilInstalled
  <2>4. View' = View
    BY <2>1, <2>2, <2>3 DEF View
  <2> QED
    BY <2>1, <2>4 DEF Recovered, Current, Holders
<1>10. CASE crash
  <2>1. mode' = "boot" /\ Holders' = {} /\ Recovered' = Recovered
    BY <1>10 DEF crash, persistent, Holders, InTrans, Recovered
  <2> QED
    BY <2>1 DEF AD!Crash, AD!Next, Holders
<1>11. CASE read_head
  BY <1>11, <1>a DEF read_head, persistent, Recovered, Current, Holders
<1>12. CASE recover_install
  <2>1. /\ mode = "recover" /\ mode' = "recover" /\ InstallOne /\ head = lh
        /\ UNCHANGED <<logblk, head, lh, pc>>
    BY <1>0, <1>12 DEF recover_install, LogInv
  <2>2. Recovered' = Recovered
    BY <1>0, <2>1, InstallHidden DEF LogInv
  <2>3. Stutter
    BY <2>1, <2>2 DEF Current, Holders
  <2> QED
    BY <1>a, <2>3
<1>13. CASE recover_erase
  <2>1. /\ mode = "recover" /\ mode' = "up" /\ tail = Len(lh)
        /\ head' = <<>> /\ UNCHANGED <<disk, logblk, buf, dirty, pc>>
        /\ head = lh /\ dirty = {} /\ pc = [p \in Proc |-> "idle"]
    BY <1>0, <1>13 DEF recover_erase, EraseHead, LogInv
  <2>2. Recovered' = Recovered /\ Recovered' = disk
    BY <1>0, <2>1, EraseHidden DEF LogInv
  <2>3. View' = [b \in Block |-> disk[b]]
    BY <1>0, <2>1 DEF View, PinnedUntilInstalled
  <2>4. View' = Recovered /\ Holders = {} /\ Holders' = {}
    BY <1>0, <2>1, <2>2, <2>3 DEF TypeOK, Holders, InTrans
  <2> QED
    BY <2>1, <2>2, <2>4 DEF AD!Boot, AD!Next, Holders
<1>14. CASE UNCHANGED vars
  BY <1>14, <1>a DEF vars, Recovered, Current, View, Holders
<1> HIDE DEF Stutter
<1>15. ASSUME NEW p \in Proc, commit_trans(p) PROVE AD!Next \/ UNCHANGED AD!adVars
  BY <1>15, <1>a, <1>5, <1>6, <1>7, <1>8 DEF commit_trans, AD!Next
<1>16. ASSUME NEW p \in Proc, begin_trans(p) \/ begin_trans_sleep(p) \/ log_write_panic(p)
       PROVE AD!Next \/ UNCHANGED AD!adVars
  BY <1>16, <1>a, <1>1, <1>2, <1>4 DEF AD!Next
<1>17. ASSUME NEW p \in Proc, NEW b \in Block, NEW v \in Value, log_write(p, b, v)
       PROVE AD!Next
  BY <1>3, <1>17 DEF AD!Next
<1> QED
  BY <1>a, <1>9, <1>10, <1>11, <1>12, <1>13, <1>14, <1>15, <1>16, <1>17
  DEF Next, recover_from_log, AD!Next

\* The log implements an atomic disk: for any number of processes, blocks and
\* log sectors, and whenever the machine crashes, a transaction reaches the disk
\* entirely or not at all.
THEOREM Refinement == Spec => AtomicTransactions
  BY Invariance, InitRefines, StepRefines, PTL DEF Spec, AtomicTransactions, AD!Spec
=============================================================================

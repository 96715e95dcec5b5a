------------------------------- MODULE Content -------------------------------
(***************************************************************************)
(* File contents: the block layer of fs.c (balloc, bfree, bmap, itrunc,    *)
(* readi, writei), fileread and filewrite of file.c, and the image mkfs.c  *)
(* makes.  An inode's lock is held for the whole of a read or a write, and *)
(* log.c runs one transaction at a time, so each is one step; a crash may  *)
(* come between a write and its commit.  A block is kept twice, as bytes   *)
(* and as block numbers; the code reads it one way or the other.           *)
(***************************************************************************)
EXTENDS Integers, Sequences, SequencesExt, FiniteSets, FiniteSetsExt

CONSTANTS
  Caller,      \* processes that share the open files
  Regular,     \* inode numbers of regular files; 1 is the root directory
  BSIZE,       \* bytes per block; a directory entry is one byte
  NDIRECT, NINDIRECT,
  METABLOCKS,  \* boot block, super block, inode blocks and bitmap block
  SIZE,        \* sb.size
  LOGSIZE,     \* log blocks, at the end of the disk
  Contents,    \* contents given to mkfs: functions from some of Regular
  Chunks,      \* arguments of write
  MaxWrites,   \* bound on the calls that change files
  Lengths      \* arguments of read

ContentConstants ==
  /\ BSIZE \in Nat \ {0} /\ NDIRECT \in Nat /\ NINDIRECT \in Nat
  /\ METABLOCKS \in 4 .. SIZE /\ LOGSIZE \in Nat /\ 1 \notin Regular
  /\ METABLOCKS + (Cardinality(Regular) + 1) * (NDIRECT + NINDIRECT + 1) + LOGSIZE <= SIZE

VARIABLES
  fs,          \* the file system as the buffer cache holds it
  committed,   \* the file system as the last commit left it
  off,         \* f->off of the open file on each inode
  call,        \* call[p]: the filewrite p is in
  trans,       \* the writer whose transaction is open, or "none"
  result,      \* what the fileread that just ended returned
  ncall        \* calls so far that change files

vars == <<fs, committed, off, call, trans, result, ncall>>

Inum    == Regular \union {1}
Block   == 0 .. SIZE - 1
MAXFILE == NDIRECT + NINDIRECT
IBLOCK  == 2
BBLOCK  == METABLOCKS - 1
Zeroes  == [i \in 1 .. BSIZE |-> 0]
NoPtrs  == [i \in 0 .. NINDIRECT - 1 |-> 0]
NoInode == [size |-> 0, addrs |-> [k \in 0 .. NDIRECT |-> 0]]
NoCall  == [file |-> CHOOSE f \in Regular : TRUE, bytes |-> <<>>]

-----------------------------------------------------------------------------
(* The kernel's block layer, as functions of a file system s.  s.logged is *)
(* the set of blocks the open transaction has logged, s.panic what stopped *)
(* the kernel, s.got the block the last call returned.                     *)

(* log_write(b): the test for room comes before absorption. *)
log_write(s, b) ==
  IF Cardinality(s.logged) >= LOGSIZE - 1
  THEN [s EXCEPT !.panic = "too big a transaction"]
  ELSE [s EXCEPT !.logged = @ \union {b}]

(* The bitmap has a bit for every block of the disk, the log's too: on a   *)
(* full disk those are handed out next.  The log is not at a place of its  *)
(* own here, so SIZE must leave room for every block the files can need.   *)
balloc(s) ==
  LET free == Block \ s.bitmap
      b == Min(free)
      marked == log_write([s EXCEPT !.bitmap = @ \union {b}], BBLOCK)
      bzero == log_write([marked EXCEPT !.bytes[b] = Zeroes, !.ptrs[b] = NoPtrs], b) IN
  IF free = {} THEN [s EXCEPT !.panic = "balloc: out of blocks"]
  ELSE [bzero EXCEPT !.got = b]

bfree(s, b) ==
  IF b \notin s.bitmap THEN [s EXCEPT !.panic = "freeing free block"]
  ELSE log_write([s EXCEPT !.bitmap = @ \ {b}], BBLOCK)

(* mkfs hands out the blocks in order, and its bitmap marks as many of     *)
(* them as were handed out.                                                *)
freeblock(s) == [s EXCEPT !.bitmap = @ \union {Cardinality(@)}, !.got = Cardinality(s.bitmap)]

(* The block that holds block bn of inode i, allocated if there is none:   *)
(* first the indirect block if bn needs it, then the block itself.  The    *)
(* kernel's bmap and mkfs's iappend allocate and save in their own ways.   *)
Lookup(s, i, bn, kernel) ==
  LET Alloc(v) == IF kernel THEN balloc(v) ELSE freeblock(v)
      Save(v, b) == IF kernel THEN log_write(v, b) ELSE v
      slot == IF bn < NDIRECT THEN bn ELSE NDIRECT
      addr == s.inode[i].addrs[slot]
      new  == Alloc(s)
      t    == IF addr # 0 THEN [s EXCEPT !.got = addr]
              ELSE [new EXCEPT !.inode[i].addrs[slot] = new.got]
      ind  == t.got
      j    == bn - NDIRECT
      new2 == Alloc(t) IN
  IF bn < NDIRECT THEN t
  ELSE IF t.ptrs[ind][j] # 0 THEN [t EXCEPT !.got = t.ptrs[ind][j]]
  ELSE Save([new2 EXCEPT !.ptrs[ind][j] = new2.got], ind)

bmap(s, i, bn) ==
  IF bn >= MAXFILE THEN [s EXCEPT !.panic = "bmap: out of range"]
  ELSE Lookup(s, i, bn, TRUE)

iupdate(s) == log_write(s, IBLOCK)

(* itrunc frees the direct blocks, the blocks the indirect block lists and *)
(* the indirect block.                                                     *)
itrunc_KeepsIndirect(s, i) ==
  LET a == s.inode[i].addrs
      direct == {a[k] : k \in 0 .. NDIRECT} \ {0} IN
  iupdate([FoldSet(LAMBDA b, t : bfree(t, b), s, direct) EXCEPT !.inode[i] = NoInode])
itrunc(s, i) ==
  LET a == s.inode[i].addrs
      direct == {a[k] : k \in 0 .. NDIRECT - 1} \ {0}
      listed == IF a[NDIRECT] = 0 THEN {}
                ELSE ({s.ptrs[a[NDIRECT]][j] : j \in 0 .. NINDIRECT - 1} \ {0}) \union {a[NDIRECT]}
      freed == FoldSet(LAMBDA b, t : bfree(t, b), s, direct \union listed) IN
  iupdate([freed EXCEPT !.inode[i] = NoInode])

(* The block that holds byte o of inode i, 0 if there is none. *)
BlockAt(s, i, o) ==
  LET bn == o \div BSIZE
      a == s.inode[i].addrs IN
  IF bn < NDIRECT THEN a[bn] ELSE IF a[NDIRECT] = 0 THEN 0 ELSE s.ptrs[a[NDIRECT]][bn - NDIRECT]

Bytes(s, i, o, n) == [k \in 1 .. n |-> s.bytes[BlockAt(s, i, o + k - 1)][((o + k - 1) % BSIZE) + 1]]

(* readi reads at most up to the file's size.  Its bmap would allocate a   *)
(* missing block, outside any transaction.                                 *)
ReadLen(s, i, o, n) == IF o > s.inode[i].size THEN 0 ELSE Min({n, s.inode[i].size - o})
readi(s, i, o, n) ==
  IF \E k \in 0 .. ReadLen(s, i, o, n) - 1 : BlockAt(s, i, o + k) = 0
  THEN [s EXCEPT !.panic = "write outside of trans"] ELSE s

Grows_Always(s, i, end) == TRUE
Grows(s, i, end) == end > s.inode[i].size

(* writei: block by block, then the size if the file has grown. *)
writei(s, i, o, src) ==
  LET end == o + Len(src)
      first == o \div BSIZE
      copy(t, bn) ==   \* memmove into block bn, and log_write
        LET at(k) == bn * BSIZE + k - 1     \* offset of the block's k-th byte
            new == [k \in 1 .. BSIZE |-> IF at(k) \in o .. end - 1 THEN src[at(k) - o + 1]
                                         ELSE t.bytes[t.got][k]] IN
        log_write([t EXCEPT !.bytes[t.got] = new], t.got)
      loop[bn \in first - 1 .. (end - 1) \div BSIZE] ==
        IF bn < first THEN s ELSE copy(bmap(loop[bn - 1], i, bn), bn)
      t == loop[(end - 1) \div BSIZE] IN
  IF Grows(t, i, end) THEN iupdate([t EXCEPT !.inode[i].size = end]) ELSE t

-----------------------------------------------------------------------------
(* mkfs: files are appended byte by byte, from the first data block on.    *)

iappend(s, i, src) ==
  LET append(t, x) ==
        LET o == t.inode[i].size
            u == Lookup(t, i, o \div BSIZE, FALSE) IN
        [u EXCEPT !.bytes[u.got][(o % BSIZE) + 1] = x, !.inode[i].size = o + 1]
  IN  FoldLeft(append, s, src)

(* The root's size is moved up to a block boundary, always by at least one.*)
mkfs(img) ==
  LET blank == [bitmap |-> 0 .. METABLOCKS - 1,
                bytes  |-> [b \in Block |-> Zeroes],
                ptrs   |-> [b \in Block |-> NoPtrs],
                inode  |-> [i \in Inum |-> NoInode],
                logged |-> {}, panic |-> "no", got |-> 0]
      root == iappend(blank, 1, <<1, 1>>)
      add(s, f) == iappend(iappend(s, 1, <<f>>), f, img[f])
      all == FoldLeft(add, root, SetToSortSeq(DOMAIN img, <)) IN
  [all EXCEPT !.inode[1].size = ((@ \div BSIZE) + 1) * BSIZE, !.got = 0]

-----------------------------------------------------------------------------
Init ==
  /\ \E img \in Contents : fs = mkfs(img)
  /\ committed = fs
  /\ off = [f \in Regular |-> 0]
  /\ call = [p \in Caller |-> NoCall]
  /\ trans = "none"
  /\ result = <<>>
  /\ ncall = 0

Running == fs.panic = "no"
NoResult == result' = <<>>

(* filewrite splits the bytes into pieces that fit a transaction. *)
MaxPiece_NotHalved == (LOGSIZE - 1 - 1 - 2) * BSIZE
MaxPiece == ((LOGSIZE - 1 - 1 - 2) \div 2) * BSIZE

filewrite(p, f, src) ==
  /\ Running /\ call[p].bytes = <<>>
  /\ ncall < MaxWrites /\ ncall' = ncall + 1
  /\ call' = [call EXCEPT ![p] = [file |-> f, bytes |-> src]]
  /\ NoResult /\ UNCHANGED <<fs, committed, off, trans>>

(* One turn of its loop up to iunlock: writei refuses to go past the       *)
(* largest file, and then the rest of the bytes is given up.               *)
filewrite_piece(p) ==
  LET f == call[p].file
      n1 == Min({Len(call[p].bytes), MaxPiece}) IN
  /\ Running /\ trans = "none" /\ call[p].bytes # <<>>
  /\ trans' = p
  /\ IF off[f] > fs.inode[f].size \/ off[f] + n1 > MAXFILE * BSIZE
     THEN /\ call' = [call EXCEPT ![p].bytes = <<>>]
          /\ UNCHANGED <<fs, off>>
     ELSE /\ fs' = writei(fs, f, off[f], SubSeq(call[p].bytes, 1, n1))
          /\ off' = [off EXCEPT ![f] = @ + n1]
          /\ call' = [call EXCEPT ![p].bytes = SubSeq(@, n1 + 1, Len(@))]
  /\ NoResult /\ UNCHANGED <<committed, ncall>>

commit_trans(p) ==
  /\ Running /\ trans = p
  /\ fs' = [fs EXCEPT !.logged = {}, !.got = 0]
  /\ committed' = fs'
  /\ trans' = "none"
  /\ NoResult /\ UNCHANGED <<off, call, ncall>>

fileread(f, n) ==
  LET m == ReadLen(fs, f, off[f], n) IN
  /\ Running
  /\ fs' = readi(fs, f, off[f], n)
  /\ result' = Bytes(fs', f, off[f], m)
  /\ off' = [off EXCEPT ![f] = @ + m]
  /\ UNCHANGED <<committed, call, trans, ncall>>

(* dirlookup reads the whole root directory. *)
dirlookup ==
  /\ Running
  /\ fs' = readi(fs, 1, 0, fs.inode[1].size)
  /\ NoResult /\ UNCHANGED <<committed, off, call, trans, ncall>>

(* The last name of f goes and iput truncates it, in unlink's transaction; *)
(* a file of that inode number is empty when it is created again.          *)
unlink(p, f) ==
  /\ Running /\ trans = "none"
  /\ \A q \in Caller : call[q].bytes # <<>> => call[q].file # f
  /\ call[p].bytes = <<>>
  /\ fs.inode[f].size > 0
  /\ ncall < MaxWrites /\ ncall' = ncall + 1
  /\ trans' = p
  /\ fs' = itrunc(fs, f)
  /\ off' = [off EXCEPT ![f] = 0]
  /\ NoResult /\ UNCHANGED <<committed, call>>

open(f) ==
  /\ Running
  /\ off[f] # 0
  /\ off' = [off EXCEPT ![f] = 0]
  /\ NoResult /\ UNCHANGED <<fs, committed, call, trans, ncall>>

(* Power failure or reboot: recovery installs the committed transactions. *)
crash ==
  /\ fs' = committed
  /\ off' = [f \in Regular |-> 0]
  /\ call' = [p \in Caller |-> [call[p] EXCEPT !.bytes = <<>>]]
  /\ trans' = "none"
  /\ NoResult /\ UNCHANGED <<committed, ncall>>

Next ==
  \/ \E p \in Caller, f \in Regular :
       \/ \E src \in Chunks : filewrite(p, f, src)
       \/ unlink(p, f)
  \/ \E p \in Caller : filewrite_piece(p) \/ commit_trans(p)
  \/ \E f \in Regular, n \in Lengths : fileread(f, n)
  \/ \E f \in Regular : open(f)
  \/ dirlookup \/ crash

Spec == Init /\ [][Next]_vars

-----------------------------------------------------------------------------
(* The blocks of inode i, with the place each one is listed. *)
Owned(s, i) ==
  LET a == s.inode[i].addrs IN
  {<<i, k, a[k]>> : k \in 0 .. NDIRECT}
  \union (IF a[NDIRECT] = 0 THEN {}
          ELSE {<<i, MAXFILE + 1 + j, s.ptrs[a[NDIRECT]][j]>> : j \in 0 .. NINDIRECT - 1})

(* In memory and after any crash, a block is marked in the bitmap exactly  *)
(* when it is metadata or listed once by one file, and every file has a    *)
(* block for each byte below its size.                                     *)
Consistent(s) ==
  LET used == {o \in UNION {Owned(s, i) : i \in Inum} : o[3] # 0} IN
  /\ s.bitmap = 0 .. METABLOCKS - 1 \union {o[3] : o \in used}
  /\ Cardinality(s.bitmap) = METABLOCKS + Cardinality(used)
  /\ \A i \in Inum : \A o \in 0 .. s.inode[i].size - 1 : BlockAt(s, i, o) # 0
BlocksAccounted == fs.panic = "no" => Consistent(fs) /\ Consistent(committed)

(* No write fills the log: the pieces filewrite makes fit a transaction,   *)
(* and itrunc does (log_write's panic "too big a transaction").  Nor is a  *)
(* free block freed, or a block read that is not there.                    *)
FitsInLog == fs.panic \in {"no", "balloc: out of blocks"}

(* Files behave as byte sequences with a shared offset: see ByteFile. *)
FileBytes(s) == [f \in Regular |-> Bytes(s, f, 0, s.inode[f].size)]
Files == INSTANCE ByteFile WITH
  content <- FileBytes(fs), durable <- FileBytes(committed), offset <- off, todo <- call
ByteFiles == Files!Spec

=============================================================================

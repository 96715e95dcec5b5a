------------------------------- MODULE Umalloc -------------------------------
(***************************************************************************)
(* The user-level allocator (umalloc.c): a circular list of free blocks,   *)
(* sorted by address, through the header base.  Addresses are counted in   *)
(* headers; base is at 0, below the heap, and a block at p takes p, its    *)
(* header, up to p + size[p].  A program has one thread, so a call is one  *)
(* step; the program may also call sbrk itself, which leaves gaps.         *)
(***************************************************************************)
EXTENDS Integers, FiniteSets

CONSTANTS
  HEAPSTART, HEAPEND,   \* where the break starts, and where sbrk fails
  MINCORE,              \* least number of headers morecore asks for
  HDR, UINT,            \* sizeof(Header), and what a uint wraps at
  Requests,             \* sizes, in bytes, of the calls of malloc
  Gaps                  \* sizes of the program's own calls of sbrk

VARIABLES
  heap,     \* ptr and size of every header, freep, and the break
  used,     \* blocks the program holds: <<address, size, bytes asked for>>
  foreign   \* pieces the program got from sbrk itself: <<address, size>>

vars == <<heap, used, foreign>>

Null == -1
Addr == 0 .. HEAPEND - 1
Init ==
  /\ heap = [ptr |-> [a \in Addr |-> Null], size |-> [a \in Addr |-> 0], freep |-> Null, brk |-> HEAPSTART]
  /\ used = {} /\ foreign = {}

-----------------------------------------------------------------------------
(* free: the block before bp in the list, then the merge with the block    *)
(* above and with the block below.                                         *)
Here(h, bp, p) ==
  \/ bp > p /\ bp < h.ptr[p]
  \/ p >= h.ptr[p] /\ (bp > p \/ bp < h.ptr[p])
RECURSIVE Place(_, _, _)
Place(h, bp, p) == IF Here(h, bp, p) THEN p ELSE Place(h, bp, h.ptr[p])

Above(h, bp, next) ==
  IF bp + h.size[bp] = next
  THEN [h EXCEPT !.size[bp] = @ + h.size[next], !.ptr[bp] = h.ptr[next]]
  ELSE [h EXCEPT !.ptr[bp] = next]
Below_Unmerged(h, bp, p) == [h EXCEPT !.ptr[p] = bp]
Below(h, bp, p) ==
  IF p + h.size[p] = bp
  THEN [h EXCEPT !.size[p] = @ + h.size[bp], !.ptr[p] = h.ptr[bp]]
  ELSE [h EXCEPT !.ptr[p] = bp]
Free(h, bp) ==
  LET p == Place(h, bp, h.freep) IN [Below(Above(h, bp, h.ptr[p]), bp, p) EXCEPT !.freep = p]

(* sbrk takes an int, and fails beyond HEAPEND. *)
SInt(x) == ((x + UINT \div 2) % UINT) - UINT \div 2
morecore(h, n) ==
  LET nu == IF n < MINCORE THEN MINCORE ELSE n
      brk == h.brk + SInt(nu * HDR) \div HDR IN
  IF brk > HEAPEND THEN [h EXCEPT !.brk = Null]
  ELSE Free([h EXCEPT !.size[h.brk] = nu, !.brk = brk], h.brk)

(* malloc's loop: first fit from freep on; a larger block gives its tail.  *)
(* The result is the heap and the block, Null when there is no memory.     *)
Taken(h, prevp, p, n) ==
  IF h.size[p] = n
  THEN [h |-> [h EXCEPT !.ptr[prevp] = h.ptr[p], !.freep = prevp], p |-> p]
  ELSE LET t == p + h.size[p] - n IN
       [h |-> [h EXCEPT !.size[p] = @ - n, !.size[t] = n, !.freep = prevp], p |-> t]
RECURSIVE Search(_, _, _, _)
Search(h, prevp, p, n) ==
  LET more == morecore(h, n) IN
  IF h.size[p] >= n THEN Taken(h, prevp, p, n)
  ELSE IF p # h.freep THEN Search(h, p, h.ptr[p], n)
  ELSE IF more.brk = Null THEN [h |-> h, p |-> Null]
  ELSE Search(more, more.freep, more.ptr[more.freep], n)

Started(h) == IF h.freep = Null THEN [h EXCEPT !.ptr[0] = 0, !.freep = 0, !.size[0] = 0] ELSE h

(* Words that are no header of the list, nor the size of a block in use    *)
(* (U, their addresses), are anything; they are kept as 0 and Null.        *)
RECURSIVE Listed(_, _, _)
Listed(h, S, p) == IF p \in S THEN S ELSE Listed(h, S \union {p}, h.ptr[p])
Kept(h, U) ==
  LET L == Listed(h, {}, h.freep) IN
  [h EXCEPT !.ptr = [a \in Addr |-> IF a \in L THEN h.ptr[a] ELSE Null],
            !.size = [a \in Addr |-> IF a \in L \union U THEN h.size[a] ELSE 0]]
Addresses(B) == {b[1] : b \in B}

nunits(nbytes) == ((nbytes + HDR - 1) % UINT) \div HDR + 1

malloc(nbytes) ==
  LET h == Started(heap)
      n == nunits(nbytes)
      r == Search(h, h.freep, h.ptr[h.freep], n) IN
  /\ heap' = Kept(r.h, Addresses(used) \union {r.p})
  /\ used' = IF r.p = Null THEN used ELSE used \union {<<r.p, n, nbytes>>}
  /\ UNCHANGED foreign

free(b) ==
  /\ heap' = Kept(Free(heap, b[1]), Addresses(used \ {b}))
  /\ used' = used \ {b}
  /\ UNCHANGED foreign

sbrk(n) ==
  /\ heap.brk + n <= HEAPEND
  /\ heap' = [heap EXCEPT !.brk = @ + n]
  /\ foreign' = foreign \union {<<heap.brk, n>>}
  /\ UNCHANGED used

Next == \/ \E n \in Requests : malloc(n)
        \/ \E b \in used : free(b)
        \/ \E n \in Gaps : sbrk(n)

-----------------------------------------------------------------------------
(* The blocks on the list, base not included. *)
FreeBlocks == IF heap.freep = Null THEN {} ELSE {<<p, heap.size[p]>> : p \in Listed(heap, {}, heap.freep) \ {0}}
Units(B) == UNION {b[1] .. b[1] + b[2] - 1 : b \in B}

(* Every header between the start of the heap and the break belongs to     *)
(* exactly one free block, block in use or piece of the program's own: no  *)
(* overlap, nothing lost, the header of a block in use intact; the free    *)
(* list goes once around through base in the order of addresses; and free  *)
(* blocks that touch have been merged; and a block has the bytes that were *)
(* asked for behind its header (free and malloc of umalloc.c).             *)
HeapPartition ==
  LET F == FreeBlocks
      all == F \union used \union foreign IN
  /\ Units(all) = HEAPSTART .. heap.brk - 1
  /\ \A b, c \in all : b # c => b[1] + b[2] <= c[1] \/ c[1] + c[2] <= b[1]
  /\ Cardinality(F) + Cardinality(used) + Cardinality(foreign) = Cardinality(all)
  /\ \A b \in used : heap.size[b[1]] = b[2] /\ (b[2] - 1) * HDR >= b[3]
  /\ heap.freep # Null =>
       /\ 0 \in Listed(heap, {}, heap.freep)
       /\ Cardinality({p \in Listed(heap, {}, heap.freep) : heap.ptr[p] <= p}) = 1
  /\ \A b, c \in F : b[1] + b[2] # c[1]

=============================================================================

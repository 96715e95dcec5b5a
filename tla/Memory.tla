------------------------------- MODULE Memory -------------------------------
(***************************************************************************)
(* Physical pages and address spaces: kalloc.c, the user part of vm.c,     *)
(* exec() and the parts of sbrk, fork, exit and wait that own pages.       *)
(* kalloc and kfree are atomic under kmem.lock; every other line only      *)
(* touches pages the process owns, so one kalloc or kfree is one step.     *)
(* Addresses are counted in units, PGSIZE units to a page, and the         *)
(* contents of pages are left out.  A page-table page's entries are kept   *)
(* with its directory, so vm[d] is what a walk that starts at d sees.      *)
(***************************************************************************)
EXTENDS Integers, Sequences, FiniteSets, FiniteSetsExt

CONSTANTS
  NPROC,        \* slots of the process table; slot 1 is init
  NPAGES,       \* physical pages between end and PHYSTOP
  PGSIZE,       \* units per page
  NPTENTRIES,   \* pages mapped by one page table
  UTABLES,      \* page tables below KERNBASE
  KTABLES,      \* page tables that the kernel's mappings need
  Images,       \* programs: sequences of segments [vaddr, filesz, memsz]
  Deltas        \* arguments of sbrk

MemoryConstants ==
  /\ NPROC \in Nat \ {0} /\ PGSIZE \in Nat \ {0} /\ NPTENTRIES \in Nat \ {0}
  /\ UTABLES \in Nat \ {0} /\ KTABLES \in Nat \ {0} /\ Deltas \subseteq Int
  /\ NPAGES \in Nat /\ NPAGES >= KTABLES + 4

VARIABLES
  freelist,     \* kmem.freelist as a set; kalloc takes its least page
  vm,           \* vm[d]: the directory in page d and the tables under it
  pgdir,        \* p->pgdir
  cr3,          \* the directory the CPU uses while p runs, 0 for kpgdir
  sz,           \* p->sz
  kstack,       \* p->kstack
  state,        \* p->state
  op,           \* progress of p inside the kernel
  noTable,      \* history: some page-table page could not be allocated
  halted        \* the kernel has stopped in panic()

slots   == <<pgdir, cr3, sz, kstack, state>>
memvars == <<freelist, vm, slots, op, noTable, halted>>

Slot     == 1 .. NPROC
Page     == 1 .. NPAGES
VPage    == 0 .. UTABLES * NPTENTRIES - 1
Table    == 0 .. UTABLES + KTABLES - 1
KERNBASE == UTABLES * NPTENTRIES * PGSIZE
PDX(v)   == v \div NPTENTRIES
PageUp(a) == (a + PGSIZE - 1) \div PGSIZE    \* PGROUNDUP, as a page number
PGROUNDUP(a) == PageUp(a) * PGSIZE

Empty == [pde |-> [t \in Table |-> 0], pte |-> [v \in VPage |-> 0], user |-> {}]

(* A process's kernel call: pc is its next step, d the directory it works  *)
(* on, v the loop's page or table, end the loop's bound, old and new the   *)
(* sizes before and after, mem the page in hand, c the child.              *)
Idle == [pc |-> "user", call |-> "none", d |-> 0, v |-> 0, end |-> 0, old |-> 0,
         new |-> 0, img |-> <<>>, stack |-> FALSE, mem |-> 0, c |-> 1]

-----------------------------------------------------------------------------
(* kalloc, kfree and the page-table walk. *)

CanAlloc == freelist # {}
kalloc   == Min(freelist)

(* kfree(v) puts the page on the list and fills it with junk: as a         *)
(* directory it maps nothing any more.                                     *)
Freed(v, mem) == [mem EXCEPT ![v] = Empty]
kfree(v) == freelist' = freelist \union {v}

(* walkpgdir(d, v, 0) # 0: the page table that covers page v exists. *)
Walks(d, v) == vm[d].pde[PDX(v)] # 0

(* The page-table entry is cleared when its page is freed. *)
Unmap_KeepsEntry(d, v) == vm
Unmap(d, v) == [vm EXCEPT ![d].pte[v] = 0, ![d].user = @ \ {v}]

(* switchuvm loads cr3. *)
switchuvm(p, d) == [cr3 EXCEPT ![p] = d]
switchkvm_Omitted(p) == cr3
switchkvm(p) == [cr3 EXCEPT ![p] = 0]

(* clearpteu takes a page from user mode.  uva2ka finds a page that user   *)
(* mode may use; it does not test for a missing page table, so there it    *)
(* reads a stray word, and fails or goes on.                               *)
clearpteu(d, v) == [vm EXCEPT ![d].user = @ \ {v}]
uva2ka(d, v) == Walks(d, v) => v \in vm[d].user

(* deallocuvm's walk: the next mapped page from v up to the bound.  At a   *)
(* missing page table the walk moves on by a whole table from where it     *)
(* stands, not to the table's boundary.                                    *)
NextMapped(d, from, end) ==
  LET walk[v \in 0 .. end + NPTENTRIES] ==
        IF v >= end THEN end
        ELSE IF ~Walks(d, v) THEN walk[v + NPTENTRIES]
        ELSE IF vm[d].pte[v] # 0 THEN v
        ELSE walk[v + 1]
  IN  walk[from]

-----------------------------------------------------------------------------
(* The state userinit leaves: init has a directory, one page table, one    *)
(* user page and a kernel stack.                                           *)
MemInit ==
  LET table == 2 + KTABLES
      user  == 3 + KTABLES
      stack == 4 + KTABLES IN
  /\ vm = [d \in Page |-> IF d # 1 THEN Empty ELSE
             [pde |-> [t \in Table |-> IF t >= UTABLES THEN 2 + t - UTABLES
                                       ELSE IF t = 0 THEN table ELSE 0],
              pte |-> [v \in VPage |-> IF v = 0 THEN user ELSE 0],
              user |-> {0}]]
  /\ pgdir = [p \in Slot |-> IF p = 1 THEN 1 ELSE 0]
  /\ cr3 = pgdir
  /\ sz = [p \in Slot |-> IF p = 1 THEN PGSIZE ELSE 0]
  /\ kstack = [p \in Slot |-> IF p = 1 THEN stack ELSE 0]
  /\ state = [p \in Slot |-> IF p = 1 THEN "RUNNING" ELSE "UNUSED"]
  /\ freelist = Page \ 1 .. stack
  /\ op = [p \in Slot |-> Idle]
  /\ noTable = FALSE /\ halted = FALSE

-----------------------------------------------------------------------------
At(p, pc)  == ~halted /\ op[p].pc = pc
Goto(p, o) == op' = [op EXCEPT ![p] = o]
panic      == halted' = TRUE /\ UNCHANGED <<freelist, vm, slots, op, noTable>>

(* Code runs in user mode only while its first page is mapped. *)
InUser(p) == At(p, "user") /\ state[p] = "RUNNING" /\ vm[pgdir[p]].pte[0] # 0

(* ptable.lock, which wait() holds while it frees a child, and an exiting  *)
(* process until the scheduler has left its stack and its directory.       *)
PtableFree == \A q \in Slot : op[q].call \notin {"wait", "exit"}

(* Entry of allocuvm(d, old, new): beyond KERNBASE it returns 0, and it    *)
(* never shrinks.                                                          *)
AllocFrom(o, old, new) ==
  IF new >= KERNBASE THEN [o EXCEPT !.pc = "allocated", !.old = old, !.new = 0]
  ELSE IF new < old THEN [o EXCEPT !.pc = "allocated", !.old = old, !.new = old]
  ELSE [o EXCEPT !.pc = "alloc", !.old = old, !.new = new,
                 !.v = PageUp(old), !.end = PageUp(new)]

(* Entry of deallocuvm(d, old, new). *)
DeallocFrom(o, old, new) ==
  [o EXCEPT !.pc = "dealloc", !.v = PageUp(new), !.end = PageUp(old)]

(* goto bad, with directory d, and the entry of freevm(d). *)
Bad(o, d) == [Idle EXCEPT !.call = o.call, !.c = o.c, !.pc = "bad", !.d = d]
FreeFrom(o, d) == [Bad(o, d) EXCEPT !.pc = "freeuser"]

(* sys_sbrk and growproc.  The sum wraps when it would be negative, and    *)
(* deallocuvm then has nothing to do.                                      *)
sys_sbrk(p, n) ==
  /\ InUser(p) /\ p # 1
  /\ LET o == [Idle EXCEPT !.call = "sbrk", !.d = pgdir[p]]
         new == sz[p] + n IN
     Goto(p, IF n > 0 THEN AllocFrom(o, sz[p], new)
             ELSE IF new >= 0 /\ n < 0 THEN [DeallocFrom(o, sz[p], new) EXCEPT !.new = new]
             ELSE [o EXCEPT !.pc = "allocated", !.new = sz[p]])
  /\ UNCHANGED <<freelist, vm, slots, noTable, halted>>

(* The end of growproc: a new size of 0 is taken for an error, and p->sz   *)
(* keeps its value.                                                        *)
growproc(p) ==
  /\ At(p, "allocated") /\ op[p].call = "sbrk"
  /\ sz' = [sz EXCEPT ![p] = IF op[p].new = 0 THEN @ ELSE op[p].new]
  /\ cr3' = IF op[p].new = 0 THEN cr3 ELSE switchuvm(p, pgdir[p])
  /\ Goto(p, Idle)
  /\ UNCHANGED <<freelist, vm, pgdir, kstack, state, noTable, halted>>

-----------------------------------------------------------------------------
(* setupkvm: a directory, then the page tables of the kernel's mappings.   *)
(* A failure half-way returns 0 and forgets what was allocated.            *)
setupkvm(p) ==
  LET o == op[p]
      done == IF o.call = "exec" THEN "segment" ELSE "copy" IN
  /\ At(p, "setupkvm")
  /\ \/ /\ ~CanAlloc
        /\ Goto(p, Bad(o, 0))
        /\ noTable' = (noTable \/ o.d # 0)
        /\ UNCHANGED <<freelist, vm>>
     \/ /\ CanAlloc /\ o.d = 0
        /\ freelist' = freelist \ {kalloc}
        /\ Goto(p, [o EXCEPT !.d = kalloc])
        /\ UNCHANGED <<vm, noTable>>
     \/ /\ CanAlloc /\ o.d # 0
        /\ freelist' = freelist \ {kalloc}
        /\ vm' = [vm EXCEPT ![o.d].pde[UTABLES + o.v] = kalloc]
        /\ Goto(p, IF o.v + 1 < KTABLES THEN [o EXCEPT !.v = @ + 1]
                                        ELSE [o EXCEPT !.v = 0, !.pc = done])
        /\ UNCHANGED noTable
  /\ UNCHANGED <<slots, halted>>

(* allocuvm's loop takes a page; when there is none it gives back what it  *)
(* took and returns 0.                                                     *)
allocuvm(p) ==
  LET o == op[p] IN
  /\ At(p, "alloc")
  /\ \/ /\ o.v >= o.end
        /\ Goto(p, [o EXCEPT !.pc = "allocated"])
        /\ UNCHANGED freelist
     \/ /\ o.v < o.end /\ CanAlloc
        /\ freelist' = freelist \ {kalloc}
        /\ Goto(p, [o EXCEPT !.pc = "map", !.mem = kalloc])
     \/ /\ o.v < o.end /\ ~CanAlloc
        /\ Goto(p, [DeallocFrom(o, o.new, o.old) EXCEPT !.new = 0])
        /\ UNCHANGED freelist
  /\ UNCHANGED <<vm, slots, noTable, halted>>

(* mappages of the page in hand, which may need a page table.  allocuvm    *)
(* ignores its failure; copyuvm gives up; both forget the page.            *)
mappages(p) ==
  LET o == op[p]
      d == o.d
      go == [o EXCEPT !.pc = IF o.call = "fork" THEN "copy" ELSE "alloc", !.v = @ + 1, !.mem = 0] IN
  /\ At(p, "map")
  /\ \/ /\ Walks(d, o.v) /\ vm[d].pte[o.v] # 0     \* "remap"
        /\ panic
     \/ /\ Walks(d, o.v) /\ vm[d].pte[o.v] = 0
        /\ vm' = [vm EXCEPT ![d].pte[o.v] = o.mem, ![d].user = @ \union {o.v}]
        /\ Goto(p, go)
        /\ UNCHANGED <<freelist, slots, noTable, halted>>
     \/ /\ ~Walks(d, o.v) /\ CanAlloc
        /\ freelist' = freelist \ {kalloc}
        /\ vm' = [vm EXCEPT ![d].pde[PDX(o.v)] = kalloc, ![d].pte[o.v] = o.mem,
                            ![d].user = @ \union {o.v}]
        /\ Goto(p, go)
        /\ UNCHANGED <<slots, noTable, halted>>
     \/ /\ ~Walks(d, o.v) /\ ~CanAlloc
        /\ noTable' = TRUE
        /\ Goto(p, IF o.call = "fork" THEN Bad(o, d) ELSE go)
        /\ UNCHANGED <<freelist, vm, slots, halted>>

(* deallocuvm frees the mapped pages up to the bound; freevm then frees    *)
(* the page tables, the kernel's too, and last the directory.              *)
deallocuvm(p) ==
  LET o == op[p]
      user == o.pc = "freeuser"
      v == NextMapped(o.d, o.v, IF user THEN UTABLES * NPTENTRIES ELSE o.end) IN
  /\ At(p, "dealloc") \/ At(p, "freeuser")
  /\ IF v < (IF user THEN UTABLES * NPTENTRIES ELSE o.end)
     THEN /\ kfree(vm[o.d].pte[v])
          /\ vm' = Freed(vm[o.d].pte[v], Unmap(o.d, v))
          /\ Goto(p, [o EXCEPT !.v = v + 1])
     ELSE /\ Goto(p, [o EXCEPT !.pc = IF user THEN "freetables" ELSE "allocated", !.v = 0])
          /\ UNCHANGED <<freelist, vm>>
  /\ UNCHANGED <<slots, noTable, halted>>

freevm(p) ==
  LET o == op[p]
      tables == {t \in Table : t >= o.v /\ vm[o.d].pde[t] # 0}
      t == Min(tables) IN
  /\ At(p, "freetables")
  /\ IF tables # {}
     THEN /\ kfree(vm[o.d].pde[t])
          /\ vm' = Freed(vm[o.d].pde[t], vm)
          /\ Goto(p, [o EXCEPT !.v = t + 1])
     ELSE /\ kfree(o.d)
          /\ vm' = Freed(o.d, vm)
          /\ Goto(p, [o EXCEPT !.pc = "freed", !.d = 0])
  /\ UNCHANGED <<slots, noTable, halted>>

-----------------------------------------------------------------------------
(* exec.  The new image is built under a directory of its own; the caller  *)
(* keeps the old one until the commit.                                     *)
exec(p, img) ==
  /\ InUser(p)
  /\ Goto(p, [Idle EXCEPT !.call = "exec", !.pc = "setupkvm", !.img = img])
  /\ UNCHANGED <<freelist, vm, slots, noTable, halted>>

(* The next segment, unless its header is bad, or after the last one the   *)
(* guard page and the stack.                                               *)
exec_segment(p) ==
  LET o == op[p]
      base == PGROUNDUP(o.new) IN
  /\ At(p, "segment")
  /\ \/ Goto(p, IF o.img = <<>> THEN [AllocFrom(o, base, base + 2 * PGSIZE) EXCEPT !.stack = TRUE]
                ELSE AllocFrom(o, o.new, Head(o.img).vaddr + Head(o.img).memsz))
     \/ o.img # <<>> /\ Goto(p, Bad(o, o.d))
  /\ UNCHANGED <<freelist, vm, slots, noTable, halted>>

(* loaduvm reads the segment into its pages: their page tables must exist, *)
(* and the file may be too short.                                          *)
exec_load(p) ==
  LET o == op[p]
      seg == Head(o.img)
      pages == {v \in VPage : v * PGSIZE >= seg.vaddr /\ v * PGSIZE < seg.vaddr + seg.filesz} IN
  /\ At(p, "allocated") /\ o.call = "exec" /\ ~o.stack
  /\ IF o.new # 0 /\ \E v \in pages : ~Walks(o.d, v)     \* "address should exist"
     THEN panic
     ELSE /\ \/ o.new # 0 /\ Goto(p, [o EXCEPT !.pc = "segment", !.img = Tail(@)])
             \/ Goto(p, Bad(o, o.d))
          /\ UNCHANGED <<freelist, vm, slots, noTable, halted>>

(* clearpteu on the guard page, copyout of the arguments to the stack, and *)
(* the commit.  copyout fails on a page that uva2ka does not find, and     *)
(* when the arguments reach down into the guard page.                      *)
exec_commit(p) ==
  LET o == op[p]
      guard == PageUp(o.new) - 2
      stack == PageUp(o.new) - 1 IN
  /\ At(p, "allocated") /\ o.call = "exec" /\ o.stack
  /\ IF o.new # 0 /\ ~Walks(o.d, guard)     \* "clearpteu"
     THEN panic
     ELSE \/ /\ o.new # 0 /\ uva2ka(o.d, stack)
             /\ vm' = clearpteu(o.d, guard)
             /\ pgdir' = [pgdir EXCEPT ![p] = o.d]
             /\ cr3' = switchuvm(p, o.d)
             /\ sz' = [sz EXCEPT ![p] = o.new]
             /\ Goto(p, FreeFrom(o, pgdir[p]))
             /\ UNCHANGED <<freelist, kstack, state, noTable, halted>>
          \/ /\ Goto(p, Bad(o, o.d))
             /\ UNCHANGED <<freelist, vm, slots, noTable, halted>>

(* The bad: label of exec and of copyuvm: free what was built, if any. *)
bad_FreesCaller(p) ==
  /\ At(p, "bad")
  /\ Goto(p, FreeFrom(op[p], pgdir[p]))
  /\ UNCHANGED <<freelist, vm, slots, noTable, halted>>
bad(p) ==
  /\ At(p, "bad")
  /\ Goto(p, IF op[p].d = 0 THEN [op[p] EXCEPT !.pc = "freed"] ELSE FreeFrom(op[p], op[p].d))
  /\ UNCHANGED <<freelist, vm, slots, noTable, halted>>

exec_return(p) ==
  /\ At(p, "freed") /\ op[p].call = "exec"
  /\ Goto(p, Idle)
  /\ UNCHANGED <<freelist, vm, slots, noTable, halted>>

-----------------------------------------------------------------------------
(* fork: allocproc takes the first UNUSED slot, then a kernel stack. *)
fork(p) ==
  LET unused == {c \in Slot : state[c] = "UNUSED"} IN
  /\ InUser(p) /\ PtableFree /\ unused # {}
  /\ state' = [state EXCEPT ![Min(unused)] = "EMBRYO"]
  /\ Goto(p, [Idle EXCEPT !.call = "fork", !.pc = "kstack", !.c = Min(unused)])
  /\ UNCHANGED <<freelist, vm, pgdir, cr3, sz, kstack, noTable, halted>>

allocproc(p) ==
  LET c == op[p].c IN
  /\ At(p, "kstack")
  /\ \/ /\ CanAlloc
        /\ freelist' = freelist \ {kalloc}
        /\ kstack' = [kstack EXCEPT ![c] = kalloc]
        /\ Goto(p, [op[p] EXCEPT !.pc = "setupkvm"])
        /\ UNCHANGED state
     \/ /\ ~CanAlloc
        /\ state' = [state EXCEPT ![c] = "UNUSED"]
        /\ Goto(p, Idle)
        /\ UNCHANGED <<freelist, kstack>>
  /\ UNCHANGED <<vm, pgdir, cr3, sz, noTable, halted>>

(* copyuvm's loop over the parent's pages, and the end of fork. *)
copyuvm(p) ==
  LET o == op[p]
      c == o.c IN
  /\ At(p, "copy")
  /\ \/ /\ o.v < PageUp(sz[p]) /\ vm[pgdir[p]].pte[o.v] = 0     \* "pte should exist"
        /\ panic
     \/ /\ o.v < PageUp(sz[p]) /\ vm[pgdir[p]].pte[o.v] # 0
        /\ IF CanAlloc
           THEN /\ freelist' = freelist \ {kalloc}
                /\ Goto(p, [o EXCEPT !.pc = "map", !.mem = kalloc])
           ELSE /\ Goto(p, Bad(o, o.d))
                /\ UNCHANGED freelist
        /\ UNCHANGED <<vm, slots, noTable, halted>>
     \/ /\ o.v >= PageUp(sz[p])
        /\ pgdir' = [pgdir EXCEPT ![c] = o.d]
        /\ cr3' = [cr3 EXCEPT ![c] = o.d]     \* the scheduler's switchuvm
        /\ sz' = [sz EXCEPT ![c] = sz[p]]
        /\ state' = [state EXCEPT ![c] = "RUNNING"]
        /\ Goto(p, Idle)
        /\ UNCHANGED <<freelist, vm, kstack, noTable, halted>>

(* copyuvm returned 0: the kernel stack and the slot are given back. *)
fork_failed_KeepsStack(p) ==
  /\ At(p, "freed") /\ op[p].call = "fork"
  /\ kstack' = [kstack EXCEPT ![op[p].c] = 0]
  /\ pgdir' = [pgdir EXCEPT ![op[p].c] = 0]
  /\ state' = [state EXCEPT ![op[p].c] = "UNUSED"]
  /\ Goto(p, Idle)
  /\ UNCHANGED <<freelist, vm, cr3, sz, noTable, halted>>
fork_failed(p) ==
  LET c == op[p].c IN
  /\ At(p, "freed") /\ op[p].call = "fork"
  /\ kfree(kstack[c])
  /\ vm' = Freed(kstack[c], vm)
  /\ kstack' = [kstack EXCEPT ![c] = 0]
  /\ pgdir' = [pgdir EXCEPT ![c] = 0]
  /\ state' = [state EXCEPT ![c] = "UNUSED"]
  /\ Goto(p, Idle)
  /\ UNCHANGED <<cr3, sz, noTable, halted>>

-----------------------------------------------------------------------------
(* exit leaves everything to the parent, and calls sched() on its own      *)
(* stack and directory.  A process whose code is gone faults and is made   *)
(* to exit.                                                                *)
exit(p) ==
  /\ At(p, "user") /\ state[p] = "RUNNING" /\ p # 1 /\ PtableFree
  /\ state' = [state EXCEPT ![p] = "ZOMBIE"]
  /\ Goto(p, [Idle EXCEPT !.call = "exit", !.pc = "sched"])
  /\ UNCHANGED <<freelist, vm, pgdir, cr3, sz, kstack, noTable, halted>>

(* The scheduler, after swtch: switchkvm, then it releases ptable.lock. *)
scheduler(p) ==
  /\ At(p, "sched")
  /\ cr3' = switchkvm(p)
  /\ Goto(p, Idle)
  /\ UNCHANGED <<freelist, vm, pgdir, sz, kstack, state, noTable, halted>>

(* wait frees a zombie's kernel stack and address space under ptable.lock. *)
(* Which process is the parent is module Ptable's concern.                 *)
wait(p, c) ==
  /\ InUser(p) /\ PtableFree /\ state[c] = "ZOMBIE"
  /\ kfree(kstack[c])
  /\ vm' = Freed(kstack[c], vm)
  /\ kstack' = [kstack EXCEPT ![c] = 0]
  /\ Goto(p, FreeFrom([Idle EXCEPT !.call = "wait", !.c = c], pgdir[c]))
  /\ UNCHANGED <<pgdir, cr3, sz, state, noTable, halted>>

wait_return(p) ==
  /\ At(p, "freed") /\ op[p].call = "wait"
  /\ state' = [state EXCEPT ![op[p].c] = "UNUSED"]
  /\ Goto(p, Idle)
  /\ UNCHANGED <<freelist, vm, pgdir, cr3, sz, kstack, noTable, halted>>

-----------------------------------------------------------------------------
MemNext ==
  \/ \E p \in Slot :
       \/ \E n \in Deltas : sys_sbrk(p, n)
       \/ \E img \in Images : exec(p, img)
       \/ \E c \in Slot : wait(p, c)
       \/ growproc(p) \/ setupkvm(p) \/ allocuvm(p) \/ mappages(p)
       \/ deallocuvm(p) \/ freevm(p) \/ exec_segment(p) \/ exec_load(p)
       \/ exec_commit(p) \/ bad(p) \/ exec_return(p) \/ fork(p)
       \/ allocproc(p) \/ copyuvm(p) \/ fork_failed(p) \/ exit(p) \/ scheduler(p)
       \/ wait_return(p)
  \/ halted /\ UNCHANGED memvars     \* panic() spins for ever

MemSpec == MemInit /\ [][MemNext]_memvars

-----------------------------------------------------------------------------
(* Every place that holds a physical page, as <<kind, owner, index, page>>.*)
(* A directory belongs to its process, or to the call that builds or frees *)
(* it (exec, fork, wait); it holds its tables and its user pages, and      *)
(* freevm has given up the tables below op.v.                              *)
Live == {p \in Slot : /\ state[p] \in {"RUNNING", "ZOMBIE"}
                     /\ ~\E q \in Slot : op[q].call = "wait" /\ op[q].c = p}
Dirs == {<<"dir", p, 0, pgdir[p]>> : p \in Live}
        \union {<<"dir", p, 1, op[p].d>> :
                  p \in {q \in Slot : op[q].d # 0 /\ \A r \in Live : op[q].d # pgdir[r]}}
GivenUp(d, t) == \E q \in Slot : op[q].pc = "freetables" /\ op[q].d = d /\ t < op[q].v
Holds ==
  LET D == {h[4] : h \in Dirs}
      all == Dirs
        \union {<<"free", 0, 0, f>> : f \in freelist}
        \union {<<"table", d, t, IF GivenUp(d, t) THEN 0 ELSE vm[d].pde[t]>> : d \in D, t \in Table}
        \union {<<"user", d, v, vm[d].pte[v]>> : d \in D, v \in VPage}
        \union {<<"kstack", p, 0, kstack[p]>> : p \in Slot}
        \union {<<"hand", p, 0, op[p].mem>> : p \in Slot}
  IN  {h \in all : h[4] # 0}

(* No physical page is held twice: it is free, or a kernel stack, or part  *)
(* of exactly one address space.  Nothing is freed twice or used after it  *)
(* was freed, in particular on exec's and fork's error paths (kfree, vm.c).*)
OwnedOnce == \A g, h \in Holds : g[4] = h[4] => g = h

(* While no page-table page has been refused, no page is lost: out of      *)
(* memory in allocuvm, copyuvm, exec or fork gives everything back.        *)
NothingLost == noTable \/ Page = {h[4] : h \in Holds}

(* What a CPU runs on is not taken from under it: nobody frees, or has     *)
(* freed, the directory in its cr3, or the kernel stack of its process.    *)
(* exec loads the new directory before it frees the old one, and wait,     *)
(* which frees a zombie, cannot get in before the scheduler has left the   *)
(* zombie's stack and directory (switchuvm, switchkvm and ptable.lock).    *)
DirectoryInUse ==
  \A p \in Slot : cr3[p] # 0 =>
    /\ cr3[p] \notin freelist
    /\ \A q \in Slot : op[q].pc \in {"freeuser", "freetables"} => op[q].d # cr3[p]
    /\ kstack[p] \in Page \ freelist

(* An address space changes only by its own process's sbrk, or as a whole  *)
(* when its exec commits or it is reaped: an exec that fails leaves the    *)
(* caller's image and size as they were.                                   *)
ImageKept ==
  [][\A p \in Slot :
       state[p] = "RUNNING" /\ op[p].call # "sbrk" /\ pgdir'[p] = pgdir[p]
         => sz'[p] = sz[p] /\ vm'[pgdir[p]] = vm[pgdir[p]]]_memvars

=============================================================================

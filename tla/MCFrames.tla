------------------------------ MODULE MCFrames ------------------------------
(***************************************************************************)
(* What the kernel hands out frame by frame: buffers for sectors (Bcache)  *)
(* and pages of memory (Memory, with programs of one or three units and    *)
(* few physical pages).  They share no state, so a behaviour is about one  *)
(* of them, chosen at the start, and the other stays in its initial state. *)
(***************************************************************************)
EXTENDS Bcache, Memory, TLC

VARIABLE part

ASSUME FrameConstants == MemoryConstants /\ BcacheConstants

Seg(vaddr, filesz, memsz) == [vaddr |-> vaddr, filesz |-> filesz, memsz |-> memsz]

MCImages == {<<Seg(0, 1, 1)>>, <<Seg(0, 2, 3), Seg(4, 0, 1)>>}
MCDeltas == {3, -2}

MCInit == part \in {"memory", "bcache"} /\ MemInit /\ Init

MCNext ==
  /\ \/ part = "memory" /\ MemNext /\ UNCHANGED vars
     \/ part = "bcache" /\ Next /\ UNCHANGED memvars
  /\ UNCHANGED part

MCSpec == MCInit /\ [][MCNext]_<<part, memvars, vars>>

(* Which physical page is used where does not matter: states are told      *)
(* apart by the shape of the address spaces and by how many pages are held.*)
Shape(d) ==
  IF d = 0 THEN 0
  ELSE <<{t \in Table : vm[d].pde[t] # 0}, {v \in VPage : vm[d].pte[v] # 0}, vm[d].user>>
Layout ==
  LET holds == Holds
  IN  <<[p \in 1 .. NPROC |-> <<state[p], sz[p], IF state[p] = "UNUSED" THEN 0 ELSE Shape(pgdir[p]),
                                cr3[p] = pgdir[p], cr3[p] = 0, cr3[p] \in freelist,
                                {q \in 1 .. NPROC : op[q].d = cr3[p]},
                                kstack[p] # 0, kstack[p] \in freelist,
                                [op[p] EXCEPT !.d = Shape(@), !.mem = IF @ = 0 THEN 0 ELSE 1],
                                op[p].d = pgdir[p]>>],
        Cardinality(freelist), Cardinality({h[4] : h \in holds}), Cardinality(holds),
        noTable, halted>>
View == <<part, IF part = "memory" THEN Layout ELSE vars>>

Users == Permutations(Proc)
=============================================================================

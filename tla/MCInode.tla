------------------------------ MODULE MCInode -------------------------------
(* Instances of Inode for TLC.                                             *)
EXTENDS Inode, TLC

Symmetry == Permutations(Proc)

\* "/a", and relative to the current directory "b" and "..".
Paths == {[abs |-> TRUE, elems |-> <<"a">>],
          [abs |-> FALSE, elems |-> <<"b">>], [abs |-> FALSE, elems |-> <<"..">>]}

\* A disk with a directory /a, as an earlier boot may have left it.
Dots(i, d) == [NoEntries EXCEPT !["."] = i, ![".."] = d]
WithDir ==
  [i \in Inum |->
     CASE i = ROOTINO -> [type |-> "dir", nlink |-> 2, dir |-> [Dots(i, i) EXCEPT !["a"] = 2]]
       [] i = 2       -> [type |-> "dir", nlink |-> 1, dir |-> Dots(i, ROOTINO)]
       [] OTHER       -> Free]
Images == {WithDir}

\* States are told apart by what the entries in use hold, not by where they
\* are in the table, nor by what is no longer used.  Two
\* entries for one inode would show as a smaller set than their number.
InUse == {s \in Entry : icache[s].ref > 0}
At0(s) == IF s \in Entry THEN icache[s].inum ELSE 0
View ==
  <<calls, view, stable, tx, asleep, panicked, ofile, {icache[s] : s \in InUse}, Cardinality(InUse),
    [p \in Proc |-> <<At0(cwd[p]), At0(k[p].arg), At0(k[p].cur), At0(k[p].ip), At0(k[p].dp)>>],
    [p \in Proc |-> [k[p] EXCEPT !.arg = 0, !.cur = 0, !.ip = 0, !.dp = 0,
                                 !.name = IF k[p].dp = None THEN None ELSE @]],
    [f \in File |-> <<ftable[f].ref, At0(ftable[f].ip)>>]>>

(* On every path of every call the reference count of an entry is the      *)
(* number of pointers to it, and I_BUSY is set by exactly one process.     *)
CountsMatch == TypeOK /\ RefsMatch /\ LocksMatch
=============================================================================

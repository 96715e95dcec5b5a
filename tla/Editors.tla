------------------------------- MODULE Editors -------------------------------
(***************************************************************************)
(* truncate.c and vim.c, run by two processes on the same file name, one   *)
(* system call at a time.  truncate copies the file to a new one of the    *)
(* same name; vim writes over the file in place and clears what is left of *)
(* it.  A call of open may fail, a process may be killed, and a write      *)
(* beyond the largest file fails, which neither program looks at.          *)
(***************************************************************************)
EXTENDS Integers, Sequences, FiniteSets, FiniteSetsExt, SequencesExt

CONSTANTS
  Editor,       \* the processes
  Old,          \* the file at the beginning
  BUFSIZE,      \* sizeof(buf)
  MAXSIZE,      \* largest file
  WORD,         \* an int counts from -WORD \div 2 up
  Sizes,        \* arguments of truncate -s: <<mode, number, multiplier>>
  Messages      \* arguments of vim

VARIABLES
  name,         \* the inode of the name, 0 if there is none
  data,         \* data[i]: the bytes of inode i
  ed            \* ed[p]: the program p runs

vars == <<name, data, ed>>

Inode == 1 .. Cardinality(Editor) + 1
Zeros(n) == [i \in 1 .. n |-> 0]
(* pc to off are the program's; the rest is history: the file it found,    *)
(* the size it was asked for, whether it ran alone, and where it failed.   *)
Ready0 == [pc |-> "start", prog |-> "none", arg |-> <<>>, n |-> 0, fd0 |-> 0, fd1 |-> 0,
           off |-> 0, old |-> <<>>, req |-> 0, alone |-> TRUE, at |-> "none"]

Init ==
  /\ name = 1
  /\ data = [i \in Inode |-> IF i = 1 THEN Old ELSE <<>>]
  /\ ed = [p \in Editor |-> Ready0]

On(p, pc) == ed[p].pc = pc
Set(p, e) == ed' = [ed EXCEPT ![p] = e]
Stop(p)   == Set(p, [ed[p] EXCEPT !.pc = "failed", !.at = ed[p].pc, !.fd0 = 0, !.fd1 = 0])

(* write appends: both programs write from the start of the file on. *)
write(i, off, bytes) ==
  data' = IF off + Len(bytes) > MAXSIZE THEN data
          ELSE [data EXCEPT ![i] = SubSeq(@, 1, off) \o bytes \o SubSeq(@, off + Len(bytes) + 1, Len(@))]
Moved(off, n) == IF off + n > MAXSIZE THEN off ELSE off + n

(* int arithmetic of main. *)
Int32(x) == ((x + WORD \div 2) % WORD) - WORD \div 2
NewSize(size, arg) ==
  LET n == Int32(arg[2] * arg[3]) IN
  CASE arg[1] = "M_ADD" -> Int32(size + n)
    [] arg[1] = "M_SUBSTRACT" -> IF Int32(size - n) < 0 THEN 0 ELSE Int32(size - n)
    [] arg[1] = "M_CHANGE" -> n

(* What the user asks for, which need not fit in an int. *)
Asked(size, arg) ==
  CASE arg[1] = "M_ADD" -> size + arg[2] * arg[3]
    [] arg[1] = "M_SUBSTRACT" -> Max({0, size - arg[2] * arg[3]})
    [] arg[1] = "M_CHANGE" -> arg[2] * arg[3]

Start(p, prog, arg) ==
  /\ On(p, "start")
  /\ ed' = [q \in Editor |->
       IF q = p THEN [Ready0 EXCEPT !.pc = prog, !.prog = prog, !.arg = arg,
                                 !.alone = \A r \in Editor : ed[r] = Ready0]
       ELSE [ed[q] EXCEPT !.alone = FALSE]]
  /\ UNCHANGED <<name, data>>

-----------------------------------------------------------------------------
(* truncate: stat and the size; open, unlink, create; copy; fill. *)
main_stat(p) ==
  /\ On(p, "truncate")
  /\ IF name = 0 THEN Stop(p)
     ELSE LET size == Len(data[name]) IN
          Set(p, [ed[p] EXCEPT !.pc = "open", !.n = NewSize(size, ed[p].arg), !.old = data[name],
                               !.req = Asked(size, ed[p].arg)])
  /\ UNCHANGED <<name, data>>

truncate_open(p) ==
  /\ On(p, "open")
  /\ \/ Stop(p)
     \/ name # 0 /\ Set(p, [ed[p] EXCEPT !.pc = "unlink", !.fd0 = name])
  /\ UNCHANGED <<name, data>>

truncate_unlink(p) ==
  /\ On(p, "unlink")
  /\ IF name = 0 THEN Stop(p) ELSE Set(p, [ed[p] EXCEPT !.pc = "create"])
  /\ name' = 0
  /\ UNCHANGED data

(* The new file has an inode that no open file uses. *)
InUse == {name} \union {ed[p].fd0 : p \in Editor} \union {ed[p].fd1 : p \in Editor}
create(p, next) ==
  \/ Stop(p) /\ UNCHANGED <<name, data>>
  \/ LET i == IF name # 0 THEN name ELSE Min(Inode \ InUse) IN
     /\ name' = i
     /\ data' = IF name # 0 THEN data ELSE [data EXCEPT ![i] = <<>>]
     /\ Set(p, [ed[p] EXCEPT !.pc = next, !.fd1 = i])
truncate_create(p) == On(p, "create") /\ create(p, "copy")

(* One turn of the loop: a read, then the write of what is still wanted. *)
Wanted_All(n, nowsize) == n
Wanted(n, nowsize) == IF n > nowsize THEN nowsize ELSE n
truncate_copy(p) ==
  LET e == ed[p]
      buf == SubSeq(data[e.fd0], e.off + 1, Min({e.off + BUFSIZE, Len(data[e.fd0])}))
      n == Wanted(Len(buf), e.n) IN
  /\ On(p, "copy")
  /\ IF buf = <<>> \/ e.n <= 0
     THEN Set(p, [e EXCEPT !.pc = "fill"]) /\ UNCHANGED data
     ELSE /\ write(e.fd1, e.off, SubSeq(buf, 1, n))
          /\ Set(p, [e EXCEPT !.off = @ + n, !.n = @ - n])
  /\ UNCHANGED name

(* One zero byte at the end, in truncate and in vim. *)
fill(p) ==
  LET e == ed[p] IN
  /\ On(p, "fill")
  /\ IF e.n <= 0
     THEN Set(p, [e EXCEPT !.pc = "done", !.fd0 = 0, !.fd1 = 0]) /\ UNCHANGED data
     ELSE write(e.fd1, e.off, <<0>>) /\ Set(p, [e EXCEPT !.off = Moved(@, 1), !.n = @ - 1])
  /\ UNCHANGED name

-----------------------------------------------------------------------------
(* vim: read the file to its end to count it, open it again, write. *)
overwrite_open(p) ==
  /\ On(p, "vim")
  /\ \/ Stop(p)
     \/ name # 0 /\ Set(p, [ed[p] EXCEPT !.pc = "count", !.fd0 = name, !.old = data[name]])
  /\ UNCHANGED <<name, data>>

overwrite_read(p) ==
  LET e == ed[p]
      n == Min({BUFSIZE, Len(data[e.fd0]) - e.off}) IN
  /\ On(p, "count")
  /\ Set(p, IF n <= 0 THEN [e EXCEPT !.pc = "again"] ELSE [e EXCEPT !.off = @ + n])
  /\ UNCHANGED <<name, data>>

overwrite_again(p) == On(p, "again") /\ create(p, "message")

overwrite_message(p) ==
  LET e == ed[p] IN
  /\ On(p, "message")
  /\ write(e.fd1, 0, e.arg)
  /\ Set(p, [e EXCEPT !.pc = "fill", !.n = e.off - Len(e.arg), !.off = Moved(0, Len(e.arg))])
  /\ UNCHANGED name

(* kill: the process exits at its next return to user mode. *)
kill(p) == ed[p].pc \notin {"start", "failed", "done"} /\ Stop(p) /\ UNCHANGED <<name, data>>

Next == \E p \in Editor :
  \/ \E arg \in Sizes : Start(p, "truncate", arg)
  \/ \E arg \in Messages : Start(p, "vim", arg)
  \/ main_stat(p) \/ truncate_open(p) \/ truncate_unlink(p) \/ truncate_create(p) \/ truncate_copy(p)
  \/ overwrite_open(p) \/ overwrite_read(p) \/ overwrite_again(p) \/ overwrite_message(p)
  \/ fill(p) \/ kill(p)

-----------------------------------------------------------------------------
Least(a, b) == IF a < b THEN a ELSE b
Fits(e) == e.prog = "truncate" => Max({e.req, e.arg[2] * e.arg[3]}) < WORD \div 2
Expected(e) ==
  IF e.prog = "vim" THEN e.arg \o Zeros(Len(e.old) - Len(e.arg))
  ELSE LET n == Least(e.req, MAXSIZE) IN SubSeq(e.old, 1, Least(n, Len(e.old))) \o Zeros(n - Len(e.old))
OldThenZeros(b) == \E k \in 0 .. Least(Len(Old), Len(b)) : b = SubSeq(Old, 1, k) \o Zeros(Len(b) - k)

(* Run alone, truncate leaves the first bytes of the file filled up with   *)
(* zeros to the size asked for, if main's ints can hold it, and vim        *)
(* leaves the message filled up to the old size.  When truncates overlap,  *)
(* and whenever one is killed or fails, what stands under the name is a    *)
(* beginning of the old file followed by zeros, and the name is missing    *)
(* only between an unlink and the create that follows it, or when the      *)
(* create never came; once all are done the file has the size that one of  *)
(* them was asked for.                                                     *)
EditResult ==
  LET over == \A p \in Editor : ed[p].pc \in {"start", "done"} IN
  /\ over => \A p \in Editor :
       ed[p].pc = "done" /\ ed[p].alone /\ Fits(ed[p]) => data[name] = Expected(ed[p])
  /\ (\A p \in Editor : ed[p].prog # "vim") =>
       /\ IF name = 0 THEN \E p \in Editor : "create" \in {ed[p].pc, ed[p].at}
          ELSE OldThenZeros(data[name])
       /\ over /\ (\E p \in Editor : ed[p].pc = "done") =>
            \E p \in Editor : /\ ed[p].pc = "done"
                              /\ Fits(ed[p]) => Len(data[name]) = Least(ed[p].req, MAXSIZE)

=============================================================================

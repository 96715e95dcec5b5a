-------------------------------- MODULE Shell --------------------------------
(***************************************************************************)
(* init, the shell and the commands it runs, with their descriptors: main  *)
(* of init.c, main, fork1 and runcmd of sh.c, and below them the calls on  *)
(* the file table and the descriptor tables (filealloc, filedup,           *)
(* fileclose, fdalloc, pipealloc, pipe, dup, open, close).  A process is   *)
(* the list of calls it has still to make.  A call is one step, but open   *)
(* and pipe take each file, page and descriptor, and give each back, in a  *)
(* step of its own: the steps left of such a call head the list, with the  *)
(* files they hold in their second place.  The contents of pipes are       *)
(* module Pipe's subject: here a program that reads a pipe runs to the end *)
(* of file, which comes when the last descriptor for writing is closed.    *)
(***************************************************************************)
EXTENDS ShParser

CONSTANTS
  NPROC,      \* process slots; 1 is init
  NOFILE,     \* descriptors per process
  NFILE,      \* entries of the file table
  Lines,      \* lines typed at the prompt
  Commands,   \* what the parser makes of each
  Programs    \* the calls a program of that name may make

ASSUME ShellConstants ==
  /\ NPROC \in Nat \ {0} /\ NOFILE > 3 /\ NFILE \in Nat \ {0}
  /\ Commands = [line \in Lines |-> parsecmd(line)]

VARIABLES
  st,         \* state of each slot: "unused", "run" or "zombie"
  parent,
  code,       \* code[q]: the calls q has still to make
  ofile,      \* ofile[q][d]: the file of descriptor d, 0 if closed
  pfd,        \* runcmd's array p, its two descriptors
  file,       \* the file table
  sh,         \* the shell's slot: pid in init
  want,       \* history: the files q's standard input and output should be
  panicked    \* the kernel has stopped

procs == <<st, parent, ofile, pfd, want>>
vars  == <<procs, code, file, sh, panicked>>

Proc == 1 .. NPROC
Fd   == 0 .. NOFILE - 1
File == 1 .. NFILE

NoFile == [ref |-> 0, type |-> "none", pipe |-> 0]
P0 == -1     \* stands for p[0] in a list of calls
P1 == -2     \* stands for p[1]
FdOf(q, d) == IF d = P0 THEN pfd[q][1] ELSE IF d = P1 THEN pfd[q][2] ELSE d

exit_call == <<<<"exit">>>>

(* The calls around a pipe: of the left child, the right child, the shell. *)
LeftEnd_KeepsP0 == <<<<"close", 1>>, <<"dup", P1>>, <<"close", P1>>>>
LeftEnd == <<<<"close", 1>>, <<"dup", P1>>, <<"close", P0>>, <<"close", P1>>>>
RightEnd == <<<<"close", 0>>, <<"dup", P0>>, <<"close", P0>>, <<"close", P1>>>>
ShellEnd_KeepsP1 == <<<<"close", P0>>, <<"wait">>, <<"wait">>, <<"exit">>>>
ShellEnd == <<<<"close", P0>>, <<"close", P1>>, <<"wait">>, <<"wait">>, <<"exit">>>>

(* The calls runcmd makes for cmd.  Everything ends in exit. *)
RECURSIVE runcmd(_)
runcmd(cmd) ==
  CASE cmd[1] = "EXEC"  -> IF cmd[2] = <<>> THEN exit_call ELSE <<<<"exec", cmd[2]>>>>
    [] cmd[1] = "REDIR" -> <<<<"close", cmd[5]>>, <<"open", "inode", cmd[5]>>>> \o runcmd(cmd[2])
    [] cmd[1] = "LIST"  -> <<<<"fork", runcmd(cmd[2]), "same">>, <<"wait">>>> \o runcmd(cmd[3])
    [] cmd[1] = "BACK"  -> <<<<"fork", runcmd(cmd[2]), "same">>, <<"exit">>>>
    [] cmd[1] = "PIPE"  ->
         <<<<"pipe">>,
           <<"fork", LeftEnd \o runcmd(cmd[2]), "left">>,
           <<"fork", RightEnd \o runcmd(cmd[3]), "right">>>> \o ShellEnd

(* main of the shell, and of init after its descriptors are open. *)
main_sh == <<<<"open", "console", 0>>>>
main_init == <<<<"fork", main_sh, "sh">>, <<"reap">>>>

Init ==
  /\ st = [q \in Proc |-> IF q = 1 THEN "run" ELSE "unused"]
  /\ parent = [q \in Proc |-> 1]
  /\ code = [q \in Proc |-> IF q = 1 THEN main_init ELSE <<>>]
  /\ ofile = [q \in Proc |-> [d \in Fd |-> IF q = 1 /\ d < 3 THEN 1 ELSE 0]]
  /\ pfd = [q \in Proc |-> <<0, 0>>]
  /\ file = [f \in File |-> IF f = 1 THEN [ref |-> 3, type |-> "console", pipe |-> 0] ELSE NoFile]
  /\ sh = 1
  /\ want = [q \in Proc |-> <<1, 1>>]
  /\ panicked = FALSE

Doing(q, call) == ~panicked /\ st[q] = "run" /\ Head(code[q])[1] = call
Arg(q) == Head(code[q])[2]
Continue(q) == code' = [code EXCEPT ![q] = Tail(@)]
Become(q, calls) == code' = [code EXCEPT ![q] = calls]

-----------------------------------------------------------------------------
(* The file table and a process's descriptors. *)
FreeFiles == {f \in File : file[f].ref = 0}
filealloc == Min(FreeFiles)
Opened(f, type, k) == [file EXCEPT ![f] = [ref |-> 1, type |-> type, pipe |-> k]]

FreeFds(q) == {d \in Fd : ofile[q][d] = 0}
fdalloc(q) == Min(FreeFds(q))

filedup(f) == [file EXCEPT ![f].ref = @ + 1]
fileclose(f) == [file EXCEPT ![f] = IF @.ref > 1 THEN [@ EXCEPT !.ref = @ - 1] ELSE NoFile]

(* fork and exit do this for each descriptor of q. *)
Uses(q, f) == Cardinality({d \in Fd : ofile[q][d] = f})
DupAll(q) == [f \in File |-> [file[f] EXCEPT !.ref = @ + Uses(q, f)]]
CloseAll(q) == [f \in File |->
  IF Uses(q, f) > 0 /\ file[f].ref = Uses(q, f) THEN NoFile ELSE [file[f] EXCEPT !.ref = @ - Uses(q, f)]]

sys_close(q) ==
  LET d == FdOf(q, Arg(q)) IN
  /\ Doing(q, "close")
  /\ IF ofile[q][d] = 0 THEN UNCHANGED <<ofile, file>>
     ELSE /\ ofile' = [ofile EXCEPT ![q][d] = 0]
          /\ file' = fileclose(ofile[q][d])
  /\ Continue(q)
  /\ UNCHANGED <<st, parent, pfd, want, sh, panicked>>

sys_dup(q) ==
  LET f == ofile[q][FdOf(q, Arg(q))] IN
  /\ Doing(q, "dup")
  /\ IF f = 0 \/ FreeFds(q) = {} THEN UNCHANGED <<ofile, file>>
     ELSE /\ ofile' = [ofile EXCEPT ![q][fdalloc(q)] = f]
          /\ file' = filedup(f)
  /\ Continue(q)
  /\ UNCHANGED <<st, parent, pfd, want, sh, panicked>>

(* The steps that give files back. *)
Closing(fs) == [i \in DOMAIN fs |-> <<"fileclose", <<fs[i]>>>>]

close_file(q) ==
  /\ Doing(q, "fileclose")
  /\ file' = fileclose(Arg(q)[1])
  /\ Continue(q)
  /\ UNCHANGED <<procs, sh, panicked>>

(* open finds the inode, or there is none, and takes a file.  If it fails, *)
(* the child of a redirection exits, and the shell has done with opening   *)
(* the console.                                                            *)
OpenFails(type) == IF type = "console" THEN <<<<"getcmd">>>> ELSE exit_call

sys_open(q) ==
  /\ Doing(q, "open")
  /\ \/ /\ FreeFiles # {}
        /\ file' = Opened(filealloc, "new", 0)
        /\ Become(q, <<<<"open_fd", <<filealloc>>, Arg(q), Head(code[q])[3]>>>> \o Tail(code[q]))
     \/ /\ FreeFiles = {} \/ Arg(q) = "inode"
        /\ Become(q, OpenFails(Arg(q)))
        /\ UNCHANGED file
  /\ UNCHANGED <<procs, sh, panicked>>

(* ... and a descriptor.  The shell opens the console until it gets        *)
(* descriptor 3 or above.                                                  *)
open_fd(q) ==
  LET f == Arg(q)[1]
      type == Head(code[q])[3]
      d == fdalloc(q) IN
  /\ Doing(q, "open_fd")
  /\ IF FreeFds(q) = {}
     THEN /\ Become(q, Closing(Arg(q)) \o OpenFails(type))
          /\ UNCHANGED <<file, ofile, want>>
     ELSE /\ file' = Opened(f, type, 0)
          /\ ofile' = [ofile EXCEPT ![q][d] = f]
          /\ IF type = "inode"
             THEN want' = [want EXCEPT ![q][Head(code[q])[4] + 1] = f] /\ Continue(q)
             ELSE /\ Become(q, IF d >= 3 THEN <<<<"close", d>>, <<"getcmd">>>> ELSE main_sh)
                  /\ UNCHANGED want
  /\ UNCHANGED <<st, parent, pfd, sh, panicked>>

(* pipealloc takes a file for each end, then a page, and at bad: gives     *)
(* back the files it has.  (The page it never has there.)  A caller of     *)
(* pipe exits when it fails.                                               *)
PipeBad_Leaks(fs) == Closing(<<fs[1]>>) \o exit_call
PipeBad(fs) == Closing(fs) \o exit_call
PipeIds == {file[f].pipe : f \in File}

pipealloc(q) ==
  LET fs == IF Doing(q, "pipe") THEN <<>> ELSE Arg(q) IN
  /\ Doing(q, "pipe") \/ Doing(q, "pipe_file")
  /\ IF FreeFiles = {}
     THEN Become(q, PipeBad(fs)) /\ UNCHANGED file
     ELSE /\ file' = Opened(filealloc, "new", 0)
          /\ Become(q, <<<<IF fs = <<>> THEN "pipe_file" ELSE "pipe_page", Append(fs, filealloc)>>>>
                         \o Tail(code[q]))
  /\ UNCHANGED <<procs, sh, panicked>>

pipe_page(q) ==
  LET fs == Arg(q)
      k == Min(1 .. NFILE \ PipeIds) IN
  /\ Doing(q, "pipe_page")
  /\ \/ Become(q, PipeBad(fs)) /\ UNCHANGED file
     \/ /\ file' = [file EXCEPT ![fs[1]] = [ref |-> 1, type |-> "read", pipe |-> k],
                                ![fs[2]] = [ref |-> 1, type |-> "write", pipe |-> k]]
        /\ Become(q, <<<<"pipe_fd0", fs>>>> \o Tail(code[q]))
  /\ UNCHANGED <<procs, sh, panicked>>

(* sys_pipe's two descriptors, each of which takes over its file; without  *)
(* a second one the first is taken back, and both files are closed.        *)
sys_pipe_fd0(q) ==
  LET fs == Arg(q) IN
  /\ Doing(q, "pipe_fd0")
  /\ IF FreeFds(q) = {}
     THEN Become(q, Closing(fs) \o exit_call) /\ UNCHANGED ofile
     ELSE /\ ofile' = [ofile EXCEPT ![q][fdalloc(q)] = fs[1]]
          /\ Become(q, <<<<"pipe_fd1", <<fs[2]>>, fdalloc(q)>>>> \o Tail(code[q]))
  /\ UNCHANGED <<st, parent, pfd, file, want, sh, panicked>>

sys_pipe_fd1(q) ==
  LET wf == Arg(q)[1]
      fd0 == Head(code[q])[3] IN
  /\ Doing(q, "pipe_fd1")
  /\ IF FreeFds(q) = {}
     THEN /\ ofile' = [ofile EXCEPT ![q][fd0] = 0]
          /\ Become(q, Closing(<<ofile[q][fd0], wf>>) \o exit_call)
          /\ UNCHANGED pfd
     ELSE /\ ofile' = [ofile EXCEPT ![q][fdalloc(q)] = wf]
          /\ pfd' = [pfd EXCEPT ![q] = <<fd0, fdalloc(q)>>]
          /\ Continue(q)
  /\ UNCHANGED <<st, parent, file, want, sh, panicked>>

-----------------------------------------------------------------------------
(* fork1: the child has its own list of calls.  Without a free slot, or    *)
(* without memory, the caller prints and exits; init too.                  *)
ChildWant(q, side) ==
  IF side = "left" THEN <<want[q][1], ofile[q][pfd[q][2]]>>
  ELSE IF side = "right" THEN <<ofile[q][pfd[q][1]], want[q][2]>>
  ELSE want[q]

fork1(q) ==
  LET unused == {c \in Proc : st[c] = "unused"}
      c == Min(unused)
      side == Head(code[q])[3] IN
  /\ Doing(q, "fork")
  /\ \/ Become(q, exit_call) /\ UNCHANGED <<procs, file, sh>>
     \/ /\ unused # {}
        /\ st' = [st EXCEPT ![c] = "run"]
        /\ parent' = [parent EXCEPT ![c] = q]
        /\ code' = [code EXCEPT ![c] = Arg(q), ![q] = Tail(@)]
        /\ ofile' = [ofile EXCEPT ![c] = ofile[q]]
        /\ pfd' = [pfd EXCEPT ![c] = pfd[q]]
        /\ want' = [want EXCEPT ![c] = ChildWant(q, side)]
        /\ file' = DupAll(q)
        /\ sh' = IF side = "sh" THEN c ELSE sh
  /\ UNCHANGED panicked

(* exit closes every descriptor and gives the children to init. *)
exit(q) ==
  /\ Doing(q, "exit")
  /\ IF q = 1     \* panic("init exiting")
     THEN panicked' = TRUE /\ UNCHANGED <<procs, code, file>>
     ELSE /\ file' = CloseAll(q)
          /\ ofile' = [ofile EXCEPT ![q] = [d \in Fd |-> 0]]
          /\ st' = [st EXCEPT ![q] = "zombie"]
          /\ parent' = [c \in Proc |-> IF parent[c] = q THEN 1 ELSE parent[c]]
          /\ Become(q, <<>>)
          /\ UNCHANGED <<pfd, want, panicked>>
  /\ UNCHANGED sh

(* wait takes the first zombie child; without children it returns -1. *)
Children(q) == {c \in Proc \ {1} : st[c] # "unused" /\ parent[c] = q}
Zombies(q) == {c \in Children(q) : st[c] = "zombie"}
Slot(c) == /\ st' = [st EXCEPT ![c] = "unused"]
           /\ parent' = [parent EXCEPT ![c] = 1]
           /\ pfd' = [pfd EXCEPT ![c] = <<0, 0>>]
           /\ want' = [want EXCEPT ![c] = <<1, 1>>]

wait(q) ==
  /\ Doing(q, "wait")
  /\ \/ Children(q) = {} /\ UNCHANGED <<st, parent, pfd, want>>
     \/ Zombies(q) # {} /\ Slot(Min(Zombies(q)))
  /\ Continue(q)
  /\ UNCHANGED <<ofile, file, sh, panicked>>

(* init waits for the shell, reaps orphans meanwhile, and starts again. *)
reap(q) ==
  LET c == Min(Zombies(q)) IN
  /\ Doing(q, "reap") /\ Zombies(q) # {}
  /\ Slot(c)
  /\ IF c = sh THEN Become(q, main_init) ELSE UNCHANGED code
  /\ UNCHANGED <<ofile, file, sh, panicked>>

-----------------------------------------------------------------------------
(* A line is parsed and run by a child, which exits if the parser does;    *)
(* the end of input ends the shell.  (cd, which the shell does itself,     *)
(* changes nothing modelled here.)                                         *)
Parsed(line) == LET r == Commands[line] IN IF r.s = 0 THEN exit_call ELSE runcmd(r.cmd)
getcmd(q) ==
  /\ Doing(q, "getcmd")
  /\ \/ \E line \in Lines :
          Become(q, <<<<"fork", Parsed(line), "same">>, <<"wait">>, <<"getcmd">>>>)
     \/ Become(q, exit_call)
  /\ UNCHANGED <<procs, file, sh, panicked>>

exec(q) ==
  /\ Doing(q, "exec")
  /\ \/ \E calls \in Programs[Arg(q)[1]] : Become(q, <<<<"program">>>> \o calls \o exit_call)
     \/ Become(q, exit_call)     \* "exec failed"
  /\ UNCHANGED <<procs, file, sh, panicked>>

(* The program reads its input to the end, or stops before; then it makes  *)
(* its own calls.                                                          *)
AtEof(q) ==
  LET in == file[ofile[q][0]] IN
  in.type = "read" => \A f \in File : ~(file[f].type = "write" /\ file[f].pipe = in.pipe)
program(q) ==
  /\ Doing(q, "program") /\ AtEof(q)
  /\ Continue(q)
  /\ UNCHANGED <<procs, file, sh, panicked>>
program_stops(q) ==
  /\ Doing(q, "program") /\ ~AtEof(q)
  /\ Continue(q)
  /\ UNCHANGED <<procs, file, sh, panicked>>

-----------------------------------------------------------------------------
Step(q) ==
  \/ sys_close(q) \/ sys_dup(q) \/ sys_open(q) \/ open_fd(q) \/ close_file(q)
  \/ pipealloc(q) \/ pipe_page(q) \/ sys_pipe_fd0(q) \/ sys_pipe_fd1(q)
  \/ fork1(q) \/ exit(q) \/ wait(q) \/ reap(q)
  \/ getcmd(q) \/ exec(q) \/ program(q)

Next == \/ \E q \in Proc : Step(q) \/ program_stops(q)
        \/ panicked /\ UNCHANGED vars     \* panic() spins for ever

(* Every process that can run does; a program need not stop early.  This   *)
(* is weak fairness of Step(q), with ENABLED written out as Ready(q).      *)
Ready(q) ==
  /\ ~panicked /\ st[q] = "run"
  /\ Doing(q, "wait") => Children(q) = {} \/ Zombies(q) # {}
  /\ Doing(q, "reap") => Zombies(q) # {}
  /\ Doing(q, "program") => AtEof(q)
Scheduled(q) == []<>~Ready(q) \/ []<><<Step(q)>>_vars

Spec == Init /\ [][Next]_vars /\ \A q \in Proc : Scheduled(q)

-----------------------------------------------------------------------------
Live(q) == st[q] = "run"

(* The files that the rest of an open or pipe still holds. *)
HalfDone == {"open_fd", "pipe_file", "pipe_page", "pipe_fd0", "pipe_fd1", "fileclose"}
InHand(q, f) == {i \in DOMAIN code[q] : code[q][i][1] \in HalfDone /\ f \in Range(code[q][i][2])}

(* The count of each entry of the file table is the number of descriptors, *)
(* and of calls half done, that hold it: also when open or pipe has taken  *)
(* some of what it needs and gives it back (filealloc, filedup, fileclose).*)
FilesCounted ==
  \A f \in File :
    file[f].ref = Cardinality({<<q, d>> \in Proc \X Fd : ofile[q][d] = f})
                + Cardinality(UNION {{q} \X InHand(q, f) : q \in Proc})

(* A program is started with its standard input and output on the pipe or  *)
(* file its place in the command line says, with standard error on the     *)
(* console, and with nothing else open: runcmd relies on dup and open      *)
(* taking the lowest free descriptor.                                      *)
DescriptorsAtExec ==
  \A q \in Proc : Live(q) /\ Head(code[q])[1] = "program" =>
    ofile[q] = [d \in Fd |-> IF d < 2 THEN want[q][d + 1] ELSE IF d = 2 THEN 1 ELSE 0]

ShellAt(call) == Live(sh) /\ Head(code[sh])[1] = call

(* After every line the shell comes back to its prompt, or init starts     *)
(* another: a program that reads a pipe sees its end, and nobody waits for *)
(* somebody who waits for it.                                              *)
PromptReturns == ShellAt("wait") ~> ShellAt("getcmd") \/ panicked

=============================================================================

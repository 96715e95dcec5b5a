------------------------------- MODULE MCUser -------------------------------
(***************************************************************************)
(* The user programs: the shell with the commands it runs, the shell's     *)
(* parser on every short line, the allocator, and the editors.  They share *)
(* no state, so a behaviour is about one of them, chosen at the start.     *)
(***************************************************************************)
EXTENDS Shell

CONSTANTS
  MaxLine, Letters,                                  \* lines for the parser
  HEAPSTART, HEAPEND, MINCORE, HDR, UINT, Requests, Gaps,    \* Umalloc
  Editor, Old, BUFSIZE, MAXSIZE, WORD, Sizes, Messages    \* Editors

VARIABLES part, line, heap, used, foreign, name, data, ed

Heap == INSTANCE Umalloc
Edit == INSTANCE Editors
Sh   == INSTANCE ShGrammar

heapvars == <<heap, used, foreign>>
edvars == <<name, data, ed>>
others == <<line, heapvars, edvars>>

MCInit ==
  /\ part \in {"shell", "parser", "heap", "editors"}
  /\ Init /\ line = <<>> /\ Heap!Init /\ Edit!Init

Type == /\ Len(line) < MaxLine
        /\ \E c \in Letters \union symbols : line' = Append(line, c)

MCNext ==
  /\ \/ part = "shell" /\ Next /\ UNCHANGED others
     \/ part = "parser" /\ Type /\ UNCHANGED <<vars, heapvars, edvars>>
     \/ part = "heap" /\ Heap!Next /\ UNCHANGED <<vars, line, edvars>>
     \/ part = "editors" /\ Edit!Next /\ UNCHANGED <<vars, line, heapvars>>
     \/ part # "shell" /\ UNCHANGED <<vars, others>>     \* nothing more to do
  /\ UNCHANGED part

(* The shell's processes are scheduled; nothing is asked of the other parts.*)
MCSpec == MCInit /\ [][MCNext]_<<part, vars, others>> /\ \A q \in Proc : Scheduled(q)

(* parsecmd accepts exactly the lines of the grammar, and the command it   *)
(* builds has the structure and, once nulterminate has cut the line up,    *)
(* the words that the grammar gives it (sh.c, from gettoken on).           *)
ParsesGrammar ==
  [][part = "parser" =>
       LET r == parsecmd(line') IN Sh!Meaning(line') = IF r.s = 0 THEN {} ELSE {r.cmd}]_line

(* See modules Umalloc and Editors. *)
HeapPartition == Heap!HeapPartition
EditResult == Edit!EditResult

(* Typed lines: pipeline, background, redirection, list, a program that    *)
(* makes calls of its own and a wrong line,                                *)
(* and what the parser makes of them (ShellConstants says that it does).   *)
A == <<"EXEC", <<<<"a">>>>>>
MCCommands ==
  (<<"a", "|", "a">>      :> [s |-> 4, cmd |-> <<"PIPE", A, A>>]) @@
  (<<"a", "<", "a", "&">> :> [s |-> 5, cmd |-> <<"BACK", <<"REDIR", A, <<"a">>, "O_RDONLY", 0>>>>]) @@
  (<<"a", ";", "a">>      :> [s |-> 4, cmd |-> <<"LIST", A, A>>]) @@
  (<<"b">>                :> [s |-> 2, cmd |-> <<"EXEC", <<<<"b">>>>>>]) @@
  (<<"(">>                :> [s |-> 0, cmd |-> <<"EXEC", <<>>>>])
MCLines == DOMAIN MCCommands
(* b is a program that runs out of descriptors in pipe, with one left or   *)
(* none, in open or in dup, closes one twice, or waits without children.   *)
MCPrograms ==
  LET dup == <<"dup", 0>>
      close == <<"close", 4>> IN
  (<<"a">> :> {<<>>}) @@
  (<<"b">> :> {<<dup, <<"pipe">>>>, <<dup, dup, <<"pipe">>>>, <<dup, dup, <<"open", "inode", 0>>>>,
               <<dup, dup, dup, close, close, <<"wait">>>>})
MCOld == <<1, 2, 3>>
(* 12 is too large for an int here, 3 + 4 only for a file.                 *)
MCSizes == {<<"M_CHANGE", 1, 1>>, <<"M_CHANGE", 3, 4>>, <<"M_ADD", 2, 2>>, <<"M_SUBSTRACT", 2, 2>>}
MCMessages == {<<7>>, <<7, 7, 7, 7>>}

=============================================================================

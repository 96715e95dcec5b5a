------------------------------ MODULE ShParser ------------------------------
(***************************************************************************)
(* The parser of the shell (sh.c): gettoken and peek on a line of          *)
(* characters, the recursive descent, and nulterminate.  A position is an  *)
(* index into buf; the NUL after the last character is at Len(buf) + 1.    *)
(* " " stands for every blank, a letter for every other character.  A      *)
(* parsing function returns the position s it leaves in *ps and the        *)
(* command; s = 0 means that it called panic().                            *)
(***************************************************************************)
EXTENDS Integers, Sequences, SequencesExt, FiniteSets, FiniteSetsExt

CONSTANT MAXARGS

symbols == {"<", "|", ">", "&", ";", "(", ")"}

CharAt(buf, s) == IF s <= Len(buf) THEN buf[s] ELSE "nul"

(* The first position from s on whose character is in, or is not in, C. *)
First(buf, s, C)    == Min({t \in s .. Len(buf) + 1 : CharAt(buf, t) \in C})
SkipBlanks(buf, s)  == Min({t \in s .. Len(buf) + 1 : CharAt(buf, t) # " "})

gettoken(buf, s) ==
  LET q == SkipBlanks(buf, s)
      c == CharAt(buf, q)
      append == c = ">" /\ CharAt(buf, q + 1) = ">"
      word == c \notin symbols \union {"nul"}
      eq == CASE word -> First(buf, q, symbols \union {" ", "nul"})
              [] append -> q + 2
              [] c = "nul" -> q
              [] OTHER -> q + 1 IN
  [tok |-> IF word THEN "a" ELSE IF append THEN "+" ELSE c,
   q |-> q, eq |-> eq, s |-> SkipBlanks(buf, eq)]

peek(buf, s, toks) == CharAt(buf, SkipBlanks(buf, s)) \in toks

-----------------------------------------------------------------------------
(* Commands; a word is its extent <<q, eq>> in buf until nulterminate. *)
execcmd(argv)        == <<"EXEC", argv>>
redircmd(cmd, r)     == <<"REDIR", cmd, r.file, r.mode, r.fd>>
pipecmd(left, right) == <<"PIPE", left, right>>
listcmd(left, right) == <<"LIST", left, right>>
backcmd(cmd)         == <<"BACK", cmd>>

Panic == [s |-> 0, cmd |-> <<"EXEC", <<>>>>]

(* The redirections from s on; cmd is wrapped in them in this order. *)
RECURSIVE parseredirs(_, _, _)
parseredirs(buf, s, redirs) ==
  LET t == gettoken(buf, s)
      f == gettoken(buf, t.s)
      to == IF t.tok = "<" THEN <<"O_RDONLY", 0>> ELSE <<"O_WRONLY|O_CREATE", 1>> IN
  IF ~peek(buf, s, {"<", ">"}) THEN [s |-> SkipBlanks(buf, s), redirs |-> redirs]
  ELSE IF f.tok # "a" THEN [s |-> 0, redirs |-> redirs]
  ELSE parseredirs(buf, f.s, Append(redirs, [file |-> <<f.q, f.eq>>, mode |-> to[1], fd |-> to[2]]))

Redirected(cmd, redirs) == FoldLeft(redircmd, cmd, redirs)

(* parseexec's loop, after argc words. *)
TooMany_OffByOne(argc) == argc > MAXARGS
TooMany(argc) == argc >= MAXARGS
RECURSIVE Args(_, _, _)
Args(buf, r, argv) ==
  LET t == gettoken(buf, r.s) IN
  IF r.s = 0 THEN Panic
  ELSE IF peek(buf, r.s, {"|", ")", "&", ";", "nul"})
  THEN [s |-> r.s, cmd |-> Redirected(execcmd(argv), r.redirs)]
  ELSE IF t.tok # "a" \/ TooMany(Len(argv) + 1) THEN Panic
  ELSE Args(buf, parseredirs(buf, t.s, r.redirs), Append(argv, <<t.q, t.eq>>))

RECURSIVE parseline(_, _)

parseblock(buf, s) ==
  LET line == parseline(buf, gettoken(buf, s).s)
      r == parseredirs(buf, gettoken(buf, line.s).s, <<>>) IN
  IF line.s = 0 \/ ~peek(buf, line.s, {")"}) THEN Panic
  ELSE IF r.s = 0 THEN Panic
  ELSE [s |-> r.s, cmd |-> Redirected(line.cmd, r.redirs)]

parseexec(buf, s) ==
  IF peek(buf, s, {"("}) THEN parseblock(buf, s) ELSE Args(buf, parseredirs(buf, s, <<>>), <<>>)

RECURSIVE parsepipe(_, _)
parsepipe(buf, s) ==
  LET left == parseexec(buf, s)
      right == parsepipe(buf, gettoken(buf, left.s).s) IN
  IF left.s = 0 \/ ~peek(buf, left.s, {"|"}) THEN left
  ELSE IF right.s = 0 THEN Panic
  ELSE [s |-> right.s, cmd |-> pipecmd(left.cmd, right.cmd)]

RECURSIVE Backs(_, _)
Backs(buf, r) ==
  IF r.s = 0 \/ ~peek(buf, r.s, {"&"}) THEN r
  ELSE Backs(buf, [s |-> gettoken(buf, r.s).s, cmd |-> backcmd(r.cmd)])

parseline(buf, s) ==
  LET left == Backs(buf, parsepipe(buf, s))
      right == parseline(buf, gettoken(buf, left.s).s) IN
  IF left.s = 0 \/ ~peek(buf, left.s, {";"}) THEN left
  ELSE IF right.s = 0 THEN Panic
  ELSE [s |-> right.s, cmd |-> listcmd(left.cmd, right.cmd)]

(* The positions nulterminate sets to NUL. *)
RECURSIVE nulterminate(_)
nulterminate(cmd) ==
  CASE cmd[1] = "EXEC" -> {cmd[2][i][2] : i \in DOMAIN cmd[2]}
    [] cmd[1] = "REDIR" -> nulterminate(cmd[2]) \union {cmd[3][2]}
    [] cmd[1] \in {"PIPE", "LIST"} -> nulterminate(cmd[2]) \union nulterminate(cmd[3])
    [] cmd[1] = "BACK" -> nulterminate(cmd[2])

(* What the words are then: C strings. *)
RECURSIVE Strings(_, _, _)
Strings(buf, nuls, cmd) ==
  LET str(w) == SubSeq(buf, w[1], Min({t \in w[1] .. Len(buf) + 1 : t \in nuls \/ t > Len(buf)}) - 1) IN
  CASE cmd[1] = "EXEC" -> execcmd([i \in DOMAIN cmd[2] |-> str(cmd[2][i])])
    [] cmd[1] = "REDIR" -> <<"REDIR", Strings(buf, nuls, cmd[2]), str(cmd[3]), cmd[4], cmd[5]>>
    [] cmd[1] \in {"PIPE", "LIST"} -> <<cmd[1], Strings(buf, nuls, cmd[2]), Strings(buf, nuls, cmd[3])>>
    [] cmd[1] = "BACK" -> backcmd(Strings(buf, nuls, cmd[2]))

(* s = 0 is a syntax error: parsecmd panics, and the process exits. *)
parsecmd(buf) ==
  LET r == parseline(buf, 1) IN
  IF r.s = 0 \/ r.s # Len(buf) + 1 THEN Panic
  ELSE [r EXCEPT !.cmd = Strings(buf, nulterminate(@), @)]

=============================================================================

------------------------------ MODULE ShGrammar ------------------------------
(***************************************************************************)
(* What a command line means, top down, without a parser:                  *)
(*   line    = body [ ";" line ]           at the first ";" outside "( )"  *)
(*   body    = pipeline { "&" }                                            *)
(*   pipe    = command [ "|" pipe ]        at the first "|" outside "( )"  *)
(*   command = "(" line ")" redirections   or words and redirections       *)
(* The result is a set: the command, or nothing when the line is wrong.    *)
(***************************************************************************)
EXTENDS Integers, Sequences, SequencesExt, FiniteSets, FiniteSetsExt

CONSTANT MAXARGS

Symbol == {"<", "|", ">", "&", ";", "(", ")"}

(* The tokens of a line: single symbols, ">>", and words, which are        *)
(* maximal runs of letters.  A token is its text.                          *)
Tokens(buf) ==
  LET Joins(i) ==   \* character i continues the token of character i - 1
        /\ i > 1
        /\ \/ buf[i] \notin Symbol \union {" "} /\ buf[i - 1] \notin Symbol \union {" "}
           \/ LET run == Max({j \in 0 .. i - 1 : j = 0 \/ buf[j] # ">"}) IN
              buf[i] = ">" /\ (i - run) % 2 = 0
      starts == {i \in DOMAIN buf : buf[i] # " " /\ ~Joins(i)}
      end(i) == Max({j \in i .. Len(buf) : \A k \in i + 1 .. j : Joins(k)}) IN
  [n \in 1 .. Cardinality(starts) |->
     LET i == CHOOSE i \in starts : Cardinality({j \in starts : j < i}) = n - 1 IN SubSeq(buf, i, end(i))]

IsRedir(t) == t[1] \in {"<", ">"}
IsWord(t) == t[1] \notin Symbol

Depth(ts, i) == Cardinality({j \in 1 .. i : ts[j] = <<"(">>}) - Cardinality({j \in 1 .. i : ts[j] = <<")">>})
Top(ts, c) == {i \in DOMAIN ts : ts[i] = <<c>> /\ Depth(ts, i) = 0}
Before(ts, i) == SubSeq(ts, 1, i - 1)
After(ts, i)  == SubSeq(ts, i + 1, Len(ts))

(* cmd with the redirections among ts around it, the first one innermost. *)
Around(ts, cmd) ==
  LET pairs == [i \in DOMAIN ts |-> <<ts[i], IF i < Len(ts) THEN ts[i + 1] ELSE <<>>>>]
      redirs == SelectSeq(pairs, LAMBDA r : IsRedir(r[1]))
      wrap(c, r) == IF r[1] = <<"<">> THEN <<"REDIR", c, r[2], "O_RDONLY", 0>>
                    ELSE <<"REDIR", c, r[2], "O_WRONLY|O_CREATE", 1>>
  IN  FoldLeft(wrap, cmd, redirs)

(* Words and redirections, each redirection followed by its file. *)
Plain(ts) == \A i \in DOMAIN ts : IF IsRedir(ts[i]) THEN i < Len(ts) /\ IsWord(ts[i + 1]) ELSE IsWord(ts[i])
Args(ts) ==
  LET own == {i \in DOMAIN ts : IsWord(ts[i]) /\ ~(i > 1 /\ IsRedir(ts[i - 1]))} IN
  [n \in 1 .. Cardinality(own) |-> ts[CHOOSE i \in own : Cardinality({j \in own : j < i}) = n - 1]]

RECURSIVE Line(_)
Command(ts) ==
  LET close == {i \in DOMAIN ts : i > 1 /\ ts[i] = <<")">> /\ Depth(ts, i) = 0}
      c == Min(close)
      rest == After(ts, c) IN
  IF ts # <<>> /\ ts[1] = <<"(">>
  THEN IF close = {} THEN {}
       ELSE {Around(rest, l) : l \in IF Plain(rest) /\ Args(rest) = <<>> THEN Line(SubSeq(ts, 2, c - 1)) ELSE {}}
  ELSE IF Plain(ts) /\ Len(Args(ts)) < MAXARGS THEN {Around(ts, <<"EXEC", Args(ts)>>)} ELSE {}

RECURSIVE Pipe(_)
Pipe(ts) ==
  IF Top(ts, "|") = {} THEN Command(ts)
  ELSE LET i == Min(Top(ts, "|")) IN
       {<<"PIPE", l, r>> : l \in Command(Before(ts, i)), r \in Pipe(After(ts, i))}

RECURSIVE Body(_)
Body(ts) ==
  IF ts # <<>> /\ Last(ts) = <<"&">> THEN {<<"BACK", c>> : c \in Body(Front(ts))} ELSE Pipe(ts)

Line(ts) ==
  IF Top(ts, ";") = {} THEN Body(ts)
  ELSE LET i == Min(Top(ts, ";")) IN
       {<<"LIST", l, r>> : l \in Body(Before(ts, i)), r \in Line(After(ts, i))}

Meaning(buf) == Line(Tokens(buf))
=============================================================================

------------------------------- MODULE Syntax -------------------------------
(***************************************************************************)
(* From the typed line to the commands of the C-Shell: lexer.c, parser.c,  *)
(* and ext_in and ext_out of command.c, which take the redirections out of *)
(* a command's arguments.                                                  *)
(*                                                                         *)
(* A line is a sequence of characters, where a string such as "hop" stands *)
(* for a run of ordinary ones, and " " for any blank.                      *)
(***************************************************************************)
EXTENDS Integers, Sequences, SequencesExt, FiniteSetsExt

Special == {"|", "&", "<", ">", ";"}
Escape == "\\"
Quote == "\""

Bad == [ok |-> FALSE]

-----------------------------------------------------------------------------
(* lexer.  Tokens have type 0 (an operator) or 4 (a word). *)
Op(v) == [type |-> 0, value |-> v]
Word(v) == [type |-> 4, value |-> v]

(* The rest of a quoted part from i on, where v has been collected. *)
RECURSIVE double_quoted(_, _, _)
double_quoted(cmd, i, v) ==
  IF i > Len(cmd) THEN Bad
  ELSE IF cmd[i] = Quote THEN [ok |-> TRUE, i |-> i + 1, v |-> v]
  ELSE IF cmd[i] # Escape THEN double_quoted(cmd, i + 1, Append(v, cmd[i]))
  ELSE IF i = Len(cmd) THEN Bad
  ELSE double_quoted(cmd, i + 2, IF cmd[i + 1] \in {Quote, Escape}
                                   THEN Append(v, cmd[i + 1])
                                   ELSE v \o <<Escape, cmd[i + 1]>>)

single_quoted(cmd, i, v) ==
  LET ends == {k \in i .. Len(cmd) : cmd[k] = "'"}
      k == Min(ends)
  IN IF ends = {} THEN Bad
     ELSE [ok |-> TRUE, i |-> k + 1, v |-> v \o SubSeq(cmd, i, k - 1)]

RECURSIVE word(_, _, _)
word(cmd, i, v) ==
  LET on(r) == IF r.ok THEN word(cmd, r.i, r.v) ELSE Bad IN
  IF i > Len(cmd) \/ cmd[i] \in Special \cup {" "}
    THEN [ok |-> TRUE, i |-> i, v |-> v]
  ELSE IF cmd[i] = Escape
    THEN IF i = Len(cmd) THEN Bad ELSE word(cmd, i + 2, Append(v, cmd[i + 1]))
  ELSE IF cmd[i] = Quote THEN on(double_quoted(cmd, i + 1, v))
  ELSE IF cmd[i] = "'" THEN on(single_quoted(cmd, i + 1, v))
  ELSE word(cmd, i + 1, Append(v, cmd[i]))

(* The loop from i on, with the tokens so far.  The character at which a   *)
(* word ends is passed over by the loop's i++, an operator included.       *)
RECURSIVE lex_from(_, _, _)
lex_from(cmd, i, args) ==
  IF i > Len(cmd) THEN [ok |-> TRUE, args |-> args]
  ELSE IF cmd[i] = " " THEN lex_from(cmd, i + 1, args)
  ELSE IF cmd[i] = ">" /\ i < Len(cmd) /\ cmd[i + 1] = ">"
    THEN lex_from(cmd, i + 2, Append(args, Op(<<">", ">">>)))
  ELSE IF cmd[i] \in Special
    THEN lex_from(cmd, i + 1, Append(args, Op(<<cmd[i]>>)))
  ELSE LET w == word(cmd, i, <<>>)
       IN IF w.ok THEN lex_from(cmd, w.i + 1, Append(args, Word(w.v))) ELSE Bad

MutLexer(cmd) ==    \* a backslash is an ordinary character
  lex_from([i \in DOMAIN cmd |-> IF cmd[i] = Escape THEN "x" ELSE cmd[i]], 1, <<>>)
lexer(cmd) == lex_from(cmd, 1, <<>>)

-----------------------------------------------------------------------------
(* parser.  cmd is the first of args, and NULL when there are none. *)
NewNode == [args |-> <<>>, piped |-> FALSE, semi |-> FALSE, background |-> FALSE]

EndsNode == ("|" :> "piped") @@ (";" :> "semi") @@ ("&" :> "background")

(* An operator between commands needs one before it, and a word after it   *)
(* unless it is &.                                                         *)
MutWellPlaced(args, i, node) == i = Len(args) \/ args[i + 1].type = 4
WellPlaced(args, i, node) ==
  /\ node.args # <<>>
  /\ args[i].value = <<"&">> \/ (i < Len(args) /\ args[i + 1].type = 4)

RECURSIVE parse_from(_, _, _, _)
parse_from(args, i, coms, node) ==
  IF i > Len(args)
    THEN [ok |-> TRUE, coms |-> IF node.args = <<>> THEN coms ELSE Append(coms, node)]
  ELSE IF args[i].type = 0 /\ args[i].value[1] \in DOMAIN EndsNode
    THEN IF WellPlaced(args, i, node)
           THEN parse_from(args, i + 1,
                  Append(coms, [node EXCEPT ![EndsNode[args[i].value[1]]] = TRUE]),
                  NewNode)
           ELSE Bad
  ELSE parse_from(args, i + 1, coms,
                  [node EXCEPT !.args = Append(@, args[i].value)])

parser(args) == parse_from(args, 1, <<>>, NewNode)

-----------------------------------------------------------------------------
(* The targets of the operators ops leave the arguments.  Operators are    *)
(* known by their text: a quoted one is not told from a plain one.         *)
Redirections == {<<"<">>, <<">">>, <<">", ">">>}

RECURSIVE extract(_, _, _, _, _)
extract(args, ops, i, kept, files) ==
  IF i > Len(args) THEN [ok |-> TRUE, args |-> kept, files |-> files]
  ELSE IF args[i] \notin ops THEN extract(args, ops, i + 1, Append(kept, args[i]), files)
  ELSE IF i < Len(args) /\ args[i + 1] \notin Redirections
    THEN extract(args, ops, i + 2, kept, Append(files, args[i + 1]))
  ELSE Bad

ext_in(args) == extract(args, {<<"<">>}, 1, <<>>, <<>>)
ext_out(args) == extract(args, {<<">">>, <<">", ">">>}, 1, <<>>, <<>>)

-----------------------------------------------------------------------------
CONSTANTS
  Chars, MaxChars,   \* bound: the lines that LexerAgrees considers
  MaxTokens          \* bound: the token sequences that ParserAgrees considers

(* README.md:37: the lexer "produces tokens while ignoring spaces and      *)
(* tabs" and "handles quoting and escape characters".  The reference is an *)
(* automaton that reads one character at a time; joined says that it has   *)
(* seen an operator right behind a word.                                   *)
Step(s, c) ==
  LET ended == IF s.mode = "word" THEN Append(s.args, Word(s.v)) ELSE s.args
      add(m, cs) == [s EXCEPT !.mode = m, !.v = @ \o cs]
      begin(m, cs) == [s EXCEPT !.mode = m, !.v = (IF s.mode = "word" THEN @ ELSE <<>>) \o cs]
  IN CASE s.mode = "single" -> IF c = "'" THEN add("word", <<>>) ELSE add("single", <<c>>)
       [] s.mode = "escaped" -> add("word", <<c>>)
       [] s.mode = "double" -> IF c = Quote THEN add("word", <<>>)
                               ELSE IF c = Escape THEN add("double escaped", <<>>)
                               ELSE add("double", <<c>>)
       [] s.mode = "double escaped" ->
            add("double", IF c \in {Quote, Escape} THEN <<c>> ELSE <<Escape, c>>)
       [] s.mode = "greater" /\ c = ">" ->
            [s EXCEPT !.mode = "blank", !.args[Len(s.args)] = Op(<<">", ">">>)]
       [] OTHER ->
            CASE c = " " -> [s EXCEPT !.mode = "blank", !.args = ended]
              [] c \in Special ->
                   [s EXCEPT !.mode = IF c = ">" THEN "greater" ELSE "blank",
                             !.args = Append(ended, Op(<<c>>)),
                             !.joined = @ \/ s.mode = "word"]
              [] c = "'" -> begin("single", <<>>)
              [] c = Quote -> begin("double", <<>>)
              [] c = Escape -> begin("escaped", <<>>)
              [] OTHER -> begin("word", <<c>>)

Automaton(cmd) ==
  FoldLeft(Step, [mode |-> "blank", v |-> <<>>, args |-> <<>>, joined |-> FALSE], cmd \o <<" ">>)

(* On every line where a blank is between a word and the operator behind   *)
(* it, lexer.c finds the tokens that the automaton finds, and refuses what *)
(* ends inside a quotation or after a backslash.                           *)
LexerAgrees ==
  \A cmd \in SeqOf(Chars, MaxChars) :
    LET r == Automaton(cmd) IN
    r.joined \/ lexer(cmd) = IF r.mode = "blank" THEN [ok |-> TRUE, args |-> r.args] ELSE Bad

(* The grammar of parser.c:6-25, as the successors of its nonterminals. *)
Grammar(nt, t) ==
  CASE nt # "error" /\ t.type = 4 -> "ARG"
    [] nt = "ARG" /\ t.value \in Redirections -> "TGT"
    [] nt = "ARG" /\ t.value \in {<<"|">>, <<";">>} -> "CMD"
    [] nt = "ARG" /\ t.value = <<"&">> -> "BG"
    [] OTHER -> "error"

Tokens == {Word(<<"w">>), Op(<<"|">>), Op(<<";">>), Op(<<"&">>), Op(<<"<">>), Op(<<">">>)}

(* What the shell takes: parser, and ext_in and ext_out for each command. *)
Accepted(args) ==
  LET p == parser(args) IN
  p.ok /\ \A k \in DOMAIN p.coms :
            LET r == ext_in(p.coms[k].args) IN r.ok /\ ext_out(r.args).ok

(* Lines that the shell takes although the grammar does not derive them: a *)
(* command that begins with a redirection, and a > with < in place of its  *)
(* target, since ext_in has taken that away when ext_out looks.            *)
Lenient(args) ==
  \E i \in DOMAIN args :
    /\ args[i].value \in Redirections
    /\ \/ i = 1 \/ args[i - 1].value = <<"&">>
       \/ args[i].value = <<"<">> /\ args[i - 1].value = <<">">>

(* README.md:38: the parser "explicitly follows the right linear grammar". *)
(* With the checks that it leaves to ext_in and ext_out, the lines without *)
(* an error are those of the grammar, the lenient ones aside.              *)
ParserAgrees ==
  \A args \in SeqOf(Tokens, MaxTokens) :
    \/ Lenient(args)
    \/ Accepted(args) <=> FoldLeft(Grammar, "LINE", args) \in {"LINE", "ARG", "BG"}
=============================================================================

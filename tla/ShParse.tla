------------------------------ MODULE ShParse ------------------------------
(***************************************************************************)
(* The shell's parser (user/sh.c).  A line is a sequence of characters, of *)
(* which one stands for all letters and one for all white space; a command *)
(* is a tuple, a counted string the pair of its first position and the     *)
(* position after its last.  panic ends the parse: ok is FALSE.            *)
(***************************************************************************)
EXTENDS Integers, Sequences, FiniteSets
LOCAL INSTANCE FiniteSetsExt
LOCAL INSTANCE SequencesExt

CONSTANTS Chars, MaxLine, MAXARGS

VARIABLE line
pvars == <<line>>

NUL == "0"
Symbols == {"<", "|", ">", "&", ";", "(", ")"}
Es(s) == Len(s) + 1
Char(s, i) == IF i < Es(s) THEN s[i] ELSE NUL

-----------------------------------------------------------------------------
(* gettoken and peek.                                                      *)

Skip(s, i) == Min({j \in i..Es(s) : j = Es(s) \/ s[j] # " "})
WordEnd(s, i) == Min({j \in i..Es(s) : j = Es(s) \/ s[j] \in Symbols \cup {" "}})

\* Mutant: only white space ends a word.
gettoken_blank(s, ps) ==
  LET q == Skip(s, ps)
      c == Char(s, q)
      tok == IF c \in Symbols \cup {NUL} THEN c ELSE "a"
      eq == CASE tok = NUL -> q [] tok = "a" -> Min({j \in q..Es(s) : j = Es(s) \/ s[j] = " "}) [] OTHER -> q + 1
  IN [tok |-> tok, q |-> q, eq |-> eq, ps |-> Skip(s, eq)]

\* The token at or after ps, its ends q and eq, and where the next begins.
gettoken(s, ps) ==
  LET kind(q, c) == IF c = ">" /\ Char(s, q + 1) = ">" THEN "+"
                    ELSE IF c \in Symbols \cup {NUL} THEN c ELSE "a"
      end(q, tok) == CASE tok = NUL -> q [] tok = "+" -> q + 2
                       [] tok = "a" -> WordEnd(s, q) [] OTHER -> q + 1
      token(q, tok, eq) == [tok |-> tok, q |-> q, eq |-> eq, ps |-> Skip(s, eq)]
      from(q, tok) == token(q, tok, end(q, tok))
      at(q) == from(q, kind(q, Char(s, q)))
  IN at(Skip(s, ps))

peek(s, ps, toks) == Char(s, Skip(s, ps)) \in toks

-----------------------------------------------------------------------------
(* The grammar.  A result is the command, where the parse stands, and ok.  *)

At(ps, cmd) == [ok |-> TRUE, ps |-> ps, cmd |-> cmd]
Syntax == [ok |-> FALSE, ps |-> 0, cmd |-> <<"none">>]

\* The constructors; a file is where its name starts and ends, fd 0 or 1.
execcmd == <<"exec", <<>>>>
redircmd(cmd, file, fd) == <<"redir", cmd, file, fd>>
pipecmd(left, right) == <<"pipe", left, right>>
listcmd(left, right) == <<"list", left, right>>
backcmd(cmd) == <<"back", cmd>>

RECURSIVE parseredirs(_, _, _)
parseredirs(cmd, s, ps) ==
  LET redir(t, f) ==
        IF f.tok # "a" THEN Syntax
        ELSE parseredirs(redircmd(cmd, <<f.q, f.eq>>, IF t.tok = "<" THEN 0 ELSE 1), s, f.ps)
      sign(t) == redir(t, gettoken(s, t.ps))
  IN IF ~peek(s, ps, {"<", ">"}) THEN At(Skip(s, ps), cmd) ELSE sign(gettoken(s, ps))

\* The execcmd below the redirections gets one more argument.
RECURSIVE AddArg(_, _)
AddArg(cmd, arg) == IF cmd[1] = "exec" THEN <<"exec", Append(cmd[2], arg)>>
                    ELSE [cmd EXCEPT ![2] = AddArg(cmd[2], arg)]

\* parseexec's loop over the arguments.
RECURSIVE parseargs(_, _, _)
parseargs(r, s, argc) ==
  LET arg(t) ==
        CASE t.tok = NUL -> r
          [] t.tok = "a" /\ argc + 1 < MAXARGS ->
               parseargs(parseredirs(AddArg(r.cmd, <<t.q, t.eq>>), s, t.ps), s, argc + 1)
          [] OTHER -> Syntax
  IN IF ~r.ok \/ peek(s, r.ps, {"|", ")", "&", ";"}) THEN r ELSE arg(gettoken(s, r.ps))

\* parseline, with "&" and ";"; parsepipe; parseexec and parseblock.
RECURSIVE parseline(_, _), parsepipe(_, _), parseexec(_, _), Backs(_, _)

Backs(r, s) ==
  IF r.ok /\ peek(s, r.ps, {"&"}) THEN Backs(At(gettoken(s, r.ps).ps, backcmd(r.cmd)), s) ELSE r

parseline(s, ps) ==
  LET list(c, r) == IF r.ok THEN At(r.ps, listcmd(c.cmd, r.cmd)) ELSE r
      rest(c) == IF c.ok /\ peek(s, c.ps, {";"})
                 THEN list(c, parseline(s, gettoken(s, c.ps).ps)) ELSE c
  IN rest(Backs(parsepipe(s, ps), s))

parsepipe(s, ps) ==
  LET pipe(c, r) == IF r.ok THEN At(r.ps, pipecmd(c.cmd, r.cmd)) ELSE r
      rest(c) == IF c.ok /\ peek(s, c.ps, {"|"})
                 THEN pipe(c, parsepipe(s, gettoken(s, c.ps).ps)) ELSE c
  IN rest(parseexec(s, ps))

parseblock(s, ps) ==
  LET close(c) == IF c.ok /\ peek(s, c.ps, {")"})
                  THEN parseredirs(c.cmd, s, gettoken(s, c.ps).ps) ELSE Syntax
  IN close(parseline(s, gettoken(s, ps).ps))

parseexec(s, ps) ==
  IF peek(s, ps, {"("}) THEN parseblock(s, ps)
  ELSE parseargs(parseredirs(execcmd, s, ps), s, 0)

\* parsecmd without nulterminate: leftovers are a syntax error.
parsecmd(s) ==
  LET whole(r) == IF r.ok /\ Skip(s, r.ps) # Es(s) THEN Syntax ELSE r
  IN whole(parseline(s, 1))

\* Where nulterminate puts its zeros: after each of the strings.
Ends(strings) == {x[2] : x \in strings}

\* The counted strings of a command: the arguments, and the files.
RECURSIVE Args(_), Files(_)
Args(c) == CASE c[1] = "exec" -> c[2] [] c[1] \in {"redir", "back"} -> Args(c[2])
             [] OTHER -> Args(c[2]) \o Args(c[3])
Files(c) == CASE c[1] = "exec" -> <<>> [] c[1] = "redir" -> Append(Files(c[2]), c[3])
              [] c[1] = "back" -> Files(c[2]) [] OTHER -> Files(c[2]) \o Files(c[3])

nulterminate(s, c) ==
  LET zeros == Ends(Range(Args(c)) \cup Range(Files(c)))
  IN [i \in 1..Es(s) |-> IF i \in zeros THEN NUL ELSE Char(s, i)]

-----------------------------------------------------------------------------
(* A line is typed.                                                        *)

PInit == line = <<>>
type(c) == Len(line) < MaxLine /\ line' = Append(line, c)
PNext == \E c \in Chars : type(c)
PSpec == PInit /\ [][PNext]_pvars

-----------------------------------------------------------------------------
(* Properties.                                                             *)

\* The words of a line by their positions alone: maximal runs of letters; one
\* is a file when the nearest other character before it is < or >.
Words(s) == {<<i, WordEnd(s, i)>> : i \in {j \in DOMAIN s : s[j] \notin Symbols \cup {" "}
                                              /\ (j = 1 \/ s[j - 1] \in Symbols \cup {" "})}}
Before(s, i) == LET js == {j \in 1..(i - 1) : s[j] # " "} IN IF js = {} THEN NUL ELSE s[Max(js)]
IsFile(s, w) == Before(s, w[1]) \in {"<", ">"}
InOrder(ws) == SetToSortSeq(ws, LAMBDA x, y : x[1] < y[1])

RECURSIVE Count(_, _)
Count(c, kind) ==
  (IF c[1] = kind THEN 1 ELSE 0) +
  (CASE c[1] = "exec" -> 0 [] c[1] \in {"redir", "back"} -> Count(c[2], kind)
     [] OTHER -> Count(c[2], kind) + Count(c[3], kind))
Occurs(s, ch) == Cardinality({i \in DOMAIN s : s[i] = ch})

\* A line that parses is in the tree, all of it: each word once and in order,
\* as an argument or, after < or >, as a file; each |, ; and & as a command.
NothingDropped ==
  \A r \in {parsecmd(line)} :
  r.ok => /\ Args(r.cmd) = InOrder({w \in Words(line) : ~IsFile(line, w)})
          /\ Files(r.cmd) = InOrder({w \in Words(line) : IsFile(line, w)})
          /\ Count(r.cmd, "pipe") = Occurs(line, "|")
          /\ Count(r.cmd, "list") = Occurs(line, ";")
          /\ Count(r.cmd, "back") = Occurs(line, "&")

\* nulterminate writes into the line it has parsed: each string then ends
\* where it should, and no zero falls into another string, also where words
\* and symbols touch.
StringsKept ==
  \A r \in {parsecmd(line)} : r.ok =>
    \A t \in {nulterminate(line, r.cmd)}, w \in Words(line) :
      /\ \A i \in w[1]..(w[2] - 1) : t[i] = line[i]
      /\ t[w[2]] = NUL

\* Brackets: a line that parses has them balanced, and every bracket that
\* opens stands where a command begins.
Balanced ==
  LET depth(k) == Cardinality({i \in 1..k : line[i] = "("}) - Cardinality({i \in 1..k : line[i] = ")"})
  IN parsecmd(line).ok =>
       /\ depth(Len(line)) = 0 /\ \A k \in DOMAIN line : depth(k) >= 0
       /\ \A i \in DOMAIN line : line[i] = "(" => Before(line, i) \in {NUL, "(", "|", ";", "&"}

=============================================================================

------------------------------ MODULE ShParser ------------------------------
(***************************************************************************)
(* The parser of sh.c over a line of characters: gettoken(), peek(), the   *)
(* recursive descent, and nulterminate().  A word is the position of its   *)
(* first character, as q is in the code.  Checked against a grammar.       *)
(***************************************************************************)
EXTENDS Integers, Sequences, FiniteSetsExt, SequencesExt

CONSTANTS MAXARGS

whitespace == {" "}
symbols == {"<", "|", ">", "&", ";", "(", ")"}

End(t) == Len(t) + 1
Skip(t, s) == Min({i \in s..End(t) : i = End(t) \/ t[i] \notin whitespace})
WordEnd(t, s) == Min({i \in s..End(t) : i = End(t) \/ t[i] \in whitespace \cup symbols})

(* gettoken(): the kind, where the token starts and ends, and what follows.  *)
gettoken(t, s0) ==
  LET s == Skip(t, s0)
      kind == IF s = End(t) THEN "0"
              ELSE IF t[s] = ">" /\ s < Len(t) /\ t[s + 1] = ">" THEN "+"
              ELSE IF t[s] \in symbols THEN t[s] ELSE "a"
      eq == CASE kind = "0" -> s [] kind = "+" -> s + 2 [] kind = "a" -> WordEnd(t, s) [] OTHER -> s + 1
  IN [kind |-> kind, q |-> s, eq |-> eq, s |-> Skip(t, eq)]

(* peek(), at a place that whitespace may precede.                           *)
peek(t, s, toks) == Skip(t, s) < End(t) /\ t[Skip(t, s)] \in toks

Ok(s, cmd) == [ok |-> TRUE, s |-> s, cmd |-> cmd]
Syntax == [ok |-> FALSE, s |-> 0, cmd |-> <<>>]

RECURSIVE parseredirs(_, _, _), parseargs(_, _, _, _)
RECURSIVE parseline(_, _), parsepipe(_, _), parseexec(_, _), ampersands(_, _, _)

(* parseredirs(): a redirection wraps the command and those before it.       *)
parseredirs(t, s, rs) ==
  IF ~peek(t, s, {"<", ">"}) THEN Ok(s, rs)
  ELSE LET op == gettoken(t, s) file == gettoken(t, op.s)
       IN IF file.kind # "a" THEN Syntax
          ELSE parseredirs(t, file.s, Append(rs, <<file.q, IF op.kind = "<" THEN 0 ELSE 1>>))

Redirected(cmd, rs) ==
  FoldLeft(LAMBDA c, r : [type |-> "REDIR", cmd |-> c, file |-> r[1], fd |-> r[2]], cmd, rs)

(* Mutant: one argument too many is stored.                                  *)
TooManyLate(argc) == argc > MAXARGS

TooMany(argc) == argc >= MAXARGS

(* The loop of parseexec().                                                  *)
parseargs(t, s, argv, rs) ==
  IF peek(t, s, {"|", ")", "&", ";"}) \/ gettoken(t, s).kind = "0"
  THEN Ok(s, Redirected([type |-> "EXEC", argv |-> argv], rs))
  ELSE LET w == gettoken(t, s) more == parseredirs(t, w.s, rs)
       IN IF w.kind # "a" \/ TooMany(Len(argv) + 1) \/ ~more.ok THEN Syntax
          ELSE parseargs(t, more.s, Append(argv, w.q), more.cmd)

(* parseblock(), behind the line b within the parentheses.                   *)
parseblock(t, b) ==
  LET r == parseredirs(t, gettoken(t, b.s).s, <<>>)
  IN IF ~b.ok \/ ~peek(t, b.s, {")"}) \/ ~r.ok THEN Syntax
     ELSE Ok(r.s, Redirected(b.cmd, r.cmd))

parseexec(t, s) ==
  IF peek(t, s, {"("}) THEN parseblock(t, parseline(t, gettoken(t, s).s))
  ELSE LET r == parseredirs(t, s, <<>>)
       IN IF r.ok THEN parseargs(t, r.s, <<>>, r.cmd) ELSE Syntax

(* listcmd() and pipecmd().                                                  *)
Both(type, l, r) ==
  IF r.ok THEN Ok(r.s, [type |-> type, left |-> l.cmd, right |-> r.cmd]) ELSE Syntax

(* parsepipe(), behind its first command l.                                  *)
PipeRest(t, l) ==
  IF l.ok /\ peek(t, l.s, {"|"}) THEN Both("PIPE", l, parsepipe(t, gettoken(t, l.s).s)) ELSE l
parsepipe(t, s) == PipeRest(t, parseexec(t, s))

ampersands(t, s, cmd) ==
  IF peek(t, s, {"&"}) THEN ampersands(t, gettoken(t, s).s, [type |-> "BACK", cmd |-> cmd])
  ELSE Ok(s, cmd)

(* parseline(), behind its first pipeline p.                                 *)
ListRest(t, l) ==
  IF peek(t, l.s, {";"}) THEN Both("LIST", l, parseline(t, gettoken(t, l.s).s)) ELSE l
LineRest(t, p) == IF p.ok THEN ListRest(t, ampersands(t, p.s, p.cmd)) ELSE p
parseline(t, s) == LineRest(t, parsepipe(t, s))

(* parsecmd(), before nulterminate(): leftovers are an error.                *)
NoLeftovers(t, r) == IF r.ok /\ Skip(t, r.s) = End(t) THEN r ELSE Syntax
parsecmd(t) == NoLeftovers(t, parseline(t, 1))

(* nulterminate(): the places where a 0 is stored.                           *)
RECURSIVE nulterminate(_, _)
nulterminate(t, c) ==
  CASE c.type = "EXEC" -> {WordEnd(t, q) : q \in ToSet(c.argv)}
    [] c.type = "REDIR" -> nulterminate(t, c.cmd) \cup {WordEnd(t, c.file)}
    [] c.type = "BACK" -> nulterminate(t, c.cmd)
    [] OTHER -> nulterminate(t, c.left) \cup nulterminate(t, c.right)

-----------------------------------------------------------------------------
(* The grammar, over the tokens i to j - 1 of a line.                        *)
RECURSIVE Tokens(_, _), ArgsOf(_, _, _, _), RedirsOf(_, _, _)
RECURSIVE LineOf(_, _, _), PipeOf(_, _, _), ExecOf(_, _, _)

Tokens(t, s) ==
  LET g == gettoken(t, s) IN IF g.kind = "0" THEN <<>> ELSE <<g>> \o Tokens(t, g.s)

Is(k, i, j, kinds) == i < j /\ k[i].kind \in kinds
Redir == {"<", ">", "+"}

RedirsOf(k, i, j) ==
  i = j \/ (Is(k, i, j, Redir) /\ Is(k, i + 1, j, {"a"}) /\ RedirsOf(k, i + 2, j))

ArgsOf(k, i, j, room) ==
  \/ i = j
  \/ Is(k, i, j, {"a"}) /\ room > 0 /\ ArgsOf(k, i + 1, j, room - 1)
  \/ Is(k, i, j, Redir) /\ Is(k, i + 1, j, {"a"}) /\ ArgsOf(k, i + 2, j, room)

ExecOf(k, i, j) ==
  \/ ArgsOf(k, i, j, MAXARGS - 1)
  \/ /\ Is(k, i, j, {"("})
     /\ \E m \in (i + 1)..(j - 1) : k[m].kind = ")" /\ LineOf(k, i + 1, m) /\ RedirsOf(k, m + 1, j)

PipeOf(k, i, j) ==
  ExecOf(k, i, j) \/ \E m \in i..(j - 1) : k[m].kind = "|" /\ ExecOf(k, i, m) /\ PipeOf(k, m + 1, j)

LineOf(k, i, j) ==
  \E m \in i..j : \E n \in m..j :
    /\ PipeOf(k, i, m) /\ \A x \in m..(n - 1) : k[x].kind = "&"
    /\ n = j \/ (k[n].kind = ";" /\ LineOf(k, n + 1, j))

-----------------------------------------------------------------------------
(* The parser accepts exactly the lines of the grammar, though it never goes *)
(* back and looks one character ahead.                                       *)
ParserAccepts(k, r) == r.ok = LineOf(k, 1, Len(k) + 1)

RECURSIVE Argv(_), Files(_), Nodes(_, _)
Argv(c) == CASE c.type = "EXEC" -> c.argv
             [] c.type \in {"REDIR", "BACK"} -> Argv(c.cmd)
             [] OTHER -> Argv(c.left) \o Argv(c.right)
Files(c) == CASE c.type = "EXEC" -> <<>>
              [] c.type = "REDIR" -> Append(Files(c.cmd), c.file)
              [] c.type = "BACK" -> Files(c.cmd)
              [] OTHER -> Files(c.left) \o Files(c.right)
Nodes(c, type) == (IF c.type = type THEN 1 ELSE 0) +
             (CASE c.type = "EXEC" -> 0
                [] c.type \in {"REDIR", "BACK"} -> Nodes(c.cmd, type)
                [] OTHER -> Nodes(c.left, type) + Nodes(c.right, type))

(* The tree of a line that is accepted has its words in order as arguments   *)
(* or files, and one node for each operator: nothing is lost or invented.    *)
ParserKeeps(k, r) ==
  r.ok =>
    LET c == r.cmd
        IsFile(i) == i > 1 /\ k[i - 1].kind \in Redir
        Words(file) == SelectSeq([i \in DOMAIN k |-> [kind |-> k[i].kind, q |-> k[i].q, file |-> IsFile(i)]],
                                 LAMBDA w : w.kind = "a" /\ w.file = file)
        Ops(kinds) == Cardinality({i \in DOMAIN k : k[i].kind \in kinds})
    IN /\ Argv(c) = [i \in DOMAIN Words(FALSE) |-> Words(FALSE)[i].q]
       /\ Files(c) = [i \in DOMAIN Words(TRUE) |-> Words(TRUE)[i].q]
       /\ Nodes(c, "PIPE") = Ops({"|"}) /\ Nodes(c, "LIST") = Ops({";"})
       /\ Nodes(c, "BACK") = Ops({"&"}) /\ Nodes(c, "REDIR") = Ops(Redir)

(* After nulterminate() every word of the tree is a string of its own.       *)
WordsTerminated(t, r) ==
  r.ok =>
    LET c == r.cmd zero == nulterminate(t, c)
    IN \A q \in ToSet(Argv(c) \o Files(c)) :
         WordEnd(t, q) \in zero /\ (q..(WordEnd(t, q) - 1)) \cap zero = {}

(* The three, of a line t with tokens k and what the parser makes of it.     *)
ParsedRight(t, k, r) == ParserAccepts(k, r) /\ ParserKeeps(k, r) /\ WordsTerminated(t, r)
ParserRight(t) == ParsedRight(t, Tokens(t, 1), parsecmd(t))
=============================================================================

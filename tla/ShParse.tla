------------------------------ MODULE ShParse -------------------------------
(***************************************************************************)
(* The parser of the shell, sh.c: recursive descent over the tokens of a    *)
(* command line, and the grammar it is meant to implement.                  *)
(*                                                                          *)
(* A line is a sequence of tokens: white space, and the letters of words,   *)
(* are gone, and >> is written >.  A word in a tree is its position in the  *)
(* line, as the code's pointers into the buffer are.                        *)
(***************************************************************************)
EXTENDS Integers, Sequences, FiniteSets, SequencesExt

CONSTANT MAXARGS

Words == {"a"}
Tokens == Words \cup {"|", "&", ";", "<", ">", "(", ")"}

execcmd(argv) == [type |-> "EXEC", argv |-> argv]
redircmd(c, file, fd) == [type |-> "REDIR", cmd |-> c, file |-> file, fd |-> fd]
pipecmd(l, r) == [type |-> "PIPE", left |-> l, right |-> r]
listcmd(l, r) == [type |-> "LIST", left |-> l, right |-> r]
backcmd(c) == [type |-> "BACK", cmd |-> c]

\* The redirections rs around the command c, the first one innermost.
Wrap(c, rs) ==
  FoldLeft(LAMBDA d, r : redircmd(d, r.file, r.fd), c, rs)
RedirAt(s, i) == [file |-> i + 1, fd |-> IF s[i] = "<" THEN 0 ELSE 1]

-----------------------------------------------------------------------------
\* The result of a parsing function: failed (panic), or what it has parsed
\* and the position it has reached.
Fail == [ok |-> FALSE]
Parsed(c, i) == [ok |-> TRUE, got |-> c, at |-> i]
\* What F makes of the result r, unless that is a failure.  (r is an element
\* of a set so that TLC evaluates it once.)
Then(r, F(_)) == CHOOSE x \in {IF l.ok THEN F(l) ELSE l : l \in {r}} : TRUE
peek(s, i, toks) == i <= Len(s) /\ s[i] \in toks

RECURSIVE parseredirs(_, _, _), parseargs(_, _, _, _), parseblock(_, _),
          parseexec(_, _), parsepipe(_, _), parsebacks(_, _, _),
          parselist(_, _), parseline(_, _)

\* parseredirs(), adding to the redirections rs.
parseredirs(rs, s, i) ==
  IF ~peek(s, i, {"<", ">"}) THEN Parsed(rs, i)
  ELSE IF ~peek(s, i + 1, Words) THEN Fail
  ELSE parseredirs(Append(rs, RedirAt(s, i)), s, i + 2)

\* The loop of parseexec().
parseargs(argv, rs, s, i) ==
  IF i > Len(s) \/ peek(s, i, {"|", ")", "&", ";"})
  THEN Parsed(Wrap(execcmd(argv), rs), i)
  ELSE IF s[i] \notin Words \/ Len(argv) + 1 >= MAXARGS THEN Fail
  ELSE Then(parseredirs(rs, s, i + 1),
            LAMBDA r : parseargs(Append(argv, i), r.got, s, r.at))

parseexec(s, i) ==
  IF peek(s, i, {"("}) THEN parseblock(s, i)
  ELSE Then(parseredirs(<<>>, s, i),
            LAMBDA r : parseargs(<<>>, r.got, s, r.at))

parseblock(s, i) ==
  Then(parseline(s, i + 1), LAMBDA l :
    IF ~peek(s, l.at, {")"}) THEN Fail
    ELSE Then(parseredirs(<<>>, s, l.at + 1), LAMBDA r :
           Parsed(Wrap(l.got, r.got), r.at)))

parsepipe(s, i) ==
  Then(parseexec(s, i), LAMBDA l :
    IF ~peek(s, l.at, {"|"}) THEN l
    ELSE Then(parsepipe(s, l.at + 1), LAMBDA r :
           Parsed(pipecmd(l.got, r.got), r.at)))

parsebacks(c, s, i) ==
  IF peek(s, i, {"&"}) THEN parsebacks(backcmd(c), s, i + 1) ELSE Parsed(c, i)

\* The command b that parseline() has, and the rest of the list after a ;.
parselist(b, s) ==
  IF ~peek(s, b.at, {";"}) THEN b
  ELSE Then(parseline(s, b.at + 1), LAMBDA r :
         Parsed(listcmd(b.got, r.got), r.at))

\* Variant of parseline that takes one & at most.
parselineOneBack(s, i) ==
  Then(parsepipe(s, i), LAMBDA p :
    Then(IF peek(s, p.at, {"&"}) THEN Parsed(backcmd(p.got), p.at + 1) ELSE p,
         LAMBDA b : parselist(b, s)))

parseline(s, i) ==
  Then(parsepipe(s, i), LAMBDA p :
    Then(parsebacks(p.got, s, p.at), LAMBDA b : parselist(b, s)))

parsecmd(s) ==
  Then(parseline(s, 1), LAMBDA l : IF l.at = Len(s) + 1 THEN l ELSE Fail)

-----------------------------------------------------------------------------
\* The grammar: the trees that each kind of phrase gives to tokens i..j-1.
RECURSIVE LineTrees(_, _, _), BackTrees(_, _, _), PipeTrees(_, _, _)

Positions(s, i, j, toks) == {k \in i..j - 1 : s[k] \in toks}
Sorted(S) == SetToSortSeq(S, <)

\* Words and redirections in any order, with fewer words than MAXARGS.
SimpleTrees(s, i, j) ==
  LET ops == Positions(s, i, j, {"<", ">"})
      args == {k \in i..j - 1 : k \notin ops /\ k - 1 \notin ops}
      rs == [k \in 1..Cardinality(ops) |-> RedirAt(s, Sorted(ops)[k])]
  IN IF /\ \A k \in ops : k + 1 < j /\ s[k + 1] \in Words
        /\ \A k \in args : s[k] \in Words
        /\ Cardinality(args) < MAXARGS
     THEN {Wrap(execcmd(Sorted(args)), rs)} ELSE {}

\* A line in parentheses, then redirections.
BlockTrees(s, i, j) ==
  UNION {{Wrap(t, [n \in 1..(j - k - 1) \div 2 |-> RedirAt(s, k + 2 * n - 1)]) :
            t \in LineTrees(s, i + 1, k)} :
         k \in {m \in Positions(s, i + 1, j, {")"}) :
                  /\ s[i] = "("
                  /\ (j - m - 1) % 2 = 0
                  /\ \A n \in m + 1..j - 1 :
                       s[n] \in IF (n - m) % 2 = 1 THEN {"<", ">"} ELSE Words}}

ExecTrees(s, i, j) ==
  SimpleTrees(s, i, j) \cup IF i < j THEN BlockTrees(s, i, j) ELSE {}

PipeTrees(s, i, j) ==
  ExecTrees(s, i, j) \cup
  UNION {{pipecmd(l, r) : l \in ExecTrees(s, i, k),
                          r \in PipeTrees(s, k + 1, j)} :
         k \in Positions(s, i, j, {"|"})}

BackTrees(s, i, j) ==
  PipeTrees(s, i, j) \cup
  IF i < j /\ s[j - 1] = "&" THEN {backcmd(t) : t \in BackTrees(s, i, j - 1)}
  ELSE {}

LineTrees(s, i, j) ==
  BackTrees(s, i, j) \cup
  UNION {{listcmd(l, r) : l \in BackTrees(s, i, k),
                          r \in LineTrees(s, k + 1, j)} :
         k \in Positions(s, i, j, {";"})}

\* The parser accepts s if and only if the grammar does, with the only tree
\* that the grammar gives it.
Agrees(s) ==
  LineTrees(s, 1, Len(s) + 1) = {l.got : l \in {m \in {parsecmd(s)} : m.ok}}
=============================================================================

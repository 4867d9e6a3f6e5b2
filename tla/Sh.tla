-------------------------------- MODULE Sh ----------------------------------
(***************************************************************************)
(* The shell, sh.c: main reads lines, and a forked child parses a line and  *)
(* runs its tree with fork, wait, pipe, dup, close and exec.                *)
(*                                                                          *)
(* A program reads its standard input byte by byte and copies it to its     *)
(* standard output, ends at end of file or when a write fails, and may end  *)
(* before.  fork, pipe, open and exec may fail.  init adopts and reaps      *)
(* orphans, and starts a new shell when the shell has exited.  The built-in *)
(* cd changes nothing that is modelled here.                                *)
(***************************************************************************)
EXTENDS ShParse

CONSTANTS
  NPROC,       \* slots of the process table; the shell has the first
  PIPESIZE,    \* bytes in a pipe
  INPUT,       \* bytes that a program finds on the console or in a file
  Lines,       \* the command lines that are run
  MAXLINE,     \* bound on the tokens of a line that is typed and not run
  MaxLeft,     \* bound on the programs still running when a line is typed
  SHORT        \* longest line that is typed while any is

ASSUME ShAssumption ==
  /\ INPUT \in Nat /\ MAXLINE \in Nat /\ MaxLeft \in Nat /\ SHORT \in Nat
  /\ NPROC \in Nat \ {0} /\ PIPESIZE \in Nat \ {0} /\ MAXARGS \in Nat
  /\ \A s \in Lines : s \in Seq(Tokens)

Slots == 1..NPROC
shell == 1
initproc == 0

\* Descriptors: 0, 1 and 2, and two for a pipe.
Fds == 0..4
Closed == <<"closed", 0>>
Console == <<"console", 0>>
File == <<"file", 0>>
Std == [d \in Fds |-> IF d < 3 THEN Console ELSE Closed]
Pipes == 1..NPROC
ReadEnd(i) == <<"read", i>>
WriteEnd(i) == <<"write", i>>

VARIABLES
  procs,    \* the process table
  bytes,    \* the number of bytes in every pipe
  line,     \* the line that main() has read
  failed    \* a system call has failed, and what it left may still run

vars == <<procs, bytes, line, failed>>

NoCmd == [type |-> "none"]
Unused == [pc |-> "unused", parent |-> initproc, cmd |-> NoCmd, fd |-> Std,
           p |-> <<0, 0>>, in |-> 0, has |-> 0, back |-> FALSE]

Init ==
  /\ procs = [x \in Slots |-> IF x = shell THEN [Unused EXCEPT !.pc = "prompt"]
                              ELSE Unused]
  /\ bytes = [i \in Pipes |-> 0]
  /\ line = <<>>
  /\ failed = FALSE

Live(x) == procs[x].pc \notin {"unused", "zombie"}
HeldIn(ps, f) ==
  \E x \in Slots : /\ ps[x].pc \notin {"unused", "zombie"}
                   /\ f \in Range(ps[x].fd)
Held(f) == HeldIn(procs, f)

\* The process table becomes ps; pipes that nobody holds any more are freed.
Procs(ps) ==
  /\ procs' = ps
  /\ bytes' = [i \in Pipes |->
                 IF \E f \in {ReadEnd(i), WriteEnd(i)} : HeldIn(ps, f)
                 THEN bytes[i] ELSE 0]

-----------------------------------------------------------------------------
\* Operations on a table of descriptors.
close(ft, d) == [ft EXCEPT ![d] = Closed]
Lowest(ft) ==
  CHOOSE d \in Fds : ft[d] = Closed /\ \A c \in Fds : ft[c] = Closed => d <= c
fdalloc(ft, f) == [ft EXCEPT ![Lowest(ft)] = f]
dup(ft, d) == fdalloc(ft, ft[d])
pipe(ft, i) ==
  LET r == fdalloc(ft, ReadEnd(i))
  IN [fd |-> fdalloc(r, WriteEnd(i)), p |-> <<Lowest(ft), Lowest(r)>>]

\* The process table ps when x has exited: its children go to init, which
\* reaps those that have exited, and x too if it is init's.
Exited(ps, x) ==
  [y \in Slots |->
     IF y = x THEN IF ps[x].parent = initproc THEN Unused
                   ELSE [Unused EXCEPT !.pc = "zombie", !.parent = ps[x].parent]
     ELSE IF ps[y].parent # x THEN ps[y]
     ELSE IF ps[y].pc = "zombie" THEN Unused
     ELSE [ps[y] EXCEPT !.parent = initproc]]

exit(x) == Procs(Exited(procs, x))

\* fork1(): the child is c; the parent goes on at l.
Fork(x, c, l) ==
  \E q \in Slots :
    /\ procs[q].pc = "unused"
    /\ \A y \in Slots : procs[y].pc = "unused" => q <= y
    /\ procs' = [procs EXCEPT ![x].pc = l, ![q] = [c EXCEPT !.parent = x]]

\* When a system call can fail: fork when the table is full, and any call
\* for other reasons, once per line.
MayFail == ~failed \/ \A x \in Slots : procs[x].pc # "unused"

\* wait() reaps any child that has exited; without children it fails.
Children(x) == {y \in Slots : procs[y].pc # "unused" /\ procs[y].parent = x}
Waited(x, ps) ==
  \/ Children(x) = {} /\ procs' = ps
  \/ \E y \in Children(x) : /\ procs[y].pc = "zombie"
                           /\ procs' = [ps EXCEPT ![y] = Unused]

-----------------------------------------------------------------------------
\* What still runs from earlier lines, and whether line s may be typed then.
Left == {x \in Slots \ {shell} : Live(x)}
Typable(s) ==
  /\ Cardinality(Left) <= MaxLeft
  /\ \A x \in Left : procs[x].pc = "program" /\ Len(s) <= SHORT

\* getcmd() reads a token; gets() goes on until the line ends.
Type(t) ==
  /\ procs[shell].pc = "prompt"
  /\ line' = Append(line, t)
  /\ \/ Len(line') <= MAXLINE /\ Left = {}
     \/ \E s \in Lines : Typable(s) /\ IsPrefix(line', s)
  /\ failed' = (failed /\ Left # {})
  /\ UNCHANGED <<procs, bytes>>

\* ^U on the console takes back what has been typed.
EraseLine ==
  /\ procs[shell].pc = "prompt" /\ line # <<>>
  /\ line' = <<>>
  /\ UNCHANGED <<procs, bytes, failed>>

\* main(): the line is complete ...
GetCmd ==
  /\ procs[shell].pc = "prompt" /\ line \in Lines /\ Typable(line)
  /\ failed' = (failed /\ Left # {})
  /\ procs' = [procs EXCEPT ![shell].pc = "fork"]
  /\ UNCHANGED <<bytes, line>>

\* ... a child is forked to run it ...
MainFork ==
  /\ procs[shell].pc = "fork"
  /\ Fork(shell, [procs[shell] EXCEPT !.pc = "parse", !.back = FALSE], "wait")
  /\ UNCHANGED <<bytes, line, failed>>

\* ... and waited for.
MainWait ==
  /\ procs[shell].pc = "wait"
  /\ Waited(shell, [procs EXCEPT ![shell].pc = "prompt"])
  /\ line' = <<>>
  /\ UNCHANGED <<bytes, failed>>

\* fork1() fails in main(): the shell exits, and init starts another one.
MainFail ==
  /\ procs[shell].pc = "fork"
  /\ MayFail
  /\ failed' = TRUE
  /\ Procs([Exited(procs, shell) EXCEPT
             ![shell] = [Unused EXCEPT !.pc = "prompt"]])
  /\ line' = <<>>

Parsing == [s \in Lines |-> parsecmd(s)]

\* parsecmd(): a tree to run, or a syntax error.
Parse(x) ==
  /\ procs[x].pc = "parse"
  /\ LET l == Parsing[line]
     IN IF l.ok
        THEN Procs([procs EXCEPT ![x].pc = "runcmd", ![x].cmd = l.got])
        ELSE exit(x)
  /\ UNCHANGED <<line, failed>>

-----------------------------------------------------------------------------
\* The process x calls runcmd() with a command of type t.
Runs(x, t) == procs[x].pc = "runcmd" /\ procs[x].cmd.type = t

\* runcmd(), EXEC: no program, or one that x becomes.
RunExec(x) ==
  /\ Runs(x, "EXEC")
  /\ IF procs[x].cmd.argv = <<>> THEN exit(x)
     ELSE Procs([procs EXCEPT ![x].pc = "program", ![x].cmd = NoCmd,
                             ![x].in = INPUT])
  /\ UNCHANGED <<line, failed>>

\* runcmd(), REDIR: the file takes the descriptor that was closed.
RunRedir(x) ==
  /\ Runs(x, "REDIR")
  /\ LET c == procs[x].cmd
     IN Procs([procs EXCEPT ![x].fd = fdalloc(close(procs[x].fd, c.fd), File),
                           ![x].cmd = c.cmd])
  /\ UNCHANGED <<line, failed>>

\* runcmd(), LIST: a child runs the left command ...
RunList(x) ==
  /\ Runs(x, "LIST")
  /\ Fork(x, [procs[x] EXCEPT !.cmd = procs[x].cmd.left], "list")
  /\ UNCHANGED <<bytes, line, failed>>

\* ... and when it has exited x runs the right one.
RunRight(x) ==
  /\ procs[x].pc = "list"
  /\ Waited(x, [procs EXCEPT ![x].pc = "runcmd", ![x].cmd = procs[x].cmd.right])
  /\ UNCHANGED <<bytes, line, failed>>

\* runcmd(), BACK: a child runs the command; x does not wait for it.
RunBack(x) ==
  /\ Runs(x, "BACK")
  /\ Fork(x, [procs[x] EXCEPT !.cmd = procs[x].cmd.cmd, !.back = TRUE], "exit")
  /\ UNCHANGED <<bytes, line, failed>>

-----------------------------------------------------------------------------
\* runcmd(), PIPE: pipe(p) takes two descriptors ...
RunPipe(x) ==
  /\ Runs(x, "PIPE")
  /\ LET i == CHOOSE i \in Pipes : ~Held(ReadEnd(i)) /\ ~Held(WriteEnd(i))
         ft == procs[x].fd
     IN /\ procs' = [procs EXCEPT ![x].pc = "left", ![x].fd = pipe(ft, i).fd,
                                  ![x].p = pipe(ft, i).p]
        /\ bytes' = [bytes EXCEPT ![i] = 0]
  /\ UNCHANGED <<line, failed>>

\* The descriptors ft of x without the pipe in p.
ClosePipe(x, ft) == close(close(ft, procs[x].p[1]), procs[x].p[2])

\* A child of x that runs the command c with the descriptors ft.
Child(x, c, ft) ==
  [procs[x] EXCEPT !.pc = "runcmd", !.cmd = c, !.p = <<0, 0>>, !.fd = ft]

\* Variant of PipeLeft whose child keeps the read end.
PipeLeftKeepsRead(x) ==
  /\ procs[x].pc = "left"
  /\ LET ft == close(dup(close(procs[x].fd, 1), procs[x].p[2]), procs[x].p[2])
     IN Fork(x, Child(x, procs[x].cmd.left, ft), "right")
  /\ UNCHANGED <<bytes, line, failed>>

\* ... a child with its write end as standard output runs the left command ...
PipeLeft(x) ==
  /\ procs[x].pc = "left"
  /\ LET ft == ClosePipe(x, dup(close(procs[x].fd, 1), procs[x].p[2]))
     IN Fork(x, Child(x, procs[x].cmd.left, ft), "right")
  /\ UNCHANGED <<bytes, line, failed>>

\* ... a second one with its read end as standard input the right command ...
PipeRight(x) ==
  /\ procs[x].pc = "right"
  /\ LET ft == ClosePipe(x, dup(close(procs[x].fd, 0), procs[x].p[1]))
     IN Fork(x, Child(x, procs[x].cmd.right, ft), "close")
  /\ UNCHANGED <<bytes, line, failed>>

\* Variant of PipeClose that keeps the write end open.
PipeCloseKeepsWrite(x) ==
  /\ procs[x].pc = "close"
  /\ Procs([procs EXCEPT ![x].pc = "wait2",
                         ![x].fd = close(procs[x].fd, procs[x].p[1])])
  /\ UNCHANGED <<line, failed>>

\* ... x closes its own two ends ...
PipeClose(x) ==
  /\ procs[x].pc = "close"
  /\ Procs([procs EXCEPT ![x].pc = "wait2",
                         ![x].fd = ClosePipe(x, procs[x].fd)])
  /\ UNCHANGED <<line, failed>>

\* Variant of PipeWait that waits for one child only.
PipeWaitOnce(x) ==
  /\ procs[x].pc = "wait2"
  /\ Waited(x, [procs EXCEPT ![x].pc = "exit"])
  /\ UNCHANGED <<bytes, line, failed>>

\* ... and waits for both.
PipeWait(x) ==
  /\ \/ procs[x].pc = "wait2" /\ Waited(x, [procs EXCEPT ![x].pc = "wait1"])
     \/ procs[x].pc = "wait1" /\ Waited(x, [procs EXCEPT ![x].pc = "exit"])
  /\ UNCHANGED <<bytes, line, failed>>

Exit(x) ==
  /\ procs[x].pc = "exit"
  /\ exit(x)
  /\ UNCHANGED <<line, failed>>

\* A call of fork1, pipe, open or exec fails.
CallFails(x) ==
  /\ \/ procs[x].pc \in {"left", "right"}
     \/ procs[x].pc = "runcmd" /\ procs[x].cmd # execcmd(<<>>)
  /\ MayFail
  /\ failed' = TRUE
  /\ exit(x)
  /\ UNCHANGED line

-----------------------------------------------------------------------------
\* A program reads a byte: from the pipe on its standard input, or elsewhere.
ProgRead(x) ==
  /\ procs[x].pc = "program" /\ procs[x].has = 0
  /\ \/ /\ procs[x].fd[0] \in {Console, File} /\ procs[x].in > 0
        /\ procs' = [procs EXCEPT ![x].has = 1, ![x].in = @ - 1]
        /\ UNCHANGED bytes
     \/ \E i \in Pipes : /\ procs[x].fd[0] = ReadEnd(i) /\ bytes[i] > 0
                         /\ bytes' = [bytes EXCEPT ![i] = @ - 1]
                         /\ procs' = [procs EXCEPT ![x].has = 1]
  /\ UNCHANGED <<line, failed>>

\* It writes the byte; a pipe must have room for it.
ProgWrite(x) ==
  /\ procs[x].pc = "program" /\ procs[x].has = 1
  /\ \/ procs[x].fd[1] \in {Console, File} /\ UNCHANGED bytes
     \/ \E i \in Pipes : /\ procs[x].fd[1] = WriteEnd(i)
                         /\ Held(ReadEnd(i)) /\ bytes[i] < PIPESIZE
                         /\ bytes' = [bytes EXCEPT ![i] = @ + 1]
  /\ procs' = [procs EXCEPT ![x].has = 0]
  /\ UNCHANGED <<line, failed>>

\* The end of a file, or of a pipe that nobody can write any more.
AtEof(x) ==
  /\ procs[x].has = 0
  /\ \/ procs[x].fd[0] \in {Console, File} /\ procs[x].in = 0
     \/ \E i \in Pipes : /\ procs[x].fd[0] = ReadEnd(i) /\ bytes[i] = 0
                         /\ ~Held(WriteEnd(i))

\* A write to a pipe that nobody can read any more.
Broken(x) ==
  /\ procs[x].has = 1
  /\ \E i \in Pipes : procs[x].fd[1] = WriteEnd(i) /\ ~Held(ReadEnd(i))

\* The program has to end, or wants to.
ProgEnd(x) ==
  /\ procs[x].pc = "program"
  /\ exit(x)
  /\ UNCHANGED <<line, failed>>

-----------------------------------------------------------------------------
Run(x) ==
  \/ Parse(x) \/ RunExec(x) \/ RunRedir(x) \/ RunList(x) \/ RunRight(x)
  \/ RunBack(x) \/ RunPipe(x) \/ PipeLeft(x) \/ PipeRight(x) \/ PipeClose(x)
  \/ PipeWait(x) \/ Exit(x) \/ ProgRead(x) \/ ProgWrite(x) \/ CallFails(x)

Main == MainFork \/ MainWait \/ MainFail

Next ==
  \/ GetCmd \/ EraseLine \/ (\E t \in Tokens : Type(t))
  \/ Main
  \/ \E x \in Slots : Run(x) \/ ProgEnd(x)

\* Some process that can go on, or a program that has to end, does.  Nothing
\* is assumed of which one it is: programs have finite input.
Progress ==
  \/ Main
  \/ \E x \in Slots : Run(x) \/ ((AtEof(x) \/ Broken(x)) /\ ProgEnd(x))

Spec == Init /\ [][Next]_vars /\ WF_vars(Progress)

-----------------------------------------------------------------------------
\* The parser gives every line that is typed the tree that the grammar gives
\* it, and refuses it if the grammar gives it none.
ParsesGrammar == procs[shell].pc = "prompt" => Agrees(line)

\* A program runs with its three standard descriptors open, with no other
\* one, and with no end of a pipe but the read end as its input and the write
\* end as its output: nothing that keeps a pipe of the shell open.
StdioOnly ==
  \A x \in Slots : procs[x].pc = "program" =>
    /\ \A d \in Fds : procs[x].fd[d] = Closed <=> d > 2
    /\ procs[x].fd[0][1] # "write" /\ procs[x].fd[1][1] # "read"
    /\ procs[x].fd[2] = Console

\* The shell asks for the next line only when all of the last one is done
\* that was not started with &, unless a system call failed.
ForegroundDone ==
  procs[shell].pc = "prompt" /\ ~failed =>
    \A x \in Slots \ {shell} : Live(x) => procs[x].back

\* The shell always comes back to its prompt: no line leaves it waiting for a
\* process that waits for the end of a pipe that somebody still holds.
PromptReturns == procs[shell].pc # "prompt" ~> procs[shell].pc = "prompt"
=============================================================================

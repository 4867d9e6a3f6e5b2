-------------------------------- MODULE Uvm ---------------------------------
(***************************************************************************)
(* Address spaces: kalloc.c, the page tables of vm.c, and what growproc,    *)
(* fork, exec, exit and wait do with them, for processes that have no       *)
(* memory mappings (module Wmap has those).                                 *)
(*                                                                          *)
(* A page table is known by the frame of its directory.  One frame stands   *)
(* for the tables of the kernel part.  Every call of kalloc is a step, and  *)
(* it may fail at any time, since pipes take frames too; what a call frees, *)
(* it frees in one step.  The contents of pages are left out.               *)
(***************************************************************************)
EXTENDS Integers, FiniteSets, FiniteSetsExt

CONSTANTS
  NPROC,                \* slots of the process table; the first is init
  NFRAMES,              \* physical pages
  PGSIZE, NPTENTRIES,   \* bytes in a page, pages a page table covers
  KERNBASE,             \* end of user addresses
  UINT,                 \* unsigned arithmetic is modulo UINT
  Grows, Shrinks,       \* arguments of sbrk: n, and n for sbrk(-n)
  MaxSbrks,             \* bound on the calls of sbrk
  Segments              \* where the segment of a program ends

ASSUME UvmAssumption ==
  /\ NPROC \in Nat \ {0} /\ NFRAMES \in Nat
  /\ PGSIZE \in Nat \ {0} /\ NPTENTRIES \in Nat \ {0}
  /\ KERNBASE \in Nat /\ KERNBASE % PGSIZE = 0 /\ UINT = 2 * KERNBASE
  /\ Grows \subseteq 1..KERNBASE - 1 /\ Shrinks \subseteq 1..KERNBASE - 1
  /\ MaxSbrks \in Nat
  /\ Segments \subseteq 0..KERNBASE

Slots == 1..NPROC
initproc == 1
Frames == 1..NFRAMES
NoFrame == 0

VARIABLES
  free,      \* kmem.freelist
  tbl,       \* the page tables: directory -> [tab, pte]
  state, parent, pgdir, sz, kstack,   \* the fields of struct proc
  cr3,       \* the directory loaded where the process runs, NoFrame if nowhere
  th,        \* the call each process is in, with its locals
  sbrks,     \* calls of sbrk so far
  gone       \* history: processes that gave up their whole image

vars == <<free, tbl, state, parent, pgdir, sz, kstack, cr3, th, sbrks, gone>>
procVars == <<state, parent, pgdir, sz, kstack>>

User == [pc |-> "user", np |-> 0, d |-> NoFrame, mem |-> NoFrame,
         old |-> 0, a |-> 0, end |-> 0]

-----------------------------------------------------------------------------
U(x) == x % UINT
PGROUNDDOWN(a) == a - (a % PGSIZE)
PGROUNDUP(a) == PGROUNDDOWN(a + PGSIZE - 1)
PDX(a) == a \div (PGSIZE * NPTENTRIES)
PagesBelow(n) == {a \in 0..n - 1 : a % PGSIZE = 0}
Kernel == -1     \* the key of the kernel's tables

With(f, x, v) == [y \in DOMAIN f \cup {x} |-> IF y = x THEN v ELSE f[y]]
Without(f, S) == [y \in DOMAIN f \ S |-> f[y]]
Empty == [x \in {} |-> 0]
Image(f) == {f[x] : x \in DOMAIN f}

\* kalloc(): which free frame it returns is immaterial.
kalloc == Min(free)

Present(d) == DOMAIN tbl[d].pte
PagesOf(d, S) == {tbl[d].pte[a].frame : a \in S \cap Present(d)}

\* The frames that deallocuvm(d, from, to) frees, and the table it leaves.
Dealloc(from, to) == {a \in PagesBelow(from) : a >= PGROUNDUP(to)}
deallocuvm(d, from, to) ==
  [tbl EXCEPT ![d].pte = Without(@, Dealloc(from, to))]

\* The frames that freevm(d) frees; setupkvm() may have made none.
freevm(d) ==
  IF d = NoFrame THEN {}
  ELSE {d} \cup Image(tbl[d].tab) \cup PagesOf(d, Present(d))

-----------------------------------------------------------------------------
\* userinit(): one process with one page, which is about to run.
Init ==
  /\ free = Frames \ 1..5
  /\ kstack = [p \in Slots |-> IF p = initproc THEN 1 ELSE NoFrame]
  /\ pgdir = [p \in Slots |-> IF p = initproc THEN 2 ELSE NoFrame]
  /\ tbl = [d \in {2} |-> [tab |-> [g \in {Kernel, 0} |-> IF g = Kernel THEN 3 ELSE 4],
                           pte |-> [a \in {0} |-> [frame |-> 5, user |-> TRUE]]]]
  /\ sz = [p \in Slots |-> IF p = initproc THEN PGSIZE ELSE 0]
  /\ state = [p \in Slots |-> IF p = initproc THEN "LIVE" ELSE "UNUSED"]
  /\ parent = [p \in Slots |-> 0]
  /\ cr3 = [p \in Slots |-> NoFrame]
  /\ th = [p \in Slots |-> User]
  /\ sbrks = 0
  /\ gone = {}

\* p runs, on a page table that has not been freed: nothing is said about
\* what a processor does on one that has.
On(p) == state[p] = "LIVE" /\ cr3[p] \in DOMAIN tbl
InUser(p) == On(p) /\ th[p].pc = "user"

\* The scheduler gives p a processor, for the first time or after yield().
Switch(p) ==
  /\ state[p] = "LIVE" /\ cr3[p] # pgdir[p]
  /\ cr3' = [cr3 EXCEPT ![p] = pgdir[p]]
  /\ UNCHANGED <<free, tbl, procVars, th>>

-----------------------------------------------------------------------------
(* The calls start. *)

\* growproc() with n > 0.
Grow(p, n) ==
  /\ InUser(p) /\ sz[p] + n < KERNBASE
  /\ th' = [th EXCEPT ![p] = [User EXCEPT !.pc = "grow", !.d = pgdir[p], !.old = sz[p],
                                          !.a = PGROUNDUP(sz[p]), !.end = sz[p] + n]]
  /\ UNCHANGED <<free, tbl, procVars, cr3>>

\* growproc(-n).
Shrink(p, n) ==
  LET new == U(sz[p] - n) IN
  /\ InUser(p) /\ new # 0
  /\ IF new >= sz[p] THEN UNCHANGED <<free, tbl, sz>>
     ELSE /\ free' = free \cup PagesOf(pgdir[p], Dealloc(sz[p], new))
          /\ tbl' = deallocuvm(pgdir[p], sz[p], new)
          /\ sz' = [sz EXCEPT ![p] = new]
  /\ cr3' = [cr3 EXCEPT ![p] = pgdir[p]]
  /\ UNCHANGED <<state, parent, pgdir, kstack, th, gone>>

\* growproc(-sz) takes the new size 0 for an error: the pages are freed, the
\* size stays and cr3 is not loaded.  The process may run on, with a child's
\* table or with translations that its processor has not dropped.
ShrinkToNothing(p) ==
  /\ InUser(p) /\ sz[p] \in Shrinks
  /\ free' = free \cup PagesOf(pgdir[p], Dealloc(sz[p], 0))
  /\ tbl' = deallocuvm(pgdir[p], sz[p], 0)
  /\ gone' = gone \cup {p}
  /\ UNCHANGED <<procVars, cr3, th>>

\* fork() up to the kernel stack of allocproc().
Fork(p) ==
  LET unused == {q \in Slots : state[q] = "UNUSED"} IN
  /\ InUser(p) /\ unused # {} /\ free # {}
  /\ free' = free \ {kalloc}
  /\ state' = [state EXCEPT ![Min(unused)] = "EMBRYO"]
  /\ kstack' = [kstack EXCEPT ![Min(unused)] = kalloc]
  /\ th' = [th EXCEPT ![p] = [User EXCEPT !.pc = "kvm", !.np = Min(unused)]]
  /\ UNCHANGED <<tbl, parent, pgdir, sz, cr3>>

\* exec() of a program with one segment, which ends at end.
ExecStart(p, end) ==
  /\ InUser(p)
  /\ th' = [th EXCEPT ![p] = [User EXCEPT !.pc = "kvm", !.end = end]]
  /\ UNCHANGED <<free, tbl, procVars, cr3>>

-----------------------------------------------------------------------------
(* Allocation, one kalloc() at a time. *)

Forking(p) == th[p].np # 0

\* setupkvm(): the directory ...
KvmDirectory(p) ==
  /\ On(p) /\ th[p].pc = "kvm" /\ th[p].d = NoFrame /\ free # {}
  /\ free' = free \ {kalloc}
  /\ tbl' = With(tbl, kalloc, [tab |-> Empty, pte |-> Empty])
  /\ th' = [th EXCEPT ![p].d = kalloc]
  /\ UNCHANGED <<procVars, cr3>>

\* ... and the kernel's tables; then copyuvm() or exec()'s segment.
KvmTables(p) ==
  /\ On(p) /\ th[p].pc = "kvm" /\ th[p].d # NoFrame /\ free # {}
  /\ free' = free \ {kalloc}
  /\ tbl' = [tbl EXCEPT ![th[p].d].tab = With(@, Kernel, kalloc)]
  /\ th' = [th EXCEPT ![p].pc = IF Forking(p) THEN "copy" ELSE "text",
                      ![p].end = IF Forking(p) THEN sz[p] ELSE @]
  /\ UNCHANGED <<procVars, cr3>>

\* The loop of copyuvm() or of allocuvm() takes a frame ...
Loops == {"copy", "grow", "text", "stack"}
Looping(p) == On(p) /\ th[p].pc \in Loops /\ th[p].a < th[p].end /\ th[p].end < KERNBASE

\* copyuvm() panics: a page of the parent is not present.
Panics(p) == Looping(p) /\ Forking(p) /\ th[p].a \notin Present(pgdir[p])
InLoop(p) == Looping(p) /\ ~Panics(p)
NoTable(p) == PDX(th[p].a) \notin DOMAIN tbl[th[p].d].tab

TakeFrame(p) ==
  /\ InLoop(p) /\ th[p].mem = NoFrame /\ free # {}
  /\ free' = free \ {kalloc}
  /\ th' = [th EXCEPT ![p].mem = kalloc]
  /\ UNCHANGED <<tbl, procVars, cr3>>

\* ... a table for it, if walkpgdir() finds none ...
TakeTable(p) ==
  /\ InLoop(p) /\ th[p].mem # NoFrame /\ NoTable(p) /\ free # {}
  /\ free' = free \ {kalloc}
  /\ tbl' = [tbl EXCEPT ![th[p].d].tab = With(@, PDX(th[p].a), kalloc)]
  /\ UNCHANGED <<procVars, cr3, th>>

\* The permission that the loop maps the page with.
Permissions(p) ==
  IF Forking(p) THEN tbl[pgdir[p]].pte[th[p].a].user ELSE TRUE

\* ... and maps it with mappages().
MapPage(p) ==
  /\ InLoop(p) /\ th[p].mem # NoFrame /\ ~NoTable(p)
  /\ th[p].a \notin Present(th[p].d)              \* else panic("remap")
  /\ tbl' = [tbl EXCEPT ![th[p].d].pte =
               With(@, th[p].a, [frame |-> th[p].mem, user |-> Permissions(p)])]
  /\ th' = [th EXCEPT ![p] = [@ EXCEPT !.mem = NoFrame, !.a = @ + PGSIZE]]
  /\ UNCHANGED <<free, procVars, cr3>>

\* A call of kalloc() is next.
Allocating(p) ==
  \/ On(p) /\ th[p].pc = "kvm"
  \/ InLoop(p) /\ (th[p].mem = NoFrame \/ NoTable(p))

-----------------------------------------------------------------------------
(* The calls end. *)

\* fork() or exec() gives up its new page table.
Abandon(p) ==
  /\ free' = free \cup freevm(th[p].d) \cup ({th[p].mem} \ {NoFrame})
                  \cup (IF Forking(p) THEN {kstack[th[p].np]} ELSE {})
  /\ tbl' = Without(tbl, {th[p].d})
  /\ IF Forking(p)
       THEN /\ kstack' = [kstack EXCEPT ![th[p].np] = NoFrame]
            /\ state' = [state EXCEPT ![th[p].np] = "UNUSED"]
       ELSE UNCHANGED <<kstack, state>>
  /\ th' = [th EXCEPT ![p] = User]
  /\ UNCHANGED <<parent, pgdir, sz, cr3>>

\* kalloc() fails in fork() or exec().
NoMemory(p) == Allocating(p) /\ th[p].pc # "grow" /\ Abandon(p)

\* Variants: allocuvm() whose cleanup forgets the frame at hand, and one that
\* leaves the pages it has added.
GrowFailsLosesFrame(p) ==
  /\ Allocating(p) /\ th[p].pc = "grow"
  /\ free' = free \cup PagesOf(th[p].d, Dealloc(th[p].end, th[p].old))
  /\ tbl' = deallocuvm(th[p].d, th[p].end, th[p].old)
  /\ th' = [th EXCEPT ![p] = User]
  /\ UNCHANGED <<procVars, cr3>>
GrowFailsKeepsPages(p) ==
  /\ Allocating(p) /\ th[p].pc = "grow"
  /\ free' = free \cup ({th[p].mem} \ {NoFrame})
  /\ th' = [th EXCEPT ![p] = User]
  /\ UNCHANGED <<tbl, procVars, cr3>>

\* kalloc() fails in growproc(): allocuvm() takes its pages back.
GrowFails(p) ==
  /\ Allocating(p) /\ th[p].pc = "grow"
  /\ free' = free \cup PagesOf(th[p].d, Dealloc(th[p].end, th[p].old))
                  \cup ({th[p].mem} \ {NoFrame})
  /\ tbl' = deallocuvm(th[p].d, th[p].end, th[p].old)
  /\ th' = [th EXCEPT ![p] = User]
  /\ UNCHANGED <<procVars, cr3>>

LoopDone(p, pc) == On(p) /\ th[p].pc = pc /\ th[p].a >= th[p].end

\* growproc() has its memory.
Grown(p) ==
  /\ LoopDone(p, "grow")
  /\ sz' = [sz EXCEPT ![p] = th[p].end]
  /\ cr3' = [cr3 EXCEPT ![p] = pgdir[p]]
  /\ th' = [th EXCEPT ![p] = User]
  /\ UNCHANGED <<free, tbl, state, parent, pgdir, kstack>>

\* fork() makes the child and lets it run.
Forked(p) ==
  LET q == th[p].np IN
  /\ LoopDone(p, "copy")
  /\ pgdir' = [pgdir EXCEPT ![q] = th[p].d]
  /\ sz' = [sz EXCEPT ![q] = sz[p]]
  /\ parent' = [parent EXCEPT ![q] = p]
  /\ state' = [state EXCEPT ![q] = "LIVE"]
  /\ th' = [th EXCEPT ![p] = [User EXCEPT !.pc = "forked", !.np = q]]
  /\ UNCHANGED <<free, tbl, kstack, cr3>>

\* fork() returns, after lcr3(V2P(np->pgdir)).
ForkReturn(p) ==
  /\ On(p) /\ th[p].pc = "forked"
  /\ cr3' = [cr3 EXCEPT ![p] = pgdir[th[p].np]]
  /\ th' = [th EXCEPT ![p] = User]
  /\ UNCHANGED <<free, tbl, procVars>>

\* exec(): the segment does not fit, is empty, or fails the tests of
\* alignment and of loaduvm(), which come after its allocation.
TextBad(p) ==
  /\ On(p) /\ th[p].pc = "text"
  /\ th[p].end >= KERNBASE \/ LoopDone(p, "text")
  /\ Abandon(p)

\* exec(): two pages for the stack follow the segment.
TextLoaded(p) ==
  LET at == PGROUNDUP(th[p].end) IN
  /\ LoopDone(p, "text") /\ th[p].end \notin {0, KERNBASE}
  /\ th' = [th EXCEPT ![p] = [@ EXCEPT !.pc = "stack", !.old = at, !.a = at,
                                       !.end = at + 2 * PGSIZE]]
  /\ UNCHANGED <<free, tbl, procVars, cr3>>

\* exec(): the stack does not fit, or copyout() runs through it into the
\* page below, which clearpteu() has made inaccessible.
StackBad(p) ==
  /\ On(p) /\ th[p].pc = "stack"
  /\ th[p].end >= KERNBASE \/ LoopDone(p, "stack")
  /\ Abandon(p)

Guard(p) == th[p].end - 2 * PGSIZE

\* exec() commits to the new image and frees the old one.
ExecCommit(p) ==
  /\ LoopDone(p, "stack") /\ th[p].end < KERNBASE
  /\ free' = free \cup freevm(pgdir[p])
  /\ tbl' = Without([tbl EXCEPT ![th[p].d].pte[Guard(p)].user = FALSE], {pgdir[p]})
  /\ pgdir' = [pgdir EXCEPT ![p] = th[p].d]
  /\ sz' = [sz EXCEPT ![p] = th[p].end]
  /\ cr3' = [cr3 EXCEPT ![p] = th[p].d]
  /\ th' = [th EXCEPT ![p] = User]
  /\ gone' = gone \ {p}
  /\ UNCHANGED <<state, parent, kstack>>

\* exit(): the image stays until wait() frees it.
Exit(p) ==
  /\ InUser(p) /\ p # initproc
  /\ state' = [state EXCEPT ![p] = "ZOMBIE"]
  /\ parent' = [q \in Slots |-> IF parent[q] = p THEN initproc ELSE parent[q]]
  /\ cr3' = [cr3 EXCEPT ![p] = NoFrame]
  /\ UNCHANGED <<free, tbl, pgdir, sz, kstack, th>>

\* wait() finds an exited child.
Wait(p, q) ==
  /\ InUser(p) /\ state[q] = "ZOMBIE" /\ parent[q] = p
  /\ free' = free \cup freevm(pgdir[q]) \cup {kstack[q]}
  /\ tbl' = Without(tbl, {pgdir[q]})
  /\ state' = [state EXCEPT ![q] = "UNUSED"]
  /\ parent' = [parent EXCEPT ![q] = 0]
  /\ kstack' = [kstack EXCEPT ![q] = NoFrame]
  /\ gone' = gone \ {q}
  /\ UNCHANGED <<pgdir, sz, cr3, th>>

\* sys_sbrk().
sbrk(p) ==
  /\ sbrks < MaxSbrks /\ sbrks' = sbrks + 1
  /\ \/ (\E n \in Grows : Grow(p, n)) /\ UNCHANGED gone
     \/ \E n \in Shrinks : Shrink(p, n)
     \/ ShrinkToNothing(p)

OtherStep(p) ==
  /\ \/ /\ \/ Switch(p) \/ Fork(p) \/ Exit(p)
           \/ \E end \in Segments : ExecStart(p, end)
           \/ KvmDirectory(p) \/ KvmTables(p)
           \/ TakeFrame(p) \/ TakeTable(p) \/ MapPage(p)
           \/ NoMemory(p) \/ GrowFails(p) \/ Grown(p) \/ Forked(p) \/ ForkReturn(p)
           \/ TextBad(p) \/ TextLoaded(p) \/ StackBad(p)
        /\ UNCHANGED gone
     \/ \E q \in Slots : Wait(p, q)
     \/ ExecCommit(p)
  /\ UNCHANGED sbrks

\* After panic() the machine stands still.
Halted == \E p \in Slots : Panics(p)

Next ==
  \/ ~Halted /\ \E p \in Slots : sbrk(p) \/ OtherStep(p)
  \/ Halted /\ UNCHANGED vars

Spec == Init /\ [][Next]_vars

-----------------------------------------------------------------------------

Living == {p \in Slots : state[p] \in {"LIVE", "ZOMBIE"}}

\* Every frame is free or has exactly one use, whichever allocations of
\* growproc, fork and exec fail: as a kernel stack, a directory, a table, a
\* page, or the frame a loop is about to map.  Every directory belongs to one
\* process, or to the fork or exec that builds it, and is there as long as it
\* does.
FramesAccounted ==
  LET owned == {<<"proc", p, pgdir[p]>> : p \in Living}
      built == {<<"call", p, th[p].d>> :
                  p \in {q \in Slots : th[q].pc \in {"kvm", "copy", "text", "stack"}
                                         /\ th[q].d # NoFrame}}
      stacks == {<<"stack", p, kstack[p]>> : p \in {q \in Slots : kstack[q] # NoFrame}}
      dirs == {<<"dir", d, d>> : d \in DOMAIN tbl}
      tables == UNION {{<<d, g, tbl[d].tab[g]>> : g \in DOMAIN tbl[d].tab} : d \in DOMAIN tbl}
      pages == UNION {{<<d, KERNBASE + a, tbl[d].pte[a].frame>> : a \in Present(d)} : d \in DOMAIN tbl}
      taken == {<<"mem", p, th[p].mem>> : p \in {q \in Slots : th[q].mem # NoFrame}}
      n == Cardinality(stacks) + Cardinality(dirs) + Cardinality(tables)
             + Cardinality(pages) + Cardinality(taken)
      used == {u[3] : u \in stacks} \cup {u[3] : u \in dirs} \cup {u[3] : u \in tables}
                \cup {u[3] : u \in pages} \cup {u[3] : u \in taken}
  IN /\ used = Frames \ free
     /\ n = Cardinality(used)
     /\ DOMAIN tbl = {u[3] : u \in owned \cup built}
     /\ Cardinality(DOMAIN tbl) = Cardinality(owned) + Cardinality(built)

\* The pages of a process are exactly those below its size, while it grows
\* those that the loop has passed, and after a growth that failed those it
\* had before: so copyuvm finds every page and allocuvm none.  When fork is
\* about to let the child run, the child's pages are its parent's, with the
\* same permissions: the guard page below the stack too.  The one exception is
\* a process that has called sbrk(-sz), up to its next exec: it has no page
\* beyond its size, and its fork panics instead of making an incomplete child.
ImageComplete ==
  /\ \A p \in Living :
       LET below == PagesBelow(IF th[p].pc = "grow" THEN th[p].a ELSE sz[p])
       IN /\ Present(pgdir[p]) \subseteq below
          /\ p \notin gone => Present(pgdir[p]) = below
  /\ \A p \in Slots : th[p].pc = "copy" /\ th[p].a >= th[p].end =>
       /\ Present(th[p].d) = PagesBelow(sz[p])
       /\ Present(th[p].d) = Present(pgdir[p])
       /\ \A a \in Present(th[p].d) :
            tbl[th[p].d].pte[a].user = tbl[pgdir[p]].pte[a].user
  /\ \A p \in Slots : Panics(p) => p \in gone

=============================================================================

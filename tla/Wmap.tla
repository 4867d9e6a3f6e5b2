-------------------------------- MODULE Wmap --------------------------------
(***************************************************************************)
(* The memory mappings of one process: wmap, wunmap and wremap of wmap.c,   *)
(* the page-fault handler that loads pages lazily, and what exec, exit and  *)
(* wait do to the mappings and to the page table.                           *)
(*                                                                          *)
(* A process has one thread, so its calls do not interleave; the loops      *)
(* that search for a free region, move pages and unmap at exit are one      *)
(* action per iteration.  Flags, descriptors, page contents and the count   *)
(* of loaded pages are left out: they decide what a page holds and what     *)
(* getwmapinfo reports, not where a page is.                                *)
(***************************************************************************)
EXTENDS Integers, Sequences, FiniteSets

CONSTANTS
  PGSIZE, NPTENTRIES,   \* bytes in a page, pages a page table covers
  WMAPBASE, KERNBASE,   \* mappings belong in WMAPBASE .. KERNBASE - 1
  UINT,                 \* unsigned arithmetic is modulo UINT
  MAX_WMMAP_INFO,       \* capacity of proc->mappings
  Frames,               \* physical pages, numbered in address order
  Fixed,                \* <<addr, length>> requests with MAP_FIXED
  Lengths,              \* lengths requested without MAP_FIXED
  NewSizes,             \* sizes requested of wremap
  OldSizes              \* old sizes passed to wremap besides the right one

ASSUME WmapAssumption ==
  /\ PGSIZE \in Nat \ {0} /\ NPTENTRIES \in Nat \ {0}
  /\ WMAPBASE \in Nat /\ WMAPBASE % PGSIZE = 0 /\ WMAPBASE >= PGSIZE
  /\ KERNBASE \in Nat /\ KERNBASE % PGSIZE = 0 /\ WMAPBASE < KERNBASE
  /\ UINT = 2 * KERNBASE
  /\ MAX_WMMAP_INFO \in Nat
  /\ Frames \subseteq Nat /\ IsFiniteSet(Frames)
  /\ Fixed \subseteq Nat \X (1..KERNBASE)
  /\ Lengths \subseteq 1..KERNBASE
  /\ NewSizes \subseteq 1..KERNBASE
  /\ OldSizes \subseteq 0..KERNBASE

VARIABLES
  mappings,   \* proc->mappings[0 .. num_mappings - 1]
  mem,        \* page table, second-level tables and the free list of kalloc
  pc,         \* "user", or the loop the process runs in the kernel
  call,       \* the locals of that loop
  wild,       \* history: a move has used an entry read through a null pointer
  lost,       \* history: a move has dropped a page that mappages did not map
  split,      \* history: a move has passed mappages an address inside a page
  untested,   \* history: a mapping got a length that no test compared with
              \* KERNBASE and the next mapping
  misjudged   \* history: wremap was given an old size that is not the length
              \* of the mapping, or freed or moved part of a page

vars == <<mappings, mem, pc, call, wild, lost, split, untested, misjudged>>

-----------------------------------------------------------------------------
U(x) == x % UINT
PGROUNDDOWN(a) == a - (a % PGSIZE)
PGROUNDUP(a) == PGROUNDDOWN(U(a + PGSIZE - 1))
Region(a) == a \div (PGSIZE * NPTENTRIES)
Addresses == {a \in 0..UINT - 1 : a % PGSIZE = 0}
Pages == {a \in WMAPBASE..KERNBASE - 1 : a % PGSIZE = 0}

\* Some page of S is the kernel's, or may be one of the program's image, which
\* ends below the last page before the WMAP area.
Outside(S) == \E a \in S : a < WMAPBASE - PGSIZE \/ a >= KERNBASE

Mapping(a, len) == [addr |-> a, length |-> len]
End(m) == U(m.addr + m.length)

\* The four tests by which wmap and wremap call two regions overlapping.
Overlaps(a, len, m) ==
  LET last == U(a + len - 1)
  IN \/ m.addr <= a /\ a < End(m)
     \/ m.addr <= last /\ last < End(m)
     \/ a <= m.addr /\ m.addr < last
     \/ a <= End(m) /\ End(m) < last

Rearrangements(S) ==
  {f \in [S -> S] : /\ \A j, k \in S : f[j] = f[k] => j = k
                    /\ \A j \in S : \E k \in S : f[k] = j}

\* selectionSort(): the same mappings in ascending order of address.
Sorted(s) ==
  {t \in {[k \in DOMAIN s |-> s[pi[k]]] : pi \in Rearrangements(DOMAIN s)} :
     \A j, k \in DOMAIN s : j < k => t[j].addr <= t[k].addr}

\* The shift loop of wunmap.
Without(s, i) == [k \in 1..Len(s) - 1 |-> IF k < i THEN s[k] ELSE s[k + 1]]

At(a) == {k \in DOMAIN mappings : mappings[k].addr = a}

\* Where the scan of wunmap(a) stops; 0 if it finds no mapping.
Found(a) ==
  IF At(a) = {} THEN {0} ELSE {k \in At(a) : \A j \in At(a) : k <= j}

-----------------------------------------------------------------------------
(* Physical memory and the page table. *)

kalloc(m) == CHOOSE f \in m.free : TRUE

\* kfree() of the frames behind the pages of S, and *pte = 0 for each.
FreePages(m, S) ==
  [m EXCEPT !.pte = [a \in DOMAIN m.pte \ S |-> m.pte[a]],
            !.free = @ \cup {m.pte[a] : a \in DOMAIN m.pte \cap S}]

\* One iteration of mappages(): walkpgdir allocates a missing table, which
\* fails when kalloc does; later iterations are then not run.
MapPage(r, a, f) ==
  LET with(m) == [m EXCEPT !.pte = [b \in DOMAIN m.pte \cup {a} |->
                                      IF b = a THEN f ELSE m.pte[b]]]
      table == [r.mem EXCEPT !.tab = [g \in DOMAIN @ \cup {Region(a)} |->
                                IF g = Region(a) THEN kalloc(r.mem) ELSE @[g]],
                             !.free = @ \ {kalloc(r.mem)}]
  IN CASE ~r.ok -> r
       [] r.ok /\ Region(a) \in DOMAIN r.mem.tab ->
            [ok |-> TRUE, mem |-> with(r.mem)]
       [] r.ok /\ Region(a) \notin DOMAIN r.mem.tab /\ r.mem.free # {} ->
            [ok |-> TRUE, mem |-> with(table)]
       [] OTHER -> [ok |-> FALSE, mem |-> r.mem]

\* The pages that mappages(va, PGSIZE) visits: two when va is not aligned.
Visited(va) == {PGROUNDDOWN(va), PGROUNDDOWN(U(va + PGSIZE - 1))}

mappages(m, va, f) ==
  LET one == MapPage([ok |-> TRUE, mem |-> m], PGROUNDDOWN(va), f)
  IN IF va % PGSIZE = 0
     THEN one
     ELSE MapPage(one, PGROUNDDOWN(U(va + PGSIZE - 1)), f + 1)

-----------------------------------------------------------------------------
NoCall == [slot |-> 0, addr |-> 0, size |-> 0, oldaddr |-> 0, left |-> 0,
           i |-> 0]

\* A new process: no mappings, and no page table yet for the WMAP area.
NoPages(frames) == [pte |-> [a \in {} |-> 0], tab |-> [g \in {} |-> 0],
                    free |-> frames]

Init ==
  /\ mappings = <<>>
  /\ mem = NoPages(Frames)
  /\ pc = "user"
  /\ call = NoCall
  /\ wild = FALSE /\ lost = FALSE /\ split = FALSE
  /\ untested = FALSE /\ misjudged = FALSE

\* wmap() with MAP_FIXED that succeeds: insert and sort.  Only the start of
\* the region is compared with the bounds of the WMAP area.
WmapFixed(a, len) ==
  /\ pc = "user" /\ Len(mappings) < MAX_WMMAP_INFO
  /\ WMAPBASE <= a /\ a < KERNBASE /\ a % PGSIZE = 0
  /\ \A k \in DOMAIN mappings : ~Overlaps(a, len, mappings[k])
  /\ mappings' \in Sorted(Append(mappings, Mapping(a, len)))
  /\ untested' = (untested \/ a + len > KERNBASE)
  /\ UNCHANGED <<mem, pc, call, misjudged>>

\* wmap() without MAP_FIXED starts its first-fit search.
WmapSearch(len) ==
  /\ pc = "user" /\ Len(mappings) < MAX_WMMAP_INFO
  /\ pc' = "search"
  /\ call' = [NoCall EXCEPT !.addr = WMAPBASE, !.size = len]
  /\ UNCHANGED <<mappings, mem>>

\* One iteration of the first-fit loop of wmap or wremap.
SearchStep ==
  /\ pc = "search" /\ call.i < Len(mappings)
  /\ LET m == mappings[call.i + 1]
     IN call' = [call EXCEPT !.i = @ + 1,
                             !.addr = IF Overlaps(@, call.size, m)
                                      THEN PGROUNDUP(End(m)) ELSE @]
  /\ UNCHANGED <<mappings, mem, pc>>

InBounds == U(call.addr + call.size - 1) < KERNBASE

\* The search found no room below KERNBASE: the call fails.
SearchFail ==
  /\ pc = "search" /\ call.i >= Len(mappings) /\ ~InBounds
  /\ pc' = "user" /\ call' = NoCall
  /\ UNCHANGED <<mappings, mem>>

\* The end of wmap(): insert the new mapping and sort.
WmapInsert ==
  /\ pc = "search" /\ call.i >= Len(mappings) /\ InBounds
  /\ call.slot = 0
  /\ mappings' \in Sorted(Append(mappings, Mapping(call.addr, call.size)))
  /\ pc' = "user" /\ call' = NoCall
  /\ UNCHANGED mem

-----------------------------------------------------------------------------
\* What wunmap() of entry i leaves in the mapping table and in memory.
UnmappedTable(i) == IF i = 0 THEN mappings ELSE Without(mappings, i)

\* Variant of UnmappedMem that leaves a partial last page.
UnmappedMemWhole(i) ==
  IF i = 0 THEN mem
  ELSE LET m == mappings[i]
       IN FreePages(mem, {b \in DOMAIN mem.pte :
                            m.addr <= b /\ b < PGROUNDDOWN(m.addr + m.length)})

UnmappedMem(i) ==
  IF i = 0 THEN mem
  ELSE LET m == mappings[i]
       IN FreePages(mem, {b \in DOMAIN mem.pte :
                            m.addr <= b /\ b < PGROUNDUP(m.addr + m.length)})

\* The pages that the loop of wunmap visits for entry i.
UnmapPages(i) ==
  {b \in Addresses : i # 0 /\ mappings[i].addr <= b
                    /\ b < PGROUNDUP(mappings[i].addr + mappings[i].length)}

\* wunmap() of a mapping that exists.
Wunmap(a) ==
  /\ pc = "user" /\ a % PGSIZE = 0 /\ At(a) # {}
  /\ \E i \in Found(a) :
       /\ ~Outside(UnmapPages(i))
       /\ mappings' = UnmappedTable(i) /\ mem' = UnmappedMem(i)
  /\ UNCHANGED <<pc, call>>

\* The loop of a shrinking wremap() frees the page that holds byte
\* oldaddr + temp - PGSIZE for temp = oldsize, oldsize - PGSIZE, ... > newsize.
ShrinkPages(k, old, new) ==
  LET temps == {t \in new + 1..old : (old - t) % PGSIZE = 0}
      gone(t) == PGROUNDDOWN(U(mappings[k].addr + t - PGSIZE))
  IN {gone(t) : t \in temps}

\* wremap() to a size below the old size it is given, which may be more than
\* the length of the mapping.
WremapShrink(k, old, new) ==
  /\ pc = "user" /\ new < old
  /\ ~Outside(ShrinkPages(k, old, new))
  /\ mappings' = [mappings EXCEPT ![k].length = new]
  /\ mem' = FreePages(mem, ShrinkPages(k, old, new))
  /\ untested' = (untested \/ new > mappings[k].length)
  /\ misjudged' = (misjudged \/ old # mappings[k].length \/ old % PGSIZE # 0)
  /\ UNCHANGED <<pc, call>>

\* A shrinking wremap() that frees pages of the kernel: see Stop.
WremapStop(k, old, new) ==
  /\ pc = "user" /\ new < old
  /\ Outside(ShrinkPages(k, old, new))
  /\ pc' = "stopped"
  /\ misjudged' = (misjudged \/ old # mappings[k].length \/ old % PGSIZE # 0)
  /\ UNCHANGED <<mappings, mem, call, untested>>

\* wremap() to a larger size that fits before the next mapping.
WremapGrow(k, old, new) ==
  /\ pc = "user" /\ new > old
  /\ LET end == U(mappings[k].addr + new - 1)
     IN /\ end < KERNBASE
        /\ k < Len(mappings) => end < mappings[k + 1].addr
  /\ mappings' = [mappings EXCEPT ![k].length = new]
  /\ misjudged' = (misjudged \/ old # mappings[k].length)
  /\ UNCHANGED <<mem, pc, call, untested>>

\* wremap() to a larger size that does not fit, with MREMAP_MAYMOVE: search.
WremapSearch(k, old, new) ==
  /\ pc = "user" /\ new > old /\ k < Len(mappings)
  /\ LET end == U(mappings[k].addr + new - 1)
     IN end < KERNBASE /\ end >= mappings[k + 1].addr
  /\ pc' = "search"
  /\ call' = [slot |-> k, addr |-> WMAPBASE, size |-> new,
              oldaddr |-> mappings[k].addr, left |-> old, i |-> 0]
  /\ misjudged' = (misjudged \/ old # mappings[k].length \/ old % PGSIZE # 0)
  /\ UNCHANGED <<mappings, mem, untested>>

\* wremap() found a region: the new mapping takes the slot of the old one.
WremapReplace ==
  /\ pc = "search" /\ call.i >= Len(mappings) /\ InBounds
  /\ call.slot > 0
  /\ mappings' = [mappings EXCEPT ![call.slot].addr = call.addr,
                                  ![call.slot].length = call.size]
  /\ pc' = "move"
  /\ UNCHANGED <<mem, call>>

OldPage == PGROUNDDOWN(U(call.oldaddr + call.left - PGSIZE))
NewAddr == U(call.addr + call.left - PGSIZE)

\* mappages() finds the pages it visits absent, else it panics with "remap".
MayMap == ~Outside(Visited(NewAddr)) /\ Visited(NewAddr) \cap DOMAIN mem.pte = {}

\* Variant of MoveFrame without *pte = 0.
MoveFrameKeepsOld(f) ==
  /\ MayMap
  /\ mem' = mappages(mem, NewAddr, f).mem

\* mappages() in the move loop, whose result is ignored, then *pte = 0.
MoveFrame(f) ==
  /\ MayMap
  /\ mem' = LET m == mappages(mem, NewAddr, f).mem
            IN [m EXCEPT !.pte = [a \in DOMAIN @ \ {OldPage} |-> @[a]]]

\* One iteration of the move loop.  Without a page table for the old page,
\* walkpgdir returns 0 and the loop reads the word at address 0 of the
\* process as the entry: it may look absent or name any frame.
MoveStep ==
  /\ pc = "move" /\ call.left > 0
  /\ \/ OldPage \in DOMAIN mem.pte /\ MoveFrame(mem.pte[OldPage])
     \/ Region(OldPage) \in DOMAIN mem.tab /\ OldPage \notin DOMAIN mem.pte
        /\ UNCHANGED mem
     \/ Region(OldPage) \notin DOMAIN mem.tab
        /\ (UNCHANGED mem \/ \E f \in Frames : MoveFrame(f))
  /\ call' = [call EXCEPT !.left = @ - PGSIZE]
  /\ UNCHANGED <<mappings, pc>>

\* Variant of MoveDone without the sort.
MoveDoneUnsorted ==
  /\ pc = "move" /\ call.left <= 0
  /\ \E i \in Found(call.oldaddr) :
       mappings' = UnmappedTable(i) /\ mem' = UnmappedMem(i)
  /\ pc' = "user" /\ call' = NoCall

\* The end of the move: wunmap(oldaddr), then sort.
MoveDone ==
  /\ pc = "move" /\ call.left <= 0
  /\ \E i \in Found(call.oldaddr) :
       mappings' \in Sorted(UnmappedTable(i)) /\ mem' = UnmappedMem(i)
  /\ pc' = "user" /\ call' = NoCall

-----------------------------------------------------------------------------
Covering(a) ==
  {k \in DOMAIN mappings : mappings[k].addr <= a /\ a < End(mappings[k])}

\* A page fault that handle_pagefault serves, unless mappages finds no memory
\* for a page table: then the frame is freed and the process exits.
FaultLoad(a) ==
  /\ pc = "user" /\ a \notin DOMAIN mem.pte
  /\ Covering(a) # {} /\ mem.free # {}
  /\ LET f == kalloc(mem)
         r == mappages([mem EXCEPT !.free = @ \ {f}], a, f)
     IN /\ mem' = IF r.ok THEN r.mem ELSE [r.mem EXCEPT !.free = @ \cup {f}]
        /\ pc' = IF r.ok THEN "user" ELSE "exit"
  /\ UNCHANGED <<mappings, call>>

\* A page fault outside the mappings, or with no frame left: exit().
FaultExit(a) ==
  /\ pc = "user" /\ a \notin DOMAIN mem.pte
  /\ Covering(a) = {} \/ mem.free = {}
  /\ pc' = "exit"
  /\ UNCHANGED <<mappings, mem, call>>

\* The free list after freevm().
Freed == mem.free \cup {mem.pte[a] : a \in DOMAIN mem.pte}
                  \cup {mem.tab[g] : g \in DOMAIN mem.tab}

\* exec() that succeeds: a fresh page table, the mapping table as it was.
Exec ==
  /\ pc = "user"
  /\ mem' = NoPages(Freed)
  /\ UNCHANGED <<mappings, pc, call>>

\* exit() is called.
Exit ==
  /\ pc = "user"
  /\ pc' = "exit"
  /\ UNCHANGED <<mappings, mem, call>>

\* One iteration of exit's loop over the mappings.
ExitUnmap ==
  /\ pc = "exit" /\ call.i < Len(mappings)
  /\ \E i \in Found(mappings[call.i + 1].addr) :
       /\ ~Outside(UnmapPages(i))
       /\ mappings' = UnmappedTable(i) /\ mem' = UnmappedMem(i)
  /\ call' = [call EXCEPT !.i = @ + 1]
  /\ UNCHANGED pc

ExitZombie ==
  /\ pc = "exit" /\ call.i >= Len(mappings)
  /\ pc' = "zombie"
  /\ UNCHANGED <<mappings, mem, call>>

\* wait() frees the page table and allocproc() reuses the slot, whose
\* mapping table starts empty.
Reap ==
  /\ pc = "zombie"
  /\ mappings' = <<>>
  /\ mem' = NoPages(Freed)
  /\ pc' = "user" /\ call' = NoCall

\* wremap() with any sizes: neither has to be a multiple of PGSIZE, and the
\* old one is not compared with the length of the mapping.
Wremap ==
  \E k \in DOMAIN mappings :
    \E old \in {mappings[k].length} \cup OldSizes, new \in NewSizes :
      \/ WremapShrink(k, old, new)
      \/ WremapStop(k, old, new)
      \/ WremapGrow(k, old, new)
      \/ WremapSearch(k, old, new)

\* The kernel panics with "remap" or "kfree", or changes an entry outside the
\* WMAP area.  What it does then is not modelled.
Stop ==
  /\ \/ /\ pc = "user"
        /\ \E k \in DOMAIN mappings :
             \E i \in Found(mappings[k].addr) : Outside(UnmapPages(i))
     \/ /\ pc = "user" /\ mem.free # {}
        /\ \E a \in Addresses : Outside({a}) /\ Covering(a) # {}
     \/ /\ pc = "move" /\ call.left > 0 /\ ~MayMap
        /\ Region(OldPage) \in DOMAIN mem.tab => OldPage \in DOMAIN mem.pte
     \/ /\ pc = "exit" /\ call.i < Len(mappings)
        /\ \E i \in Found(mappings[call.i + 1].addr) : Outside(UnmapPages(i))
  /\ pc' = "stopped"
  /\ UNCHANGED <<mappings, mem, call>>

Stopped == pc = "stopped" /\ UNCHANGED <<mappings, mem, pc, call>>

\* This step uses an entry that walkpgdir's null result was read as.
NullRead ==
  /\ pc = "move" /\ call.left > 0
  /\ Region(OldPage) \notin DOMAIN mem.tab /\ mem' # mem

\* This step clears the entry of a page that mappages found no table for.
PageDropped ==
  /\ pc = "move" /\ call.left > 0 /\ OldPage \in DOMAIN mem.pte
  /\ ~mappages(mem, NewAddr, mem.pte[OldPage]).ok

\* This step maps two pages, the second to the frame behind the one that moves.
PageSplit ==
  /\ pc = "move" /\ call.left > 0
  /\ call.left % PGSIZE # 0 /\ mem' # mem

\* The steps that take no size from the program.
Sizeless ==
  \/ \E len \in Lengths : WmapSearch(len)
  \/ SearchStep
  \/ SearchFail
  \/ WmapInsert
  \/ \E k \in DOMAIN mappings : Wunmap(mappings[k].addr)
  \/ WremapReplace
  \/ MoveStep
  \/ MoveDone
  \/ \E a \in Pages : FaultLoad(a)
  \/ \E a \in Pages : FaultExit(a)
  \/ Exec
  \/ Exit
  \/ ExitUnmap
  \/ ExitZombie
  \/ Reap
  \/ Stop
  \/ Stopped

Next ==
  /\ \/ \E r \in Fixed : WmapFixed(r[1], r[2])
     \/ Wremap
     \/ Sizeless /\ UNCHANGED <<untested, misjudged>>
  /\ wild' = (wild \/ NullRead)
  /\ lost' = (lost \/ PageDropped)
  /\ split' = (split \/ PageSplit)

Spec == Init /\ [][Next]_vars

-----------------------------------------------------------------------------
\* The table never exceeds MAX_WMMAP_INFO entries, every mapping is page
\* aligned, and until a mapping gets a length that no test has seen, every
\* mapping lies in the WMAP area, and between system calls the mappings are in
\* order and no two of them share a page.  So it is although wmap and wremap
\* compare byte ranges, in one pass, wremap overwrites a slot before it sorts
\* and takes the old size on trust: only a MAP_FIXED region that ends past
\* KERNBASE, and a "shrink" to more than the mapping had, do harm.
TableOK ==
  /\ Len(mappings) <= MAX_WMMAP_INFO
  /\ \A k \in DOMAIN mappings : mappings[k].addr % PGSIZE = 0
  /\ ~untested =>
       /\ \A k \in DOMAIN mappings :
            /\ WMAPBASE <= mappings[k].addr
            /\ mappings[k].addr + mappings[k].length <= KERNBASE
       /\ pc \in {"user", "exit", "zombie"} => \A j, k \in DOMAIN mappings :
            j < k => PGROUNDUP(mappings[j].addr + mappings[j].length)
                       <= mappings[k].addr

\* Between system calls every page present in the page table belongs to a
\* mapping: faults, unmapping, shrinking and moving leave no page behind, and
\* the pages that a move is about to map are absent, so mappages does not panic
\* with "remap".  It holds until a mapping gets an untested length, until a
\* move uses an entry read through a null pointer, and until wremap is given a
\* wrong old size or frees or moves part of a page: then pages do stay behind.
PagesInMappings == ~wild /\ ~untested /\ ~misjudged =>
  /\ pc = "user" => \A a \in DOMAIN mem.pte : Covering(a) # {}
  /\ pc = "move" /\ call.left > 0 => Visited(NewAddr) \cap DOMAIN mem.pte = {}
  /\ pc # "stopped"

\* Every frame is free, or is one page, or is one page table: none is used
\* twice or free while in use, and none is lost, except by a move that ignores
\* that mappages found no memory for a page table.  Wrong old sizes and
\* overlapping mappings do not change that.  It holds until a move uses an
\* entry read through a null pointer, or moves a mapping whose old size is not
\* a number of whole pages, for which mappages enters a second frame.
FramesAccounted == ~wild /\ ~split =>
  /\ \A a, b \in DOMAIN mem.pte : mem.pte[a] = mem.pte[b] => a = b
  /\ \A g, h \in DOMAIN mem.tab : mem.tab[g] = mem.tab[h] => g = h
  /\ LET pages == {mem.pte[a] : a \in DOMAIN mem.pte}
         tables == {mem.tab[g] : g \in DOMAIN mem.tab}
     IN /\ pages \cap tables = {}
        /\ (pages \cup tables) \cap mem.free = {}
        /\ pages \cup tables \cup mem.free \subseteq Frames
        /\ ~lost => pages \cup tables \cup mem.free = Frames

=============================================================================

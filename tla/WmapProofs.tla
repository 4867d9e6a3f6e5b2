----------------------------- MODULE WmapProofs -----------------------------
(***************************************************************************)
(* Proofs about Wmap, for every size of the pages, the area and the table,  *)
(* and every set of frames and requests.                                    *)
(***************************************************************************)
EXTENDS Wmap, NatLemmas, TLAPS

Entries == [addr : Nat, length : 1..KERNBASE]

Calls == [slot : Nat, addr : Nat, size : Nat, oldaddr : Nat, left : Int,
          i : Nat]

TypeOK ==
  /\ mappings \in Seq(Entries)
  /\ pc \in {"user", "search", "move", "exit", "zombie", "stopped"}
  /\ call \in Calls
  /\ wild \in BOOLEAN /\ lost \in BOOLEAN

Aligned(a) == a % PGSIZE = 0

\* The loops work on whole pages until wremap() is given a part of one.
CallInv == pc \in {"search", "move"} =>
  /\ call.size \in 1..KERNBASE /\ Aligned(call.addr)
  /\ ~misjudged => Aligned(call.left)

-----------------------------------------------------------------------------
\* A memory in which no frame is used twice, and every page has a table.
IsMem(m) == {"pte", "tab", "free"} \subseteq DOMAIN m

FrameOK(m) ==
  /\ IsMem(m) /\ m.free \subseteq Frames
  /\ \A a \in DOMAIN m.pte : m.pte[a] \in Frames /\ m.pte[a] \notin m.free
  /\ \A g \in DOMAIN m.tab : m.tab[g] \in Frames /\ m.tab[g] \notin m.free
  /\ \A a, b \in DOMAIN m.pte : m.pte[a] = m.pte[b] => a = b
  /\ \A g, h \in DOMAIN m.tab : m.tab[g] = m.tab[h] => g = h
  /\ \A a \in DOMAIN m.pte, g \in DOMAIN m.tab : m.pte[a] # m.tab[g]
  /\ \A a \in DOMAIN m.pte : Region(a) \in DOMAIN m.tab

Used(m, f) ==
  \/ f \in m.free
  \/ \E a \in DOMAIN m.pte : m.pte[a] = f
  \/ \E g \in DOMAIN m.tab : m.tab[g] = f

FrameInv == ~wild /\ ~split => /\ FrameOK(mem)
                               /\ ~lost => \A f \in Frames : Used(mem, f)

-----------------------------------------------------------------------------
\* A mapping in the WMAP area, and two that share no byte.
Fits(m) ==
  WMAPBASE <= m.addr /\ Aligned(m.addr) /\ m.addr + m.length <= KERNBASE
Before(m, n) == m.addr + m.length <= n.addr
Apart(m, n) == Before(m, n) \/ Before(n, m)

TableInv ==
  /\ Len(mappings) <= MAX_WMMAP_INFO
  /\ \A k \in DOMAIN mappings : Fits(mappings[k])
  /\ pc \notin {"move", "stopped"} => \A j, k \in DOMAIN mappings :
                      j < k => Before(mappings[j], mappings[k])

\* What holds of the table whatever the lengths.
AllAligned(s) == \A k \in DOMAIN s : Aligned(s[k].addr)

BoundInv ==
  /\ Len(mappings) <= MAX_WMMAP_INFO /\ AllAligned(mappings)
  /\ pc = "search" /\ call.slot = 0 => Len(mappings) < MAX_WMMAP_INFO

\* The region that a search is at, which is free of the mappings up to i.
Wanted == Mapping(call.addr, call.size)

SearchInv == pc = "search" =>
  /\ WMAPBASE <= call.addr /\ call.addr <= KERNBASE
  /\ \A k \in DOMAIN mappings : k <= call.i => Apart(Wanted, mappings[k])
  /\ call.slot = 0 => Len(mappings) < MAX_WMMAP_INFO
  /\ call.slot # 0 => /\ call.slot \in DOMAIN mappings
                      /\ mappings[call.slot].addr = call.oldaddr
                      /\ ~misjudged => mappings[call.slot].length = call.left
                      /\ call.left < call.size

\* What is left of the old region of a mapping that moves.
Left == Mapping(call.oldaddr, call.left)

MoveInv == pc = "move" =>
  /\ call.slot \in DOMAIN mappings /\ mappings[call.slot] = Wanted
  /\ \A j, k \in DOMAIN mappings : j # k => Apart(mappings[j], mappings[k])
  /\ \A k \in DOMAIN mappings : mappings[k].addr # call.oldaddr
  /\ ~misjudged => /\ call.oldaddr + call.left <= KERNBASE
                   /\ call.left > 0 => \A k \in DOMAIN mappings :
                                         Apart(Left, mappings[k])
  /\ call.left < call.size
  /\ WMAPBASE <= call.oldaddr /\ Aligned(call.oldaddr)

\* Pages belong to mappings; during a move, to others, to the moved part of
\* the new region, or to the rest of the old one.
Within(m, a) == m.addr <= a /\ a < m.addr + m.length
Held(s, a) == \E k \in DOMAIN s : Within(s[k], a)
Moving(a) ==
  \/ \E k \in DOMAIN mappings : /\ Within(mappings[k], a)
                                /\ k = call.slot => call.addr + call.left <= a
  \/ call.oldaddr <= a /\ a < call.oldaddr + call.left

PageInv == ~wild /\ ~untested /\ ~misjudged =>
  /\ ~split /\ pc # "stopped"
  /\ DOMAIN mem.pte \subseteq Pages
  /\ pc \in {"user", "search"} => \A a \in DOMAIN mem.pte : Held(mappings, a)
  /\ pc = "move" => \A a \in DOMAIN mem.pte : Moving(a)

-----------------------------------------------------------------------------
\* Sums and differences of aligned numbers.
LEMMA AlignedSum ==
  ASSUME NEW a \in Int, NEW b \in Int, Aligned(a), Aligned(b)
  PROVE  a + b \in Int /\ a - b \in Int /\ Aligned(a + b) /\ Aligned(a - b)
<1>0. PGSIZE \in Nat \ {0}
  BY WmapAssumption, Zenon
<1> DEFINE q == a \div PGSIZE
           r == b \div PGSIZE
<1>1. q \in Int /\ r \in Int /\ a = PGSIZE * q + 0 /\ b = PGSIZE * r + 0
  BY <1>0, DivMod, Zenon DEF Aligned
<1> HIDE DEF q, r
<1>2. a + b = PGSIZE * (q + r) + 0 /\ a - b = PGSIZE * (q - r) + 0
  BY <1>0, <1>1
<1>3. /\ a + b \in Int /\ a - b \in Int /\ q + r \in Int /\ q - r \in Int
      /\ 0 \in 0..PGSIZE - 1
  BY <1>0, <1>1
<1> QED
  BY <1>0, <1>2, <1>3, ModUnique, Zenon DEF Aligned

\* The page itself is aligned, and so are the bounds of the area.
LEMMA AlignedFacts ==
  /\ PGSIZE \in Nat /\ PGSIZE > 0 /\ Aligned(PGSIZE) /\ Aligned(0)
  /\ WMAPBASE \in Nat /\ Aligned(WMAPBASE) /\ WMAPBASE >= PGSIZE
  /\ KERNBASE \in Nat /\ Aligned(KERNBASE) /\ WMAPBASE < KERNBASE
  /\ UINT = 2 * KERNBASE /\ UINT \in Nat \ {0} /\ Aligned(UINT)
<1>1. /\ PGSIZE \in Nat /\ PGSIZE > 0 /\ PGSIZE \in Nat \ {0}
      /\ WMAPBASE \in Nat /\ Aligned(WMAPBASE) /\ WMAPBASE >= PGSIZE
      /\ KERNBASE \in Nat /\ Aligned(KERNBASE) /\ WMAPBASE < KERNBASE
      /\ UINT = 2 * KERNBASE /\ UINT \in Nat \ {0}
  BY WmapAssumption DEF Aligned
<1>2. Aligned(0)
  <2>1. 0 \in 0..PGSIZE - 1
    BY <1>1
  <2> QED
    BY <1>1, <2>1, ModBelow, Zenon DEF Aligned
<1>3. Aligned(PGSIZE)
  <2>1. PGSIZE \in Int /\ PGSIZE - PGSIZE \in 0..PGSIZE - 1 /\ PGSIZE - PGSIZE = 0
    BY <1>1
  <2> QED
    BY <1>1, <2>1, ModOver, Zenon DEF Aligned
<1>4. Aligned(UINT)
  <2>1. KERNBASE \in Int /\ UINT = KERNBASE + KERNBASE
    BY <1>1
  <2> QED
    BY <1>1, <2>1, AlignedSum, Zenon
<1> QED
  BY <1>1, <1>2, <1>3, <1>4, Zenon

\* Aligned numbers are a page apart.
LEMMA AlignedStep ==
  ASSUME NEW a \in Int, NEW b \in Int, Aligned(a), Aligned(b), a < b
  PROVE  a + PGSIZE <= b
<1>1. PGSIZE \in Nat \ {0}
  BY WmapAssumption, Zenon
<1>2. ~(b < a + PGSIZE)
  BY <1>1, ModDistinct, Zenon DEF Aligned
<1> QED
  BY <1>1, <1>2

\* The page of an address.
LEMMA RoundDown ==
  ASSUME NEW a \in Int
  PROVE  /\ PGROUNDDOWN(a) \in Int /\ Aligned(PGROUNDDOWN(a))
         /\ PGROUNDDOWN(a) <= a /\ a < PGROUNDDOWN(a) + PGSIZE
         /\ Aligned(a) => PGROUNDDOWN(a) = a
<1>0. PGSIZE \in Nat \ {0}
  BY WmapAssumption, Zenon
<1> DEFINE q == a \div PGSIZE
           r == a % PGSIZE
<1>1. q \in Int /\ r \in 0..PGSIZE - 1 /\ a = PGSIZE * q + r
  BY <1>0, DivMod, Zenon
<1>2. PGROUNDDOWN(a) = a - r /\ (Aligned(a) => r = 0)
  BY Zenon DEF PGROUNDDOWN, Aligned
<1> HIDE DEF q, r
<1>3. /\ a - r \in Int /\ a - r = PGSIZE * q + 0 /\ 0 \in 0..PGSIZE - 1
      /\ a - r <= a /\ a < (a - r) + PGSIZE /\ (r = 0 => a - r = a)
  BY <1>0, <1>1
<1>4. Aligned(a - r)
  BY <1>0, <1>1, <1>3, ModUnique, Zenon DEF Aligned
<1> QED
  BY <1>2, <1>3, <1>4, Zenon

\* Unsigned arithmetic on addresses below UINT.
LEMMA NoWrap ==
  ASSUME NEW a \in Int, 0 <= a, a < UINT
  PROVE  U(a) = a
<1>1. UINT \in Nat \ {0}
  BY AlignedFacts, Zenon
<1>2. a \in 0..UINT - 1
  BY <1>1
<1> QED
  BY <1>1, <1>2, ModBelow, Zenon DEF U

\* U keeps numbers aligned.
LEMMA AlignedU ==
  ASSUME NEW a \in Int, Aligned(a)
  PROVE  U(a) \in Int /\ Aligned(U(a))
<1>1. /\ PGSIZE \in Nat \ {0} /\ UINT \in Nat \ {0} /\ UINT % PGSIZE = 0
  BY AlignedFacts, WmapAssumption, Zenon DEF Aligned
<1>2. (a % UINT) % PGSIZE = a % PGSIZE
  BY <1>1, ModMod, Zenon
<1>3. a % UINT \in Int
  BY <1>1, DivMod
<1> QED
  BY <1>2, <1>3, Zenon DEF U, Aligned

\* The first page boundary from e on.
LEMMA RoundUp ==
  ASSUME NEW e \in 0..KERNBASE
  PROVE  /\ PGROUNDUP(e) \in Nat /\ Aligned(PGROUNDUP(e)) /\ e <= PGROUNDUP(e)
         /\ PGROUNDUP(e) <= KERNBASE
         /\ \A b \in Int : Aligned(b) /\ e <= b => PGROUNDUP(e) <= b
<1>1. /\ PGSIZE \in Nat /\ PGSIZE > 0 /\ KERNBASE \in Nat /\ Aligned(KERNBASE)
      /\ PGSIZE <= KERNBASE /\ UINT = 2 * KERNBASE
  BY AlignedFacts
<1> DEFINE s == e + PGSIZE - 1
           x == PGROUNDDOWN(s)
<1>2. s \in Int /\ 0 <= s /\ s < UINT
  BY <1>1
<1>3. PGROUNDUP(e) = x
  BY <1>2, NoWrap, Zenon DEF PGROUNDUP
<1>4. x \in Int /\ Aligned(x) /\ x <= s /\ s < x + PGSIZE
  BY <1>2, RoundDown, Zenon
<1>5. x \in Nat /\ e <= x
  BY <1>1, <1>4
<1>6. ASSUME NEW b \in Int, Aligned(b), e <= b PROVE x <= b
  <2>1. ASSUME b < x PROVE FALSE
    <3>1. b + PGSIZE <= x
      BY <1>4, <1>6, <2>1, AlignedStep, Zenon
    <3> QED
      BY <1>1, <1>4, <1>6, <3>1
  <2> QED
    BY <1>4, <2>1
<1>7. x <= KERNBASE
  BY <1>1, <1>6
<1> QED
  BY <1>3, <1>4, <1>5, <1>6, <1>7, Zenon

-----------------------------------------------------------------------------
\* The fields of a memory that is changed.
LEMMA MemPte ==
  ASSUME NEW m, IsMem(m), NEW u
  PROVE  LET n == [m EXCEPT !.pte = u]
         IN IsMem(n) /\ n.pte = u /\ n.tab = m.tab /\ n.free = m.free
BY Zenon DEF IsMem

LEMMA MemTab ==
  ASSUME NEW m, IsMem(m), NEW u
  PROVE  LET n == [m EXCEPT !.tab = u]
         IN IsMem(n) /\ n.pte = m.pte /\ n.tab = u /\ n.free = m.free
BY Zenon DEF IsMem

LEMMA MemFree ==
  ASSUME NEW m, IsMem(m), NEW u
  PROVE  LET n == [m EXCEPT !.free = u]
         IN IsMem(n) /\ n.pte = m.pte /\ n.tab = m.tab /\ n.free = u
BY Zenon DEF IsMem

\* Freeing pages frees their frames.
LEMMA FreePagesIs ==
  ASSUME NEW m, IsMem(m), NEW S
  PROVE  LET n == FreePages(m, S)
         IN /\ IsMem(n) /\ n.tab = m.tab
            /\ n.pte = [a \in DOMAIN m.pte \ S |-> m.pte[a]]
            /\ n.free = m.free \cup {m.pte[a] : a \in DOMAIN m.pte \cap S}
<1> DEFINE x == [a \in DOMAIN m.pte \ S |-> m.pte[a]]
           z == m.free \cup {m.pte[a] : a \in DOMAIN m.pte \cap S}
           w == [m EXCEPT !.pte = x]
           n == FreePages(m, S)
<1>1. IsMem(w) /\ w.pte = x /\ w.tab = m.tab /\ w.free = m.free
  BY MemPte, Zenon
<1>2. n = [w EXCEPT !.free = z]
  BY <1>1, Zenon DEF FreePages
<1> HIDE DEF w, n, x, z
<1>3. IsMem(n) /\ n.pte = x /\ n.tab = m.tab /\ n.free = z
  BY <1>1, <1>2, MemFree, Zenon
<1> QED
  BY <1>3, Zenon DEF n, x, z

LEMMA FreePagesOK ==
  ASSUME NEW m, FrameOK(m), NEW S
  PROVE  /\ FrameOK(FreePages(m, S))
         /\ DOMAIN FreePages(m, S).pte = DOMAIN m.pte \ S
         /\ \A f : Used(m, f) => Used(FreePages(m, S), f)
<1> DEFINE n == FreePages(m, S)
<1>1. /\ IsMem(n) /\ n.tab = m.tab
      /\ n.pte = [a \in DOMAIN m.pte \ S |-> m.pte[a]]
      /\ n.free = m.free \cup {m.pte[a] : a \in DOMAIN m.pte \cap S}
  BY FreePagesIs, Zenon DEF FrameOK
<1> HIDE DEF n
<1>2. /\ DOMAIN n.pte = DOMAIN m.pte \ S
      /\ \A a \in DOMAIN n.pte : n.pte[a] = m.pte[a]
      /\ \A a \in DOMAIN m.pte : a \in S => m.pte[a] \in n.free
      /\ \A f \in m.free : f \in n.free
      /\ \A f \in n.free : \/ f \in m.free
                           \/ \E a \in DOMAIN m.pte : a \in S /\ f = m.pte[a]
  BY <1>1, Zenon
<1>3. n.tab = m.tab
  BY <1>1, Zenon
<1>4. n.free \subseteq Frames
  BY <1>2 DEF FrameOK
<1>5. \A a \in DOMAIN n.pte : n.pte[a] \in Frames /\ n.pte[a] \notin n.free
  BY <1>2 DEF FrameOK
<1>6. \A g \in DOMAIN n.tab : n.tab[g] \in Frames /\ n.tab[g] \notin n.free
  BY <1>2, <1>3 DEF FrameOK
<1>7. /\ \A a, b \in DOMAIN n.pte : n.pte[a] = n.pte[b] => a = b
      /\ \A g, h \in DOMAIN n.tab : n.tab[g] = n.tab[h] => g = h
      /\ \A a \in DOMAIN n.pte, g \in DOMAIN n.tab : n.pte[a] # n.tab[g]
      /\ \A a \in DOMAIN n.pte : Region(a) \in DOMAIN n.tab
  BY <1>2, <1>3 DEF FrameOK
<1>8. FrameOK(n)
  BY <1>1, <1>4, <1>5, <1>6, <1>7, Zenon DEF FrameOK
<1>9. \A f : Used(m, f) => Used(n, f)
  BY <1>2, <1>3, Zenon DEF Used
<1> QED
  BY <1>2, <1>8, <1>9, Zenon DEF n

\* A memory without pages.
LEMMA NoPagesOK ==
  ASSUME NEW F \in SUBSET Frames
  PROVE  /\ FrameOK(NoPages(F)) /\ DOMAIN NoPages(F).pte = {}
         /\ \A f \in F : Used(NoPages(F), f)
<1> DEFINE n == NoPages(F)
<1>1. IsMem(n) /\ n.free = F /\ DOMAIN n.pte = {} /\ DOMAIN n.tab = {}
  BY Zenon DEF NoPages, IsMem
<1> HIDE DEF n
<1>3. FrameOK(n)
  BY <1>1, Zenon DEF FrameOK
<1>4. \A f \in F : Used(n, f)
  BY <1>1, Zenon DEF Used
<1> QED
  BY <1>1, <1>3, <1>4, Zenon DEF n

\* freevm() finds all frames that are in use.
LEMMA FreedOK ==
  ASSUME FrameOK(mem)
  PROVE  /\ FrameOK(NoPages(Freed)) /\ DOMAIN NoPages(Freed).pte = {}
         /\ \A f : Used(mem, f) => Used(NoPages(Freed), f)
<1>1. Freed \in SUBSET Frames
  BY Zenon DEF Freed, FrameOK
<1>2. \A f : Used(mem, f) => f \in Freed
  BY Zenon DEF Freed, Used
<1> QED
  BY <1>1, <1>2, NoPagesOK, Zenon

-----------------------------------------------------------------------------
\* Memory n is m after a page a of frame f, with a new table t or with none.
Tabled(m, n, a) ==
  \/ n.tab = m.tab /\ n.free = m.free /\ Region(a) \in DOMAIN m.tab
  \/ /\ Region(a) \notin DOMAIN m.tab
     /\ \E t \in m.free :
          /\ n.free = m.free \ {t}
          /\ DOMAIN n.tab = DOMAIN m.tab \cup {Region(a)}
          /\ n.tab[Region(a)] = t
          /\ \A g \in DOMAIN m.tab : n.tab[g] = m.tab[g]

Mapped(m, n, a, f) ==
  /\ IsMem(n) /\ Tabled(m, n, a)
  /\ DOMAIN n.pte = DOMAIN m.pte \cup {a}
  /\ n.pte[a] = f /\ \A b \in DOMAIN m.pte \ {a} : n.pte[b] = m.pte[b]

\* What mappages() does for one page.
LEMMA MapPageIs ==
  ASSUME NEW m, IsMem(m), NEW a, NEW f
  PROVE  LET r == MapPage([ok |-> TRUE, mem |-> m], a, f)
         IN /\ r.ok \in BOOLEAN /\ (~r.ok => r.mem = m)
            /\ r.ok => Mapped(m, r.mem, a, f)
<1> DEFINE s == [ok |-> TRUE, mem |-> m]
           x == [b \in DOMAIN m.pte \cup {a} |-> IF b = a THEN f ELSE m.pte[b]]
           t == kalloc(m)
           y == [g \in DOMAIN m.tab \cup {Region(a)} |->
                   IF g = Region(a) THEN t ELSE m.tab[g]]
           z == m.free \ {t}
           r == MapPage(s, a, f)
<1>0. s.ok = TRUE /\ s.mem = m
  BY Zenon
<1>1. CASE Region(a) \in DOMAIN m.tab
  <2> DEFINE w == [m EXCEPT !.pte = x]
  <2>1. r = [ok |-> TRUE, mem |-> w]
    BY <1>0, <1>1, Zenon DEF MapPage
  <2>2. IsMem(w) /\ w.pte = x /\ w.tab = m.tab /\ w.free = m.free
    BY MemPte, Zenon
  <2> HIDE DEF w, r
  <2>3. r.ok = TRUE /\ r.mem = w
    BY <2>1, Zenon
  <2>4. Mapped(m, w, a, f)
    BY <1>1, <2>2, Zenon DEF Mapped, Tabled
  <2> QED
    BY <2>3, <2>4, Zenon DEF r
<1>2. CASE Region(a) \notin DOMAIN m.tab /\ m.free # {}
  <2>1. t \in m.free
    BY <1>2, Zenon DEF kalloc
  <2> DEFINE with(k) == [k EXCEPT !.pte = [b \in DOMAIN k.pte \cup {a} |->
                                             IF b = a THEN f ELSE k.pte[b]]]
             v == [m EXCEPT !.tab = y]
             w == [v EXCEPT !.free = z]
             n == [w EXCEPT !.pte = x]
  <2>2. IsMem(v) /\ v.pte = m.pte /\ v.tab = y /\ v.free = m.free
    BY MemTab, Zenon
  <2>3. r = [ok |-> TRUE, mem |-> with([s.mem EXCEPT
               !.tab = [g \in DOMAIN @ \cup {Region(a)} |->
                          IF g = Region(a) THEN kalloc(s.mem) ELSE @[g]],
               !.free = @ \ {kalloc(s.mem)}])]
    <3> HIDE DEF s
    <3> QED
      BY <1>0, <1>2, Zenon DEF MapPage
  <2>4. r = [ok |-> TRUE, mem |-> with([v EXCEPT !.free = @ \ {t}])]
    <3> HIDE DEF s, r
    <3> QED
      BY <1>0, <2>3, Zenon
  <2> HIDE DEF v, y
  <2>5. r = [ok |-> TRUE, mem |-> with(w)]
    BY <2>2, <2>4, Zenon
  <2>6. IsMem(w) /\ w.pte = m.pte /\ w.tab = y /\ w.free = z
    <3> HIDE DEF z
    <3> QED
      BY <2>2, MemFree, Zenon
  <2> HIDE DEF w
  <2>7. IsMem(n) /\ n.pte = x /\ n.tab = y /\ n.free = z
    <3> HIDE DEF x, z
    <3> QED
      BY <2>6, MemPte, Zenon
  <2>8. r.ok = TRUE /\ r.mem = n
    <3>1. with(w) = n
      BY <2>6, Zenon
    <3> HIDE DEF n, r, with
    <3> QED
      BY <2>5, <3>1, Zenon
  <2> HIDE DEF n, r
  <2>9. Tabled(m, n, a)
    BY <1>2, <2>1, <2>7, Zenon DEF Tabled, y
  <2>10. Mapped(m, n, a, f)
    BY <2>7, <2>9, Zenon DEF Mapped
  <2> QED
    BY <2>8, <2>10, Zenon DEF r
<1>3. CASE Region(a) \notin DOMAIN m.tab /\ m.free = {}
  <2>1. r = [ok |-> FALSE, mem |-> m]
    BY <1>0, <1>3, Zenon DEF MapPage
  <2> HIDE DEF r
  <2>2. r.ok = FALSE /\ r.mem = m
    BY <2>1, Zenon
  <2> QED
    BY <2>2, Zenon DEF r
<1> QED
  BY <1>1, <1>2, <1>3, Zenon

\* Memory k is n without the pages of X.
Trimmed(n, k, X) ==
  /\ IsMem(k) /\ k.tab = n.tab /\ k.free = n.free
  /\ DOMAIN k.pte = DOMAIN n.pte \ X
  /\ \A b \in DOMAIN k.pte : k.pte[b] = n.pte[b]

\* A frame that is not in use, or only by pages that are cut, becomes page a.
LEMMA PlaceOK ==
  ASSUME NEW m, FrameOK(m), NEW n, NEW k, NEW a, NEW f \in Frames, NEW X,
         Mapped(m, n, a, f), Trimmed(n, k, X),
         a \notin DOMAIN m.pte, a \notin X, f \notin m.free,
         \A g \in DOMAIN m.tab : m.tab[g] # f,
         \A b \in DOMAIN m.pte : m.pte[b] = f <=> b \in X
  PROVE  /\ FrameOK(k) /\ Used(k, f)
         /\ \A h : Used(m, h) => Used(k, h)
<1>1. DOMAIN k.pte = (DOMAIN m.pte \cup {a}) \ X
  BY Zenon DEF Mapped, Trimmed
<1>2. \A b \in DOMAIN k.pte :
        \/ b = a /\ k.pte[b] = f
        \/ b \in DOMAIN m.pte /\ b \notin X /\ k.pte[b] = m.pte[b]
  BY <1>1, Zenon DEF Mapped, Trimmed
<1>3. k.tab = n.tab /\ k.free = n.free /\ Tabled(m, n, a) /\ IsMem(k)
  BY Zenon DEF Mapped, Trimmed
<1>4. /\ k.free \subseteq m.free
      /\ \A g \in DOMAIN k.tab :
           \/ g \in DOMAIN m.tab /\ k.tab[g] = m.tab[g]
           \/ /\ g = Region(a) /\ g \notin DOMAIN m.tab
              /\ k.tab[g] \in m.free /\ k.tab[g] \notin k.free
  BY <1>3, Zenon DEF Tabled
<1>5. k.free \subseteq Frames
  BY <1>4, Zenon DEF FrameOK
<1>6. \A b \in DOMAIN k.pte : k.pte[b] \in Frames /\ k.pte[b] \notin k.free
  BY <1>2, <1>4, Zenon DEF FrameOK
<1>7. \A g \in DOMAIN k.tab : k.tab[g] \in Frames /\ k.tab[g] \notin k.free
  BY <1>4, Zenon DEF FrameOK
<1>8. \A b, c \in DOMAIN k.pte : k.pte[b] = k.pte[c] => b = c
  BY <1>2, Zenon DEF FrameOK
<1>9. \A g, h \in DOMAIN k.tab : k.tab[g] = k.tab[h] => g = h
  BY <1>4 DEF FrameOK
<1>10. \A b \in DOMAIN k.pte, g \in DOMAIN k.tab : k.pte[b] # k.tab[g]
  BY <1>2, <1>4 DEF FrameOK
<1>11. FrameOK(k)
  <2>1. Region(a) \in DOMAIN k.tab /\ \A g \in DOMAIN m.tab : g \in DOMAIN k.tab
    BY <1>3, Zenon DEF Tabled
  <2>2. \A b \in DOMAIN k.pte : Region(b) \in DOMAIN k.tab
    BY <1>2, <2>1, Zenon DEF FrameOK
  <2> QED
    BY <1>3, <1>5, <1>6, <1>7, <1>8, <1>9, <1>10, <2>2, Zenon DEF FrameOK
<1>12. Used(k, f)
  <2>1. a \in DOMAIN k.pte /\ k.pte[a] = f
    BY <1>1, <1>2, Zenon
  <2> QED
    BY <2>1, Zenon DEF Used
<1>13. ASSUME NEW h, h \in m.free PROVE Used(k, h)
  BY <1>3, <1>13, Zenon DEF Used, Tabled
<1>14. ASSUME NEW b \in DOMAIN m.pte PROVE Used(k, m.pte[b])
  <2>1. CASE b \in X
    <3>1. m.pte[b] = f
      BY <2>1, Zenon
    <3> QED
      BY <1>12, <3>1, Zenon
  <2>2. CASE b \notin X
    <3>1. b \in DOMAIN k.pte /\ k.pte[b] = m.pte[b]
      BY <1>1, <1>2, <2>2, Zenon
    <3> QED
      BY <3>1, Zenon DEF Used
  <2> QED
    BY <2>1, <2>2, Zenon
<1>15. ASSUME NEW g \in DOMAIN m.tab PROVE Used(k, m.tab[g])
  <2>1. g \in DOMAIN k.tab /\ k.tab[g] = m.tab[g]
    BY <1>3, Zenon DEF Tabled
  <2> QED
    BY <2>1, Zenon DEF Used
<1>16. \A h : Used(m, h) => Used(k, h)
  <2> SUFFICES ASSUME NEW h, Used(m, h) PROVE Used(k, h)
    BY Zenon
  <2>1. \/ h \in m.free
        \/ \E b \in DOMAIN m.pte : m.pte[b] = h
        \/ \E g \in DOMAIN m.tab : m.tab[g] = h
    BY Zenon DEF Used
  <2> QED
    BY <1>13, <1>14, <1>15, <2>1, Zenon
<1> QED
  BY <1>11, <1>12, <1>16, Zenon

\* mappages() of a page that begins at va.
LEMMA MappagesIs ==
  ASSUME NEW m, IsMem(m), NEW va \in Int, Aligned(va), NEW f
  PROVE  LET r == mappages(m, va, f)
         IN /\ r.ok \in BOOLEAN /\ (~r.ok => r.mem = m)
            /\ r.ok => Mapped(m, r.mem, va, f)
<1>1. PGROUNDDOWN(va) = va
  BY RoundDown, Zenon
<1> DEFINE r == mappages(m, va, f)
<1>2. r = MapPage([ok |-> TRUE, mem |-> m], va, f)
  BY <1>1, Zenon DEF mappages, Aligned
<1> HIDE DEF r
<1>3. /\ r.ok \in BOOLEAN /\ (~r.ok => r.mem = m)
      /\ r.ok => Mapped(m, r.mem, va, f)
  BY <1>2, MapPageIs
<1> QED
  BY <1>3, Zenon DEF r

\* Cutting pages keeps the rest in order.
LEMMA TrimmedOK ==
  ASSUME NEW m, FrameOK(m), NEW k, NEW X, Trimmed(m, k, X)
  PROVE  FrameOK(k)
<1>1. /\ IsMem(k) /\ k.tab = m.tab /\ k.free = m.free
      /\ \A b \in DOMAIN k.pte : b \in DOMAIN m.pte /\ k.pte[b] = m.pte[b]
  BY Zenon DEF Trimmed
<1> QED
  BY <1>1 DEF FrameOK

\* A page fault takes a frame, or leaves memory as it was.
LEMMA FaultFrames ==
  ASSUME FrameOK(mem), NEW a \in Pages, FaultLoad(a)
  PROVE  /\ FrameOK(mem') /\ \A f : Used(mem, f) => Used(mem', f)
         /\ DOMAIN mem'.pte \subseteq DOMAIN mem.pte \cup {a}
<1> DEFINE f == kalloc(mem)
           z == mem.free \ {f}
           m == [mem EXCEPT !.free = z]
           r == mappages(m, a, f)
<1>1. /\ mem' = (IF r.ok THEN r.mem ELSE [r.mem EXCEPT !.free = @ \cup {f}])
      /\ a \notin DOMAIN mem.pte /\ mem.free # {}
  BY Zenon DEF FaultLoad
<1>2. f \in mem.free /\ f \in Frames
  BY <1>1, Zenon DEF kalloc, FrameOK
<1>3. IsMem(m) /\ m.pte = mem.pte /\ m.tab = mem.tab /\ m.free = z
  <2> HIDE DEF z
  <2> QED
    BY MemFree, Zenon DEF FrameOK
<1>4. a \in Int /\ Aligned(a)
  BY AlignedFacts DEF Pages, Aligned
<1>5. /\ r.ok \in BOOLEAN /\ (~r.ok => r.mem = m)
      /\ r.ok => Mapped(m, r.mem, a, f)
  <2> HIDE DEF m, f
  <2> QED
    BY <1>3, <1>4, MappagesIs, Zenon
<1> HIDE DEF f, m, r
<1>6. FrameOK(m)
  BY <1>3, Zenon DEF FrameOK
<1>7. CASE r.ok
  <2>1. mem' = r.mem /\ Mapped(m, mem', a, f)
    BY <1>1, <1>5, <1>7, Zenon
  <2>2. Trimmed(mem', mem', {})
    BY <2>1, Zenon DEF Mapped, Trimmed
  <2>3. /\ f \notin m.free
        /\ \A g \in DOMAIN m.tab : m.tab[g] # f
        /\ \A b \in DOMAIN m.pte : m.pte[b] = f <=> b \in {}
    BY <1>2, <1>3 DEF FrameOK
  <2>4. a \notin DOMAIN m.pte /\ a \notin {}
    BY <1>1, <1>3, Zenon
  <2>5. /\ FrameOK(mem') /\ Used(mem', f)
        /\ \A h : Used(m, h) => Used(mem', h)
    BY <1>2, <1>6, <2>1, <2>2, <2>3, <2>4, PlaceOK
  <2>6. \A h : Used(mem, h) => h = f \/ Used(m, h)
    BY <1>3, Zenon DEF Used
  <2>7. DOMAIN mem'.pte = DOMAIN mem.pte \cup {a}
    BY <1>3, <2>1, Zenon DEF Mapped
  <2> QED
    BY <2>5, <2>6, <2>7, Zenon
<1>8. CASE ~r.ok
  <2> DEFINE v == m.free \cup {f}
  <2>1. mem' = [m EXCEPT !.free = v]
    BY <1>1, <1>5, <1>8, Zenon
  <2>2. v = mem.free
    BY <1>2, <1>3, Zenon
  <2> HIDE DEF v
  <2>3. IsMem(mem') /\ mem'.pte = m.pte /\ mem'.tab = m.tab /\ mem'.free = v
    BY <1>3, <2>1, MemFree, Zenon
  <2>4. mem'.pte = mem.pte /\ mem'.tab = mem.tab /\ mem'.free = mem.free
    BY <1>3, <2>2, <2>3, Zenon
  <2>5. FrameOK(mem')
    BY <2>3, <2>4 DEF FrameOK
  <2>6. \A h : Used(mem, h) => Used(mem', h)
    BY <2>4, Zenon DEF Used
  <2> QED
    BY <2>4, <2>5, <2>6, Zenon
<1> QED
  BY <1>5, <1>7, <1>8, Zenon

\* The addresses of a move of whole pages.
LEMMA MoveAddrs ==
  ASSUME TypeOK, CallInv, pc = "move", Aligned(call.left)
  PROVE  /\ NewAddr \in Int /\ Aligned(NewAddr)
         /\ Visited(NewAddr) \cap DOMAIN mem.pte = {} => NewAddr \notin DOMAIN mem.pte
<1>1. /\ call.addr \in Int /\ call.left \in Int /\ PGSIZE \in Int
      /\ Aligned(call.addr) /\ Aligned(call.left) /\ Aligned(PGSIZE)
  BY AlignedFacts DEF TypeOK, CallInv, Calls
<1> DEFINE b == call.left - PGSIZE
<1>2. b \in Int /\ Aligned(b)
  BY <1>1, AlignedSum, Zenon
<1>4. NewAddr = U(call.addr + b)
  BY Zenon DEF NewAddr
<1> HIDE DEF b
<1>3. call.addr + b \in Int /\ Aligned(call.addr + b)
  BY <1>1, <1>2, AlignedSum, Zenon
<1>5. NewAddr \in Int /\ Aligned(NewAddr)
  BY <1>3, <1>4, AlignedU, Zenon
<1>6. PGROUNDDOWN(NewAddr) = NewAddr
  BY <1>5, RoundDown, Zenon
<1>7. NewAddr \in Visited(NewAddr)
  BY <1>6, Zenon DEF Visited
<1> QED
  BY <1>5, <1>7, Zenon

\* A move gives the frame of the old page to the new one; if mappages() finds
\* no table for the new page the frame is dropped.
LEMMA MoveFrames ==
  ASSUME TypeOK, CallInv, FrameOK(mem), pc = "move", call.left > 0,
         Aligned(call.left), OldPage \in DOMAIN mem.pte, MoveFrame(mem.pte[OldPage])
  PROVE  /\ FrameOK(mem')
         /\ ~PageDropped => \A f : Used(mem, f) => Used(mem', f)
         /\ DOMAIN mem'.pte \subseteq (DOMAIN mem.pte \ {OldPage}) \cup {NewAddr}
<1> DEFINE a == NewAddr
           o == OldPage
           f == mem.pte[o]
           r == mappages(mem, a, f)
           m == r.mem
           x == [b \in DOMAIN m.pte \ {o} |-> m.pte[b]]
<1>1. /\ Visited(a) \cap DOMAIN mem.pte = {}
      /\ mem' = [m EXCEPT !.pte = x]
  BY Zenon DEF MoveFrame, MayMap
<1>2. a \in Int /\ Aligned(a) /\ a \notin DOMAIN mem.pte
  BY <1>1, MoveAddrs, Zenon
<1>3. IsMem(mem) /\ f \in Frames /\ o \in DOMAIN mem.pte
  BY Zenon DEF FrameOK
<1>4. PageDropped <=> ~r.ok
  BY Zenon DEF PageDropped
<1> HIDE DEF a, o
<1>5. /\ r.ok \in BOOLEAN /\ (~r.ok => m = mem)
      /\ r.ok => Mapped(mem, m, a, f)
  <2> HIDE DEF f
  <2> QED
    BY <1>2, <1>3, MappagesIs, Zenon
<1> HIDE DEF r, m
<1>6. IsMem(m)
  BY <1>3, <1>5, Zenon DEF Mapped
<1>7. IsMem(mem') /\ mem'.pte = x /\ mem'.tab = m.tab /\ mem'.free = m.free
  <2> HIDE DEF x
  <2> QED
    BY <1>1, <1>6, MemPte, Zenon
<1>8. Trimmed(m, mem', {o}) /\ DOMAIN mem'.pte = DOMAIN m.pte \ {o}
  BY <1>7, Zenon DEF Trimmed
<1> HIDE DEF x
<1>9. CASE r.ok
  <2>1. Mapped(mem, m, a, f)
    BY <1>5, <1>9, Zenon
  <2>2. /\ f \notin mem.free
        /\ \A g \in DOMAIN mem.tab : mem.tab[g] # f
        /\ \A b \in DOMAIN mem.pte : mem.pte[b] = f <=> b \in {o}
    BY <1>3, Zenon DEF FrameOK
  <2>3. a \notin DOMAIN mem.pte /\ a \notin {o}
    BY <1>2, <1>3, Zenon
  <2> HIDE DEF f
  <2>4. FrameOK(mem') /\ \A h : Used(mem, h) => Used(mem', h)
    BY <1>3, <1>8, <2>1, <2>2, <2>3, PlaceOK, Zenon
  <2>5. DOMAIN mem'.pte \subseteq (DOMAIN mem.pte \ {o}) \cup {a}
    BY <1>8, <2>1, Zenon DEF Mapped
  <2> QED
    BY <2>4, <2>5, Zenon DEF a, o
<1>10. CASE ~r.ok
  <2>1. m = mem /\ PageDropped
    BY <1>4, <1>5, <1>10, Zenon
  <2>2. FrameOK(mem')
    BY <1>8, <2>1, TrimmedOK, Zenon
  <2>3. DOMAIN mem'.pte \subseteq (DOMAIN mem.pte \ {o}) \cup {a}
    BY <1>8, <2>1, Zenon
  <2> QED
    BY <2>1, <2>2, <2>3, Zenon DEF a, o
<1> QED
  BY <1>5, <1>9, <1>10, Zenon

-----------------------------------------------------------------------------
\* The entry that wunmap() takes, if any.
Slots == DOMAIN mappings \cup {0}

LEMMA FoundIs == \A a : Found(a) \subseteq Slots
BY Zenon DEF Found, At, Slots

\* selectionSort() permutes the table.
LEMMA SortedIs ==
  ASSUME NEW S, NEW s \in Seq(S), NEW t \in Sorted(s)
  PROVE  /\ t \in Seq(S) /\ Len(t) = Len(s) /\ DOMAIN t = DOMAIN s
         /\ \E pi \in Rearrangements(DOMAIN s) :
              \A k \in DOMAIN s : t[k] = s[pi[k]]
         /\ \A j, k \in DOMAIN s : j < k => t[j].addr <= t[k].addr
<1>1. /\ t \in {[k \in DOMAIN s |-> s[pi[k]]] : pi \in Rearrangements(DOMAIN s)}
      /\ \A j, k \in DOMAIN s : j < k => t[j].addr <= t[k].addr
  BY Zenon DEF Sorted
<1>2. PICK pi \in Rearrangements(DOMAIN s) : t = [k \in DOMAIN s |-> s[pi[k]]]
  BY <1>1, Zenon
<1>3. \A k \in DOMAIN s : pi[k] \in DOMAIN s /\ t[k] = s[pi[k]]
  BY <1>2, Zenon DEF Rearrangements
<1>4. DOMAIN s = 1..Len(s) /\ Len(s) \in Nat /\ \A k \in DOMAIN s : s[k] \in S
  OBVIOUS
<1>5. t \in [1..Len(s) -> S]
  BY <1>2, <1>3, <1>4, Zenon
<1>6. t \in Seq(S) /\ Len(t) = Len(s) /\ DOMAIN t = DOMAIN s
  BY <1>4, <1>5
<1> QED
  BY <1>1, <1>3, <1>6, Zenon

\* The entries after the one that wunmap() drops move down.
Shifted(i, k) == IF k < i THEN k ELSE k + 1

LEMMA WithoutIs ==
  ASSUME NEW S, NEW s \in Seq(S), NEW i \in DOMAIN s
  PROVE  LET t == Without(s, i)
         IN /\ t \in Seq(S) /\ Len(t) = Len(s) - 1 /\ DOMAIN t = 1..Len(s) - 1
            /\ \A k \in DOMAIN t : /\ Shifted(i, k) \in DOMAIN s
                                   /\ Shifted(i, k) # i
                                   /\ t[k] = s[Shifted(i, k)]
            /\ \A k \in DOMAIN s : k # i =>
                 \E j \in DOMAIN t : t[j] = s[k]
<1> DEFINE t == Without(s, i)
           n == Len(s) - 1
<1>0. DOMAIN s = 1..Len(s) /\ Len(s) \in Nat /\ i \in 1..Len(s)
      /\ \A k \in DOMAIN s : s[k] \in S
  OBVIOUS
<1>1. t = [k \in 1..n |-> s[Shifted(i, k)]]
  BY Zenon DEF Without, Shifted
<1>2. n \in Nat /\ \A k \in 1..n : Shifted(i, k) \in DOMAIN s /\ Shifted(i, k) # i
  BY <1>0 DEF Shifted
<1> HIDE DEF t, n
<1>3. t \in [1..n -> S] /\ \A k \in 1..n : t[k] = s[Shifted(i, k)]
  BY <1>0, <1>1, <1>2, Zenon
<1>4. t \in Seq(S) /\ Len(t) = n /\ DOMAIN t = 1..n
  BY <1>2, <1>3
<1>5. ASSUME NEW k \in DOMAIN s, k # i
      PROVE  \E j \in 1..n : Shifted(i, j) = k
  <2>1. CASE k < i
    <3>1. k \in 1..n /\ Shifted(i, k) = k
      BY <1>0, <2>1 DEF n, Shifted
    <3> QED
      BY <3>1, Zenon
  <2>2. CASE ~(k < i)
    <3>1. k - 1 \in 1..n /\ Shifted(i, k - 1) = k
      BY <1>0, <1>5, <2>2 DEF n, Shifted
    <3> QED
      BY <3>1, Zenon
  <2> QED
    BY <2>1, <2>2, Zenon
<1>6. \A k \in DOMAIN s : k # i => \E j \in DOMAIN t : t[j] = s[k]
  BY <1>3, <1>4, <1>5, Zenon
<1> QED
  BY <1>2, <1>3, <1>4, <1>6, Zenon DEF t, n

\* wunmap() leaves a table.
LEMMA UnmappedIs ==
  ASSUME TypeOK, NEW i \in Slots
  PROVE  UnmappedTable(i) \in Seq(Entries) /\ Len(UnmappedTable(i)) <= Len(mappings)
<1>0. mappings \in Seq(Entries)
  BY Zenon DEF TypeOK
<1>1. CASE i = 0
  <2>1. UnmappedTable(i) = mappings
    BY <1>1, Zenon DEF UnmappedTable
  <2> QED
    BY <1>0, <2>1
<1>2. CASE i # 0
  <2>1. UnmappedTable(i) = Without(mappings, i) /\ i \in DOMAIN mappings
    BY <1>2, Zenon DEF UnmappedTable, Slots
  <2> DEFINE t == Without(mappings, i)
  <2>2. t \in Seq(Entries) /\ Len(t) = Len(mappings) - 1
    BY <1>0, <2>1, WithoutIs, Zenon
  <2> HIDE DEF t
  <2>3. Len(t) <= Len(mappings)
    BY <1>0, <2>2
  <2> QED
    BY <2>1, <2>2, <2>3, Zenon DEF t
<1> QED
  BY <1>1, <1>2, Zenon

-----------------------------------------------------------------------------
\* The locals of the loops.
LEMMA CallFields ==
  ASSUME NEW c \in Calls
  PROVE  /\ c.slot \in Nat /\ c.addr \in Nat /\ c.size \in Nat
         /\ c.oldaddr \in Nat /\ c.left \in Int /\ c.i \in Nat
BY Zenon DEF Calls

LEMMA NoCallFields ==
  /\ NoCall \in Calls /\ NoCall.slot = 0 /\ NoCall.left = 0 /\ NoCall.i = 0
BY DEF NoCall, Calls

LEMMA CallAddr ==
  ASSUME NEW c \in Calls, NEW a \in Nat
  PROVE  LET d == [c EXCEPT !.addr = a]
         IN /\ d \in Calls /\ d.left = c.left /\ d.i = c.i /\ d.addr = a
            /\ d.slot = c.slot /\ d.size = c.size /\ d.oldaddr = c.oldaddr
BY Zenon DEF Calls

LEMMA CallSize ==
  ASSUME NEW c \in Calls, NEW n \in Nat
  PROVE  LET d == [c EXCEPT !.size = n]
         IN /\ d \in Calls /\ d.left = c.left /\ d.i = c.i /\ d.addr = c.addr
            /\ d.slot = c.slot /\ d.size = n /\ d.oldaddr = c.oldaddr
BY Zenon DEF Calls

LEMMA CallI ==
  ASSUME NEW c \in Calls, NEW n \in Nat
  PROVE  LET d == [c EXCEPT !.i = n]
         IN /\ d \in Calls /\ d.left = c.left /\ d.i = n /\ d.addr = c.addr
            /\ d.slot = c.slot /\ d.size = c.size /\ d.oldaddr = c.oldaddr
BY Zenon DEF Calls

\* The locals of a search of wmap().
LEMMA SearchCall ==
  ASSUME NEW a \in Nat, NEW len \in Nat
  PROVE  LET c == [NoCall EXCEPT !.addr = a, !.size = len]
         IN /\ c \in Calls /\ c.addr = a /\ c.size = len
            /\ c.slot = 0 /\ c.left = 0 /\ c.i = 0
<1> DEFINE c == [NoCall EXCEPT !.addr = a]
           d == [c EXCEPT !.size = len]
<1>1. c \in Calls /\ c.addr = a /\ c.slot = 0 /\ c.left = 0 /\ c.i = 0
  BY NoCallFields, CallAddr, Zenon
<1> HIDE DEF c
<1>2. /\ d \in Calls /\ d.left = c.left /\ d.i = c.i /\ d.addr = c.addr
      /\ d.slot = c.slot /\ d.size = len
  BY <1>1, CallSize, Zenon
<1> QED
  BY <1>1, <1>2, Zenon DEF c

\* One more iteration of a search, of a move, and of the loop in exit().
LEMMA NextCall ==
  ASSUME NEW c \in Calls, NEW a \in Nat
  PROVE  LET d == [c EXCEPT !.i = @ + 1, !.addr = a]
         IN /\ d \in Calls /\ d.addr = a /\ d.i = c.i + 1
            /\ d.slot = c.slot /\ d.size = c.size
            /\ d.oldaddr = c.oldaddr /\ d.left = c.left
<1> DEFINE n == c.i + 1
           e == [c EXCEPT !.i = n]
           d == [e EXCEPT !.addr = a]
<1>0. n \in Nat
  BY CallFields
<1> HIDE DEF n
<1>1. /\ e \in Calls /\ e.left = c.left /\ e.i = n
      /\ e.slot = c.slot /\ e.size = c.size /\ e.oldaddr = c.oldaddr
  BY <1>0, CallI, Zenon
<1> HIDE DEF e
<1>2. /\ d \in Calls /\ d.left = e.left /\ d.i = e.i /\ d.addr = a
      /\ d.slot = e.slot /\ d.size = e.size /\ d.oldaddr = e.oldaddr
  BY <1>1, CallAddr, Zenon
<1> QED
  BY <1>1, <1>2, Zenon DEF e, n

LEMMA MovedCall ==
  ASSUME NEW c \in Calls, NEW l \in Int
  PROVE  LET d == [c EXCEPT !.left = l]
         IN /\ d \in Calls /\ d.left = l /\ d.i = c.i /\ d.addr = c.addr
            /\ d.slot = c.slot /\ d.size = c.size /\ d.oldaddr = c.oldaddr
BY Zenon DEF Calls

LEMMA ExitCall ==
  ASSUME NEW c \in Calls
  PROVE  [c EXCEPT !.i = @ + 1] \in Calls
BY DEF Calls

\* Entries of the table.
LEMMA EntryFields ==
  ASSUME NEW m \in Entries
  PROVE  /\ m.addr \in Nat /\ m.length \in Nat /\ m.length >= 1
         /\ m.length \in 1..KERNBASE
BY DEF Entries

LEMMA MappingIs ==
  ASSUME NEW a \in Nat, NEW len \in 1..KERNBASE
  PROVE  /\ Mapping(a, len) \in Entries
         /\ Mapping(a, len).addr = a /\ Mapping(a, len).length = len
BY Zenon DEF Mapping, Entries

\* The address a search goes on at is the beginning of a page.
LEMMA RoundUpNat ==
  ASSUME NEW e \in Nat
  PROVE  PGROUNDUP(e) \in Nat /\ Aligned(PGROUNDUP(e))
<1>1. PGSIZE \in Nat /\ PGSIZE > 0 /\ UINT \in Nat \ {0} /\ Aligned(0)
  BY AlignedFacts, Zenon
<1> DEFINE s == (e + PGSIZE - 1) % UINT
           x == PGROUNDDOWN(s)
<1>2. s \in Int /\ s \in 0..UINT - 1
  <2>1. e + PGSIZE - 1 \in Int
    BY <1>1
  <2> QED
    BY <1>1, <2>1, DivMod
<1>3. PGROUNDUP(e) = x
  BY Zenon DEF PGROUNDUP, U
<1> HIDE DEF s
<1>4. x \in Int /\ Aligned(x) /\ x <= s /\ s < x + PGSIZE
  BY <1>2, RoundDown, Zenon
<1> HIDE DEF x
<1>5. ASSUME x < 0 PROVE FALSE
  <2>1. x + PGSIZE <= 0
    BY <1>1, <1>4, <1>5, AlignedStep
  <2> QED
    BY <1>1, <1>2, <1>4, <2>1
<1>6. x \in Nat
  BY <1>4, <1>5
<1> QED
  BY <1>3, <1>4, <1>6, Zenon

LEMMA EndNat ==
  ASSUME NEW m \in Entries
  PROVE  End(m) \in Nat
<1>1. m.addr + m.length \in Int
  BY EntryFields
<1>2. UINT \in Nat \ {0}
  BY AlignedFacts, Zenon
<1> QED
  BY <1>1, <1>2, DivMod DEF End, U

-----------------------------------------------------------------------------
Pcs == {"user", "search", "move", "exit", "zombie", "stopped"}

\* Steps that sort a table or go back to user code keep the types.
LEMMA InsertTypes ==
  ASSUME TypeOK, NEW a \in Nat, NEW len \in 1..KERNBASE,
         NEW t \in Sorted(Append(mappings, Mapping(a, len)))
  PROVE  t \in Seq(Entries)
<1>1. mappings \in Seq(Entries) /\ Mapping(a, len) \in Entries
  BY MappingIs, Zenon DEF TypeOK
<1>2. Append(mappings, Mapping(a, len)) \in Seq(Entries)
  BY <1>1
<1> QED
  BY <1>2, SortedIs, Zenon

LEMMA ResizedIs ==
  ASSUME NEW m \in Entries, NEW new \in 1..KERNBASE
  PROVE  LET n == [m EXCEPT !.length = new]
         IN n \in Entries /\ n.addr = m.addr /\ n.length = new
BY Zenon DEF Entries

LEMMA ResizeTypes ==
  ASSUME TypeOK, NEW k \in DOMAIN mappings, NEW new \in 1..KERNBASE
  PROVE  [mappings EXCEPT ![k].length = new] \in Seq(Entries)
<1>1. mappings \in Seq(Entries) /\ mappings[k] \in Entries
  BY DEF TypeOK
<1>2. [mappings[k] EXCEPT !.length = new] \in Entries
  BY <1>1, ResizedIs, Zenon
<1> QED
  BY <1>1, <1>2

\* The calls of wremap().
LEMMA WremapTypes ==
  ASSUME TypeOK, CallInv, NEW k \in DOMAIN mappings,
         NEW old \in {mappings[k].length} \cup OldSizes, NEW new \in NewSizes,
         \/ WremapShrink(k, old, new) \/ WremapStop(k, old, new)
         \/ WremapGrow(k, old, new) \/ WremapSearch(k, old, new)
  PROVE  mappings' \in Seq(Entries) /\ pc' \in Pcs /\ call' \in Calls /\ CallInv'
<1>1. /\ mappings \in Seq(Entries) /\ mappings[k] \in Entries /\ pc \in Pcs
      /\ call \in Calls /\ new \in 1..KERNBASE /\ old \in Int
      /\ k \in Nat /\ WMAPBASE \in Nat /\ new \in Nat
  <2>1. mappings[k] \in Entries /\ mappings \in Seq(Entries) /\ k \in Nat
    BY DEF TypeOK
  <2>2. mappings[k].length \in Nat
    BY <2>1, EntryFields, Zenon
  <2>3. /\ new \in 1..KERNBASE /\ WMAPBASE \in Nat /\ KERNBASE \in Nat
        /\ old = mappings[k].length \/ old \in 0..KERNBASE
    BY WmapAssumption, Zenon
  <2>4. new \in Nat /\ old \in Int
    BY <2>2, <2>3
  <2> QED
    BY <2>1, <2>3, <2>4, Zenon DEF TypeOK, Pcs
<1>2. CASE /\ mappings' = [mappings EXCEPT ![k].length = new]
           /\ pc = "user" /\ UNCHANGED <<pc, call>>
  <2>1. mappings' \in Seq(Entries)
    BY <1>1, <1>2, ResizeTypes, Zenon
  <2>2. pc' = pc /\ call' = call
    BY <1>2, Zenon
  <2>3. CallInv'
    BY <1>2, <2>2, Zenon DEF CallInv
  <2> QED
    BY <1>1, <2>1, <2>2, <2>3, Zenon
<1>4. CASE WremapStop(k, old, new)
  <2>1. mappings' = mappings /\ pc' = "stopped" /\ call' = call
    BY <1>4, Zenon DEF WremapStop
  <2> QED
    BY <1>1, <2>1, Zenon DEF CallInv, Pcs
<1>3. CASE WremapSearch(k, old, new)
  <2>1. /\ call' = [slot |-> k, addr |-> WMAPBASE, size |-> new,
                    oldaddr |-> mappings[k].addr, left |-> old, i |-> 0]
        /\ pc' = "search" /\ mappings' = mappings
        /\ ~misjudged' => old % PGSIZE = 0
    BY <1>3, Zenon DEF WremapSearch
  <2>2. mappings[k].addr \in Nat
    BY <1>1, EntryFields, Zenon
  <2>3. call' \in Calls
    BY <1>1, <2>1, <2>2, Zenon DEF Calls
  <2>4. call'.size = new /\ call'.addr = WMAPBASE /\ call'.left = old
    BY <2>1, Zenon
  <2>5. Aligned(WMAPBASE) /\ (~misjudged' => Aligned(old))
    BY <2>1, AlignedFacts, Zenon DEF Aligned
  <2>6. CallInv'
    BY <1>1, <2>4, <2>5, Zenon DEF CallInv, Aligned
  <2> QED
    BY <1>1, <2>1, <2>3, <2>6, Zenon DEF Pcs
<1> QED
  BY <1>2, <1>3, <1>4, Zenon DEF WremapShrink, WremapGrow

LEMMA ReplacedIs ==
  ASSUME NEW m \in Entries, NEW a \in Nat, NEW len \in 1..KERNBASE
  PROVE  [[m EXCEPT !.addr = a] EXCEPT !.length = len] = [addr |-> a, length |-> len]
<1> DEFINE n == [m EXCEPT !.addr = a]
           p == [n EXCEPT !.length = len]
<1>1. DOMAIN m = {"addr", "length"}
  BY Zenon DEF Entries
<1>2. DOMAIN n = {"addr", "length"} /\ n.addr = a
  BY <1>1, Zenon
<1> HIDE DEF n
<1>3. DOMAIN p = {"addr", "length"} /\ p.addr = a /\ p.length = len
  BY <1>2, Zenon
<1>4. p = [x \in {"addr", "length"} |-> p[x]]
  BY <1>2, <1>3, Zenon
<1> HIDE DEF p
<1>5. p = [addr |-> a, length |-> len]
  BY <1>3, <1>4, Zenon
<1> QED
  BY <1>5, Zenon DEF p, n

\* The slot of a mapping that moves; the table has two assignments to it.
Replaced(t, k, m) ==
  /\ t \in Seq(Entries) /\ Len(t) = Len(mappings) /\ DOMAIN t = DOMAIN mappings
  /\ \A j \in DOMAIN mappings : j # k => t[j] = mappings[j]
  /\ k \in DOMAIN mappings => t[k] = m

LEMMA ReplaceIs ==
  ASSUME TypeOK, NEW k, NEW a \in Nat, NEW len \in 1..KERNBASE
  PROVE  Replaced([mappings EXCEPT ![k].addr = a, ![k].length = len], k,
                  Mapping(a, len))
<1> DEFINE t == [mappings EXCEPT ![k].addr = a, ![k].length = len]
           n == Mapping(a, len)
<1>1. mappings \in Seq(Entries)
  BY Zenon DEF TypeOK
<1>2. CASE k \in DOMAIN mappings
  <2>1. mappings[k] \in Entries
    BY <1>1, <1>2
  <2>2. [[mappings[k] EXCEPT !.addr = a] EXCEPT !.length = len] = n
    BY <2>1, ReplacedIs, Zenon DEF Mapping
  <2>3. t = [mappings EXCEPT ![k] = n]
    BY <1>2, <2>2, Zenon
  <2>4. n \in Entries
    BY MappingIs, Zenon
  <2> HIDE DEF n, t
  <2>5. /\ t \in Seq(Entries) /\ Len(t) = Len(mappings) /\ DOMAIN t = DOMAIN mappings
        /\ \A j \in DOMAIN mappings : j # k => t[j] = mappings[j]
        /\ t[k] = n
    BY <1>1, <1>2, <2>3, <2>4
  <2> QED
    BY <2>5, Zenon DEF Replaced, n, t
<1>3. CASE k \notin DOMAIN mappings
  <2>1. t = mappings
    BY <1>1, <1>3
  <2> QED
    BY <1>1, <1>3, <2>1, Zenon DEF Replaced
<1> QED
  BY <1>2, <1>3, Zenon

\* The types are kept by every step.
LEMMA TypeStep ==
  ASSUME TypeOK, CallInv, Next
  PROVE  TypeOK' /\ CallInv'
<1> DEFINE Good == /\ mappings' \in Seq(Entries) /\ pc' \in Pcs
                   /\ call' \in Calls /\ CallInv'
<1> SUFFICES Good
  <2>1. wild' \in BOOLEAN /\ lost' \in BOOLEAN
    BY Zenon DEF Next
  <2> QED
    BY <2>1, Zenon DEF TypeOK, Pcs
<1>0. /\ mappings \in Seq(Entries) /\ pc \in Pcs /\ call \in Calls
      /\ call.addr \in Nat /\ call.size \in Nat /\ call.i \in Nat /\ call.left \in Int
      /\ NoCall \in Calls /\ WMAPBASE \in Nat /\ Aligned(WMAPBASE) /\ Aligned(0)
  BY CallFields, NoCallFields, AlignedFacts, Zenon DEF TypeOK, Pcs
<1>1. ASSUME mappings' \in Seq(Entries), pc' \in Pcs, call' \in Calls,
             pc' \notin {"search", "move"}
      PROVE  Good
  BY <1>1, Zenon DEF CallInv
<1>2. \A a : \A i \in Found(a) : UnmappedTable(i) \in Seq(Entries)
  BY FoundIs, UnmappedIs, Zenon
<1>3. ASSUME NEW r \in Fixed, WmapFixed(r[1], r[2]) PROVE Good
  <2>1. r[1] \in Nat /\ r[2] \in 1..KERNBASE
    BY WmapAssumption, Zenon
  <2>2. /\ mappings' \in Sorted(Append(mappings, Mapping(r[1], r[2])))
        /\ pc' = "user" /\ call' = call
    BY <1>3, Zenon DEF WmapFixed
  <2>3. mappings' \in Seq(Entries)
    BY <2>1, <2>2, InsertTypes, Zenon
  <2> QED
    BY <1>0, <1>1, <2>2, <2>3, Zenon DEF Pcs
<1>4. ASSUME NEW len \in Lengths, WmapSearch(len) PROVE Good
  <2>1. len \in 1..KERNBASE /\ len \in Nat
    BY WmapAssumption
  <2>2. /\ call' = [NoCall EXCEPT !.addr = WMAPBASE, !.size = len]
        /\ pc' = "search" /\ mappings' = mappings
    BY <1>4, Zenon DEF WmapSearch
  <2>3. call' \in Calls /\ call'.addr = WMAPBASE /\ call'.size = len /\ call'.left = 0
    BY <1>0, <2>1, <2>2, SearchCall, ZenonT(30)
  <2>4. CallInv'
    BY <1>0, <2>1, <2>3, Zenon DEF CallInv, Aligned
  <2> QED
    BY <1>0, <2>2, <2>3, <2>4, Zenon DEF Pcs
<1>5. ASSUME SearchStep, misjudged' = misjudged PROVE Good
  <2> DEFINE m == mappings[call.i + 1]
             a == IF Overlaps(call.addr, call.size, m) THEN PGROUNDUP(End(m))
                  ELSE call.addr
  <2>1. /\ pc = "search" /\ call.i < Len(mappings)
        /\ call' = [call EXCEPT !.i = @ + 1, !.addr = a]
        /\ pc' = pc /\ mappings' = mappings
    BY <1>5, Zenon DEF SearchStep
  <2>2. m \in Entries
    BY <1>0, <2>1
  <2>3. /\ call.size \in 1..KERNBASE /\ Aligned(call.addr)
        /\ ~misjudged => Aligned(call.left)
    BY <2>1, Zenon DEF CallInv
  <2>4. a \in Nat /\ Aligned(a)
    <3> HIDE DEF m
    <3>1. PGROUNDUP(End(m)) \in Nat /\ Aligned(PGROUNDUP(End(m)))
      BY <2>2, EndNat, RoundUpNat, Zenon
    <3> QED
      BY <1>0, <2>3, <3>1, Zenon
  <2> HIDE DEF a
  <2>5. call' \in Calls /\ call'.addr = a /\ call'.size = call.size /\ call'.left = call.left
    BY <1>0, <2>1, <2>4, NextCall, Zenon
  <2>6. CallInv'
    BY <1>5, <2>3, <2>4, <2>5, Zenon DEF CallInv, Aligned
  <2> QED
    BY <1>0, <2>1, <2>5, <2>6, Zenon
<1>6. CASE SearchFail
  BY <1>0, <1>1, <1>6, Zenon DEF SearchFail, Pcs
<1>7. CASE WmapInsert
  <2>1. /\ mappings' \in Sorted(Append(mappings, Mapping(call.addr, call.size)))
        /\ pc = "search" /\ pc' = "user" /\ call' = NoCall
    BY <1>7, Zenon DEF WmapInsert
  <2>2. call.size \in 1..KERNBASE
    BY <2>1, Zenon DEF CallInv
  <2>3. mappings' \in Seq(Entries)
    BY <1>0, <2>1, <2>2, InsertTypes, Zenon
  <2> QED
    BY <1>0, <1>1, <2>1, <2>3, Zenon DEF Pcs
<1>8. ASSUME NEW a, Wunmap(a) PROVE Good
  BY <1>0, <1>1, <1>2, <1>8, Zenon DEF Wunmap, Pcs
<1>9. CASE Wremap
  BY <1>9, WremapTypes, Zenon DEF Wremap
<1>10. ASSUME WremapReplace, misjudged' = misjudged PROVE Good
  <2> DEFINE k == call.slot
  <2>1. /\ pc = "search" /\ pc' = "move" /\ call' = call
        /\ mappings' = [mappings EXCEPT ![k].addr = call.addr, ![k].length = call.size]
    BY <1>10, Zenon DEF WremapReplace
  <2>2. call.size \in 1..KERNBASE /\ CallInv'
    BY <1>10, <2>1, Zenon DEF CallInv
  <2>3. mappings' \in Seq(Entries)
    BY <1>0, <2>1, <2>2, ReplaceIs, Zenon DEF Replaced
  <2> QED
    BY <1>0, <2>1, <2>2, <2>3, Zenon DEF Pcs
<1>11. ASSUME MoveStep, misjudged' = misjudged PROVE Good
  <2> DEFINE l == call.left - PGSIZE
  <2>1. /\ call' = [call EXCEPT !.left = l] /\ pc = "move"
        /\ pc' = pc /\ mappings' = mappings
    BY <1>11, Zenon DEF MoveStep
  <2>2. /\ call.size \in 1..KERNBASE /\ Aligned(call.addr)
        /\ ~misjudged => Aligned(call.left)
    BY <2>1, Zenon DEF CallInv
  <2>3. l \in Int /\ (~misjudged => Aligned(l))
    <3>1. PGSIZE \in Int /\ Aligned(PGSIZE)
      BY AlignedFacts
    <3>2. l \in Int
      BY <1>0, <3>1
    <3>3. ASSUME ~misjudged PROVE Aligned(l)
      <4>1. Aligned(call.left)
        BY <2>2, <3>3, Zenon
      <4> QED
        BY <1>0, <3>1, <4>1, AlignedSum, Zenon
    <3> QED
      BY <3>2, <3>3, Zenon
  <2> HIDE DEF l
  <2>4. call' \in Calls /\ call'.addr = call.addr /\ call'.size = call.size /\ call'.left = l
    BY <1>0, <2>1, <2>3, MovedCall, Zenon
  <2>5. CallInv'
    BY <1>11, <2>2, <2>3, <2>4, Zenon DEF CallInv, Aligned
  <2> QED
    BY <1>0, <2>1, <2>4, <2>5, Zenon
<1>12. CASE MoveDone
  <2>1. /\ \E i \in Found(call.oldaddr) : mappings' \in Sorted(UnmappedTable(i))
        /\ pc' = "user" /\ call' = NoCall
    BY <1>12, Zenon DEF MoveDone
  <2>2. mappings' \in Seq(Entries)
    BY <1>2, <2>1, SortedIs, Zenon
  <2> QED
    BY <1>0, <1>1, <2>1, <2>2, Zenon DEF Pcs
<1>13. ASSUME NEW a \in Pages, FaultLoad(a) PROVE Good
  <2>1. mappings' = mappings /\ call' = call /\ pc' \in {"user", "exit"}
    BY <1>13, Zenon DEF FaultLoad
  <2> QED
    BY <1>0, <1>1, <2>1, Zenon DEF Pcs
<1>14. ASSUME NEW a \in Pages, FaultExit(a) PROVE Good
  BY <1>0, <1>1, <1>14, Zenon DEF FaultExit, Pcs
<1>15. CASE Exec
  BY <1>0, <1>1, <1>15, Zenon DEF Exec, Pcs
<1>16. CASE Exit
  BY <1>0, <1>1, <1>16, Zenon DEF Exit, Pcs
<1>17. CASE ExitUnmap
  <2>1. /\ \E i \in Found(mappings[call.i + 1].addr) :
             mappings' = UnmappedTable(i)
        /\ pc' = "exit" /\ call' = [call EXCEPT !.i = @ + 1]
    BY <1>17, Zenon DEF ExitUnmap
  <2>2. call' \in Calls
    BY <1>0, <2>1, ExitCall, Zenon
  <2> QED
    BY <1>0, <1>1, <1>2, <2>1, <2>2, Zenon DEF Pcs
<1>18. CASE ExitZombie
  BY <1>0, <1>1, <1>18, Zenon DEF ExitZombie, Pcs
<1>19. CASE Reap
  <2>1. <<>> \in Seq(Entries)
    OBVIOUS
  <2> QED
    BY <1>0, <1>1, <1>19, <2>1, Zenon DEF Reap, Pcs
<1>20. CASE Stop \/ Stopped
  BY <1>0, <1>1, <1>20, Zenon DEF Stop, Stopped, Pcs
<1>21. ASSUME Sizeless, misjudged' = misjudged PROVE Good
  BY <1>4, <1>5, <1>6, <1>7, <1>8, <1>10, <1>11, <1>12, <1>13, <1>14, <1>15,
     <1>16, <1>17, <1>18, <1>19, <1>20, <1>21, Zenon DEF Sizeless
<1> QED
  BY <1>3, <1>9, <1>21, Zenon DEF Next

-----------------------------------------------------------------------------
\* Each step keeps the frames apart, and loses none unless it drops a page.
LEMMA FrameStep ==
  ASSUME TypeOK, CallInv, FrameInv, Next
  PROVE  FrameInv'
<1> DEFINE Good == /\ FrameOK(mem')
                   /\ ~PageDropped => \A f : Used(mem, f) => Used(mem', f)
<1> SUFFICES ASSUME ~wild, ~NullRead, ~split, ~PageSplit PROVE Good
  <2>1. /\ wild' = (wild \/ NullRead) /\ lost' = (lost \/ PageDropped)
        /\ split' = (split \/ PageSplit)
    BY Zenon DEF Next
  <2>2. CASE wild' \/ split'
    BY <2>2, Zenon DEF FrameInv
  <2>3. CASE ~wild' /\ ~split'
    <3>1. Good /\ ~wild /\ ~split
      BY <2>1, <2>3, Zenon
    <3>2. ~lost' => ~lost /\ ~PageDropped
      BY <2>1, Zenon
    <3> QED
      BY <3>1, <3>2, Zenon DEF FrameInv
  <2> QED
    BY <2>2, <2>3, Zenon
<1>0. FrameOK(mem)
  BY Zenon DEF FrameInv
<1>1. ASSUME mem' = mem PROVE Good
  BY <1>0, <1>1, Zenon
<1>2. ASSUME NEW S, mem' = FreePages(mem, S) PROVE Good
  BY <1>0, <1>2, FreePagesOK, Zenon
<1>3. ASSUME mem' = NoPages(Freed) PROVE Good
  BY <1>0, <1>3, FreedOK, Zenon
<1>4. ASSUME NEW i, mem' = UnmappedMem(i) PROVE Good
  BY <1>1, <1>2, <1>4, Zenon DEF UnmappedMem
<1>5. ASSUME NEW r \in Fixed, WmapFixed(r[1], r[2]) PROVE Good
  BY <1>1, <1>5, Zenon DEF WmapFixed
<1>6. ASSUME NEW len \in Lengths, WmapSearch(len) PROVE Good
  BY <1>1, <1>6, Zenon DEF WmapSearch
<1>7. CASE SearchStep \/ SearchFail \/ WmapInsert \/ WremapReplace
  BY <1>1, <1>7, Zenon DEF SearchStep, SearchFail, WmapInsert, WremapReplace
<1>8. ASSUME NEW a, Wunmap(a) PROVE Good
  BY <1>4, <1>8, Zenon DEF Wunmap
<1>9. CASE Wremap
  <2>1. ASSUME NEW k, NEW old, NEW new, WremapShrink(k, old, new) PROVE Good
    BY <1>2, <2>1, Zenon DEF WremapShrink
  <2>2. ASSUME NEW k, NEW old, NEW new,
               WremapStop(k, old, new) \/ WremapGrow(k, old, new)
                 \/ WremapSearch(k, old, new)
        PROVE  Good
    BY <1>1, <2>2, Zenon DEF WremapStop, WremapGrow, WremapSearch
  <2> QED
    BY <1>9, <2>1, <2>2, Zenon DEF Wremap
<1>10. CASE MoveStep
  <2>1. pc = "move" /\ call.left > 0
    BY <1>10, Zenon DEF MoveStep
  <2>2. CASE /\ OldPage \in DOMAIN mem.pte /\ MoveFrame(mem.pte[OldPage])
             /\ mem' # mem
    <3>1. Aligned(call.left)
      BY <2>1, <2>2, Zenon DEF PageSplit, Aligned
    <3> QED
      BY <1>0, <2>1, <2>2, <3>1, MoveFrames, Zenon
  <2>3. CASE mem' = mem
    BY <1>1, <2>3, Zenon
  <2>4. CASE Region(OldPage) \notin DOMAIN mem.tab /\ mem' # mem
    BY <2>1, <2>4, Zenon DEF NullRead
  <2> QED
    BY <1>10, <2>2, <2>3, <2>4, Zenon DEF MoveStep
<1>11. CASE MoveDone
  BY <1>4, <1>11, Zenon DEF MoveDone
<1>12. ASSUME NEW a \in Pages, FaultLoad(a) PROVE Good
  BY <1>0, <1>12, FaultFrames, Zenon
<1>13. ASSUME NEW a \in Pages, FaultExit(a) PROVE Good
  BY <1>1, <1>13, Zenon DEF FaultExit
<1>14. CASE Exec \/ Reap
  BY <1>3, <1>14, Zenon DEF Exec, Reap
<1>15. CASE Exit \/ ExitZombie
  BY <1>1, <1>15, Zenon DEF Exit, ExitZombie
<1>16. CASE ExitUnmap
  BY <1>4, <1>16, Zenon DEF ExitUnmap
<1>17. CASE Stop \/ Stopped
  BY <1>1, <1>17, Zenon DEF Stop, Stopped
<1> QED
  BY <1>5, <1>6, <1>7, <1>8, <1>9, <1>10, <1>11, <1>12, <1>13, <1>14, <1>15,
     <1>16, <1>17, Zenon DEF Next, Sizeless

LEMMA TypeFrameInit == Init => TypeOK /\ CallInv /\ FrameInv
<1> SUFFICES ASSUME Init PROVE TypeOK /\ CallInv /\ FrameInv
  BY Zenon
<1>1. mappings = <<>> /\ mem = NoPages(Frames) /\ pc = "user" /\ call = NoCall
      /\ wild = FALSE /\ lost = FALSE
  BY Zenon DEF Init
<1>2. <<>> \in Seq(Entries)
  OBVIOUS
<1>3. TypeOK
  BY <1>1, <1>2, NoCallFields, Zenon DEF TypeOK
<1>4. CallInv
  BY <1>1, Zenon DEF CallInv
<1>5. FrameOK(mem) /\ \A f \in Frames : Used(mem, f)
  BY <1>1, NoPagesOK, Zenon
<1> QED
  BY <1>3, <1>4, <1>5, Zenon DEF FrameInv

\* What FrameInv says of the sets of frames.
LEMMA FrameMeans == FrameInv => FramesAccounted
<1> SUFFICES ASSUME FrameInv, ~wild, ~split PROVE FramesAccounted
  BY Zenon DEF FramesAccounted
<1> DEFINE pages == {mem.pte[a] : a \in DOMAIN mem.pte}
           tables == {mem.tab[g] : g \in DOMAIN mem.tab}
<1>1. FrameOK(mem) /\ (~lost => \A f \in Frames : Used(mem, f))
  BY Zenon DEF FrameInv
<1>2. /\ \A f : f \in pages <=> \E a \in DOMAIN mem.pte : mem.pte[a] = f
      /\ \A f : f \in tables <=> \E g \in DOMAIN mem.tab : mem.tab[g] = f
  BY Zenon
<1> HIDE DEF pages, tables
<1>3. pages \cap tables = {} /\ (pages \cup tables) \cap mem.free = {}
  BY <1>1, <1>2 DEF FrameOK
<1>4. pages \cup tables \cup mem.free \subseteq Frames
  BY <1>1, <1>2 DEF FrameOK
<1>5. ASSUME ~lost PROVE pages \cup tables \cup mem.free = Frames
  <2>1. \A f \in Frames : f \in pages \/ f \in tables \/ f \in mem.free
    BY <1>1, <1>2, <1>5, Zenon DEF Used
  <2> QED
    BY <1>4, <2>1, Zenon
<1>6. /\ \A a, b \in DOMAIN mem.pte : mem.pte[a] = mem.pte[b] => a = b
      /\ \A g, h \in DOMAIN mem.tab : mem.tab[g] = mem.tab[h] => g = h
  BY <1>1, Zenon DEF FrameOK
<1> QED
  BY <1>3, <1>4, <1>5, <1>6, Zenon DEF FramesAccounted, pages, tables

\* Whatever the calls and their sizes, no frame is used twice or is free while
\* in use until a move uses an entry read through a null pointer or moves part
\* of a page; and until then no frame is lost, unless a move has ignored that
\* mappages() failed.
THEOREM FramesAreAccounted == Spec => []FramesAccounted
<1> DEFINE I == TypeOK /\ CallInv /\ FrameInv
<1>1. Init => I
  BY TypeFrameInit, Zenon
<1>2. I /\ [Next]_vars => I'
  <2> SUFFICES ASSUME I, [Next]_vars PROVE I'
    BY Zenon
  <2>1. CASE Next
    BY <2>1, TypeStep, FrameStep, Zenon
  <2>2. CASE UNCHANGED vars
    <3>1. mappings' = mappings /\ mem' = mem /\ pc' = pc /\ call' = call
          /\ wild' = wild /\ lost' = lost /\ split' = split
          /\ misjudged' = misjudged
      BY <2>2, Zenon DEF vars
    <3>2. TypeOK'
      BY <3>1, Zenon DEF TypeOK
    <3>3. CallInv'
      BY <3>1, Zenon DEF CallInv
    <3>4. FrameInv'
      BY <3>1, Zenon DEF FrameInv
    <3> QED
      BY <3>2, <3>3, <3>4, Zenon
  <2> QED
    BY <2>1, <2>2, Zenon
<1>3. I => FramesAccounted
  BY FrameMeans, Zenon
<1> QED
  BY <1>1, <1>2, <1>3, PTL DEF Spec

-----------------------------------------------------------------------------
\* The mappings of a table share no byte; they are also in order.
Separate(s) == \A j, k \in DOMAIN s : j # k => Apart(s[j], s[k])
Ordered(s) == \A j, k \in DOMAIN s : j < k => Before(s[j], s[k])
AllFit(s) == \A k \in DOMAIN s : Fits(s[k])

LEMMA MappingFields ==
  ASSUME NEW a, NEW len
  PROVE  Mapping(a, len).addr = a /\ Mapping(a, len).length = len
BY Zenon DEF Mapping

LEMMA EndIs ==
  ASSUME NEW m \in Entries, Fits(m)
  PROVE  End(m) = m.addr + m.length /\ End(m) \in 0..KERNBASE
<1>1. m.addr \in Nat /\ m.length \in Nat /\ m.addr + m.length <= KERNBASE
  BY EntryFields, Zenon DEF Fits
<1>2. KERNBASE \in Nat /\ UINT \in Nat /\ KERNBASE < UINT
  BY AlignedFacts
<1> DEFINE e == m.addr + m.length
<1>3. e \in Int /\ 0 <= e /\ e < UINT /\ e \in 0..KERNBASE
  BY <1>1, <1>2
<1>4. End(m) = U(e)
  BY Zenon DEF End
<1> HIDE DEF e
<1>5. End(m) = e
  BY <1>3, <1>4, NoWrap, Zenon
<1> QED
  BY <1>3, <1>5, Zenon DEF e

\* The last byte of a region that begins below KERNBASE.
LEMMA LastIs ==
  ASSUME NEW a \in Nat, a <= KERNBASE, NEW len \in 1..KERNBASE
  PROVE  U(a + len - 1) = a + len - 1
<1>1. KERNBASE \in Nat /\ UINT = 2 * KERNBASE
  BY AlignedFacts, Zenon
<1>2. a + len - 1 \in Int /\ 0 <= a + len - 1 /\ a + len - 1 < UINT
  BY <1>1
<1> QED
  BY <1>2, NoWrap, Zenon

\* The four tests together find every overlap.
LEMMA TestsSuffice ==
  ASSUME NEW a \in Nat, a <= KERNBASE, NEW len \in 1..KERNBASE,
         NEW m \in Entries, Fits(m), ~Overlaps(a, len, m)
  PROVE  Apart(Mapping(a, len), m)
<1> DEFINE last == a + len - 1
           e == m.addr + m.length
<1>1. /\ ~(m.addr <= a /\ a < e) /\ ~(m.addr <= last /\ last < e)
      /\ ~(a <= m.addr /\ m.addr < last)
  BY LastIs, EndIs, Zenon DEF Overlaps
<1>2. m.addr \in Nat /\ m.length \in Nat /\ m.length >= 1 /\ KERNBASE \in Nat
  BY EntryFields, AlignedFacts, Zenon
<1>3. a + len <= m.addr \/ m.addr + m.length <= a
  BY <1>1, <1>2
<1> QED
  BY <1>3, MappingFields DEF Apart, Before

\* Being apart is symmetric, excludes equal addresses, and in order of address
\* means being before.
LEMMA ApartFacts ==
  ASSUME NEW m \in Entries, NEW n \in Entries, Apart(m, n)
  PROVE  /\ Apart(n, m) /\ m.addr # n.addr
         /\ m.addr <= n.addr => Before(m, n)
<1>1. /\ m.addr \in Nat /\ m.length \in Nat /\ m.length >= 1
      /\ n.addr \in Nat /\ n.length \in Nat /\ n.length >= 1
  BY EntryFields, Zenon
<1> QED
  BY <1>1 DEF Apart, Before

LEMMA OrderedSeparate ==
  ASSUME NEW s \in Seq(Entries), Ordered(s)
  PROVE  Separate(s)
<1> SUFFICES ASSUME NEW j \in DOMAIN s, NEW k \in DOMAIN s, j # k
             PROVE  Apart(s[j], s[k])
  BY Zenon DEF Separate
<1>1. j < k \/ k < j
  OBVIOUS
<1> QED
  BY <1>1, Zenon DEF Ordered, Apart

\* Sorting orders separate mappings.
LEMMA SortOrders ==
  ASSUME NEW s \in Seq(Entries), Separate(s), AllFit(s), NEW t \in Sorted(s)
  PROVE  /\ t \in Seq(Entries) /\ Len(t) = Len(s) /\ Ordered(t) /\ AllFit(t)
<1>1. /\ t \in Seq(Entries) /\ Len(t) = Len(s) /\ DOMAIN t = DOMAIN s
      /\ \E pi \in Rearrangements(DOMAIN s) :
              \A k \in DOMAIN s : t[k] = s[pi[k]]
      /\ \A j, k \in DOMAIN s : j < k => t[j].addr <= t[k].addr
  BY SortedIs, Zenon
<1>2. PICK pi \in Rearrangements(DOMAIN s) : \A k \in DOMAIN s : t[k] = s[pi[k]]
  BY <1>1, Zenon
<1>3. \A k \in DOMAIN s : pi[k] \in DOMAIN s
  BY Zenon DEF Rearrangements
<1>4. AllFit(t)
  BY <1>1, <1>2, <1>3, Zenon DEF AllFit
<1>5. ASSUME NEW j \in DOMAIN t, NEW k \in DOMAIN t, j < k
      PROVE  Before(t[j], t[k])
  <2>1. j \in DOMAIN s /\ k \in DOMAIN s /\ j # k
    BY <1>1, <1>5
  <2>2. pi[j] # pi[k]
    BY <2>1, Zenon DEF Rearrangements
  <2>3. Apart(t[j], t[k])
    BY <1>2, <1>3, <2>1, <2>2, Zenon DEF Separate
  <2>4. t[j] \in Entries /\ t[k] \in Entries
    BY <1>1
  <2> QED
    BY <1>1, <1>5, <2>1, <2>3, <2>4, ApartFacts, Zenon
<1> QED
  BY <1>1, <1>4, <1>5, Zenon DEF Ordered

\* A new mapping that is apart from the others.
LEMMA AppendSeparate ==
  ASSUME NEW s \in Seq(Entries), Separate(s), AllFit(s),
         NEW m \in Entries, Fits(m), \A k \in DOMAIN s : Apart(m, s[k])
  PROVE  /\ Append(s, m) \in Seq(Entries) /\ Len(Append(s, m)) = Len(s) + 1
         /\ Separate(Append(s, m)) /\ AllFit(Append(s, m))
<1> DEFINE t == Append(s, m)
           n == Len(s) + 1
<1>1. /\ t \in Seq(Entries) /\ Len(t) = n
      /\ \A k \in DOMAIN t : (k = n /\ t[k] = m) \/ (k \in DOMAIN s /\ t[k] = s[k])
  OBVIOUS
<1>2. \A k \in DOMAIN s : s[k] \in Entries
  OBVIOUS
<1> HIDE DEF t, n
<1>3. \A k \in DOMAIN s : Apart(s[k], m)
  BY <1>2, ApartFacts, Zenon
<1>4. Separate(t)
  BY <1>1, <1>3, Zenon DEF Separate
<1>5. AllFit(t)
  BY <1>1, Zenon DEF AllFit
<1> QED
  BY <1>1, <1>4, <1>5, Zenon DEF t, n

\* Removing a mapping.
LEMMA WithoutOrders ==
  ASSUME NEW s \in Seq(Entries), Ordered(s), AllFit(s), NEW i \in DOMAIN s
  PROVE  Ordered(Without(s, i)) /\ AllFit(Without(s, i))
<1> DEFINE t == Without(s, i)
<1>1. /\ DOMAIN t = 1..Len(s) - 1 /\ Len(s) \in Nat
      /\ \A k \in DOMAIN t : /\ Shifted(i, k) \in DOMAIN s
                             /\ t[k] = s[Shifted(i, k)]
  <2>1. Len(s) \in Nat
    OBVIOUS
  <2> QED
    BY <2>1, WithoutIs, Zenon
<1> HIDE DEF t
<1>2. i \in Int
  OBVIOUS
<1>3. ASSUME NEW j \in DOMAIN t, NEW k \in DOMAIN t, j < k
      PROVE  Shifted(i, j) < Shifted(i, k)
  BY <1>1, <1>2, <1>3 DEF Shifted
<1>4. Ordered(t)
  BY <1>1, <1>3, Zenon DEF Ordered
<1>5. AllFit(t)
  BY <1>1, Zenon DEF AllFit
<1> QED
  BY <1>4, <1>5, Zenon DEF t

\* wunmap().
LEMMA UnmappedOrders ==
  ASSUME TypeOK, Ordered(mappings), AllFit(mappings), NEW i \in Slots
  PROVE  Ordered(UnmappedTable(i)) /\ AllFit(UnmappedTable(i))
<1>0. mappings \in Seq(Entries)
  BY Zenon DEF TypeOK
<1>1. CASE i = 0
  BY <1>1, Zenon DEF UnmappedTable
<1>2. CASE i # 0
  <2>1. i \in DOMAIN mappings
    BY <1>2, Zenon DEF Slots
  <2> QED
    BY <1>0, <1>2, <2>1, WithoutOrders, Zenon DEF UnmappedTable
<1> QED
  BY <1>1, <1>2, Zenon

-----------------------------------------------------------------------------
TableGood == TableInv /\ SearchInv /\ MoveInv

\* The table between calls, and as it is left by a step that ends a call.
LEMMA TableNow ==
  ASSUME TypeOK, TableInv, pc \notin {"move", "stopped"}
  PROVE  /\ mappings \in Seq(Entries) /\ Len(mappings) \in Nat
         /\ Len(mappings) <= MAX_WMMAP_INFO /\ MAX_WMMAP_INFO \in Nat
         /\ Ordered(mappings) /\ AllFit(mappings) /\ Separate(mappings)
<1>1. /\ mappings \in Seq(Entries) /\ Len(mappings) <= MAX_WMMAP_INFO
      /\ Ordered(mappings) /\ AllFit(mappings) /\ MAX_WMMAP_INFO \in Nat
  BY WmapAssumption, Zenon DEF TypeOK, TableInv, Ordered, AllFit
<1>2. Len(mappings) \in Nat
  BY <1>1
<1> QED
  BY <1>1, <1>2, OrderedSeparate, Zenon

LEMMA TableThen ==
  ASSUME Len(mappings') <= MAX_WMMAP_INFO, Ordered(mappings'), AllFit(mappings'),
         pc' \notin {"search", "move"}
  PROVE  TableGood'
BY Zenon DEF TableGood, TableInv, SearchInv, MoveInv, Ordered, AllFit

\* wmap() inserts a mapping.
LEMMA InsertTable ==
  ASSUME TypeOK, TableInv, pc \in {"user", "search"}, Len(mappings) < MAX_WMMAP_INFO,
         NEW a \in Nat, NEW len \in 1..KERNBASE, Fits(Mapping(a, len)),
         \A k \in DOMAIN mappings : Apart(Mapping(a, len), mappings[k]),
         mappings' \in Sorted(Append(mappings, Mapping(a, len))), pc' = "user"
  PROVE  TableGood'
<1> DEFINE m == Mapping(a, len)
           s == Append(mappings, m)
<1>1. /\ mappings \in Seq(Entries) /\ Len(mappings) \in Nat /\ MAX_WMMAP_INFO \in Nat
      /\ AllFit(mappings) /\ Separate(mappings)
  BY TableNow, Zenon
<1>2. m \in Entries
  BY MappingIs, Zenon
<1> HIDE DEF m
<1>3. /\ s \in Seq(Entries) /\ Len(s) = Len(mappings) + 1 /\ Separate(s) /\ AllFit(s)
  BY <1>1, <1>2, AppendSeparate, Zenon DEF m
<1>4. mappings' \in Sorted(s)
  BY Zenon DEF m
<1> HIDE DEF s
<1>5. Len(mappings') = Len(s) /\ Ordered(mappings') /\ AllFit(mappings')
  BY <1>3, <1>4, SortOrders, Zenon
<1>6. Len(mappings') <= MAX_WMMAP_INFO
  BY <1>1, <1>3, <1>5
<1> QED
  BY <1>5, <1>6, TableThen, Zenon

LEMMA FixedTable ==
  ASSUME TypeOK, TableGood, ~untested', NEW r \in Fixed, WmapFixed(r[1], r[2])
  PROVE  TableGood'
<1> DEFINE a == r[1]
           len == r[2]
<1>1. a \in Nat /\ len \in 1..KERNBASE
  BY WmapAssumption, Zenon
<1>2. a + len <= KERNBASE
  <2>1. ~(a + len > KERNBASE)
    BY Zenon DEF WmapFixed
  <2> QED
    BY <1>1, <2>1, AlignedFacts
<1>3. /\ pc = "user" /\ pc' = "user" /\ Len(mappings) < MAX_WMMAP_INFO
      /\ WMAPBASE <= a /\ a < KERNBASE /\ Aligned(a)
      /\ \A k \in DOMAIN mappings : ~Overlaps(a, len, mappings[k])
      /\ mappings' \in Sorted(Append(mappings, Mapping(a, len)))
  BY Zenon DEF WmapFixed, Aligned
<1> HIDE DEF a, len
<1>4. a <= KERNBASE
  BY <1>1, <1>3, AlignedFacts
<1>5. TableInv /\ pc \in {"user", "search"}
  BY <1>3, Zenon DEF TableGood
<1>6. Fits(Mapping(a, len))
  BY <1>2, <1>3, MappingFields, Zenon DEF Fits
<1>7. \A k \in DOMAIN mappings : mappings[k] \in Entries /\ Fits(mappings[k])
  BY DEF TypeOK, TableGood, TableInv
<1>8. \A k \in DOMAIN mappings : Apart(Mapping(a, len), mappings[k])
  BY <1>1, <1>3, <1>4, <1>7, TestsSuffice, Zenon
<1> QED
  BY <1>1, <1>3, <1>5, <1>6, <1>8, InsertTable, Zenon

LEMMA InsertFound ==
  ASSUME TypeOK, CallInv, TableGood, WmapInsert
  PROVE  TableGood'
<1> DEFINE a == call.addr
           len == call.size
<1>1. /\ pc = "search" /\ pc' = "user" /\ call.i >= Len(mappings)
      /\ U(a + len - 1) < KERNBASE /\ call.slot = 0
      /\ mappings' \in Sorted(Append(mappings, Mapping(a, len)))
  BY Zenon DEF WmapInsert, InBounds
<1>2. a \in Nat /\ len \in 1..KERNBASE /\ Aligned(a) /\ call.i \in Nat
  BY <1>1, CallFields, Zenon DEF TypeOK, CallInv
<1>3. /\ WMAPBASE <= a /\ a <= KERNBASE /\ Len(mappings) < MAX_WMMAP_INFO
      /\ \A k \in DOMAIN mappings : k <= call.i => Apart(Mapping(a, len), mappings[k])
      /\ TableInv /\ pc \in {"user", "search"}
  BY <1>1, Zenon DEF TableGood, SearchInv, Wanted
<1> HIDE DEF a, len
<1>4. \A k \in DOMAIN mappings : k <= call.i
  BY <1>1, <1>2 DEF TypeOK
<1>5. a + len <= KERNBASE
  <2>1. a + len - 1 < KERNBASE
    BY <1>1, <1>2, <1>3, LastIs, Zenon
  <2> QED
    BY <1>2, <2>1, AlignedFacts
<1>6. Fits(Mapping(a, len))
  BY <1>2, <1>3, <1>5, MappingFields, Zenon DEF Fits
<1> QED
  BY <1>1, <1>2, <1>3, <1>4, <1>6, InsertTable, Zenon

\* Steps that take a mapping from the table.
LEMMA RemoveTable ==
  ASSUME TypeOK, TableGood, pc \in {"user", "exit"}, pc' = pc,
         NEW i \in Slots, mappings' = UnmappedTable(i)
  PROVE  TableGood'
<1>1. /\ mappings \in Seq(Entries) /\ Len(mappings) \in Nat
      /\ Len(mappings) <= MAX_WMMAP_INFO /\ MAX_WMMAP_INFO \in Nat
      /\ Ordered(mappings) /\ AllFit(mappings)
  BY TableNow, Zenon DEF TableGood
<1>2. /\ Ordered(mappings') /\ AllFit(mappings') /\ mappings' \in Seq(Entries)
      /\ Len(mappings') <= Len(mappings)
  BY <1>1, UnmappedOrders, UnmappedIs, Zenon
<1>3. Len(mappings') \in Nat
  BY <1>2
<1>4. Len(mappings') <= MAX_WMMAP_INFO
  BY <1>1, <1>2, <1>3
<1> QED
  BY <1>2, <1>4, TableThen, Zenon

-----------------------------------------------------------------------------
\* wmap() starts its search at WMAPBASE.
LEMMA SearchTable ==
  ASSUME TypeOK, TableGood, NEW len \in Lengths, WmapSearch(len)
  PROVE  TableGood'
<1>1. /\ pc = "user" /\ pc' = "search" /\ mappings' = mappings
      /\ Len(mappings) < MAX_WMMAP_INFO
      /\ call' = [NoCall EXCEPT !.addr = WMAPBASE, !.size = len]
  BY Zenon DEF WmapSearch
<1>2. len \in Nat /\ WMAPBASE \in Nat /\ KERNBASE \in Nat /\ WMAPBASE <= KERNBASE
      /\ WMAPBASE <= WMAPBASE
  BY WmapAssumption
<1>3. call'.addr = WMAPBASE /\ call'.slot = 0 /\ call'.i = 0
  BY <1>1, <1>2, SearchCall, ZenonT(30)
<1>4. \A k \in DOMAIN mappings : ~(k <= 0)
  BY DEF TypeOK
<1>5. SearchInv'
  BY <1>1, <1>2, <1>3, <1>4, Zenon DEF SearchInv
<1>6. TableInv' /\ MoveInv'
  BY <1>1, Zenon DEF TableGood, TableInv, MoveInv
<1> QED
  BY <1>5, <1>6, Zenon DEF TableGood

\* The search goes on behind the mapping it met; it is then behind the ones
\* before that too, because the table is in order.
LEMMA SearchOn ==
  ASSUME TypeOK, CallInv, TableGood, SearchStep, misjudged' = misjudged
  PROVE  TableGood'
<1> DEFINE n == call.i + 1
           m == mappings[n]
           a == IF Overlaps(call.addr, call.size, m) THEN PGROUNDUP(End(m))
                ELSE call.addr
<1>1. /\ pc = "search" /\ pc' = pc /\ mappings' = mappings /\ call.i < Len(mappings)
      /\ call' = [call EXCEPT !.i = @ + 1, !.addr = a]
  BY Zenon DEF SearchStep
<1>2. /\ call.addr \in Nat /\ call.size \in 1..KERNBASE /\ call.i \in Nat
      /\ call \in Calls
  BY <1>1, CallFields, Zenon DEF TypeOK, CallInv
<1>3. /\ mappings \in Seq(Entries) /\ Ordered(mappings) /\ AllFit(mappings)
      /\ TableInv /\ SearchInv
  BY <1>1, TableNow, Zenon DEF TableGood
<1>4. n \in DOMAIN mappings /\ n \in Nat
  BY <1>1, <1>2, <1>3
<1>5. \A k \in DOMAIN mappings : mappings[k] \in Entries /\ k \in Nat
  BY <1>3
<1> HIDE DEF n
<1>6. m \in Entries /\ Fits(m) /\ m.addr \in Nat /\ m.length \in Nat
  BY <1>3, <1>4, <1>5, EntryFields, Zenon DEF AllFit
<1>7. /\ WMAPBASE <= call.addr /\ call.addr <= KERNBASE
      /\ \A k \in DOMAIN mappings :
           k <= call.i => Apart(Mapping(call.addr, call.size), mappings[k])
  BY <1>1, <1>3, Zenon DEF SearchInv, Wanted
<1>8. WMAPBASE \in Nat /\ KERNBASE \in Nat
  BY AlignedFacts, Zenon
<1> DEFINE Good(b) == /\ b \in Nat /\ WMAPBASE <= b /\ b <= KERNBASE
                      /\ \A k \in DOMAIN mappings : k <= call.i + 1 =>
                           Apart(Mapping(b, call.size), mappings[k])
<1>9. ASSUME Overlaps(call.addr, call.size, m) PROVE Good(a)
  <2>1. a = PGROUNDUP(End(m))
    BY <1>9, Zenon
  <2>2. End(m) = m.addr + m.length /\ End(m) \in 0..KERNBASE
    BY <1>6, EndIs, Zenon
  <2>3. a \in Nat /\ End(m) <= a /\ a <= KERNBASE
    BY <2>1, <2>2, RoundUp, Zenon
  <2> HIDE DEF a, m
  <2>4. WMAPBASE <= m.addr
    BY <1>6, Zenon DEF Fits
  <2>5. WMAPBASE <= a
    BY <1>6, <1>8, <2>2, <2>3, <2>4
  <2>6. ASSUME NEW k \in DOMAIN mappings, k <= call.i + 1
        PROVE  Apart(Mapping(a, call.size), mappings[k])
    <3>1. mappings[k].addr \in Nat /\ mappings[k].length \in Nat
      BY <1>5, EntryFields, Zenon
    <3>2. k = n \/ k < n
      BY <1>2, <1>5, <2>6 DEF n
    <3>3. mappings[k] = m \/ mappings[k].addr + mappings[k].length <= m.addr
      BY <1>3, <1>4, <3>2, Zenon DEF Ordered, Before, m
    <3>4. mappings[k].addr + mappings[k].length <= a
      BY <1>6, <2>2, <2>3, <3>1, <3>3
    <3> QED
      BY <3>4, MappingFields, Zenon DEF Apart, Before
  <2> QED
    BY <2>3, <2>5, <2>6, Zenon
<1>10. ASSUME ~Overlaps(call.addr, call.size, m) PROVE Good(a)
  <2>1. a = call.addr
    BY <1>10, Zenon
  <2>2. Apart(Mapping(call.addr, call.size), m)
    BY <1>2, <1>6, <1>7, <1>10, TestsSuffice, Zenon
  <2> HIDE DEF a
  <2>3. ASSUME NEW k \in DOMAIN mappings, k <= call.i + 1
        PROVE  Apart(Mapping(call.addr, call.size), mappings[k])
    <3>1. k = n \/ k <= call.i
      BY <1>2, <1>5, <2>3 DEF n
    <3> QED
      BY <1>7, <2>2, <3>1, Zenon
  <2> QED
    BY <1>2, <1>7, <2>1, <2>3, Zenon
<1>11. Good(a)
  BY <1>9, <1>10, Zenon
<1> HIDE DEF a, m
<1>12. /\ call'.addr = a /\ call'.i = call.i + 1 /\ call'.slot = call.slot
       /\ call'.size = call.size /\ call'.oldaddr = call.oldaddr
       /\ call'.left = call.left
  BY <1>1, <1>2, <1>11, NextCall, Zenon
<1>13. SearchInv'
  BY <1>1, <1>3, <1>11, <1>12, Zenon DEF SearchInv, Wanted
<1>14. TableInv' /\ MoveInv'
  BY <1>1, <1>3, Zenon DEF TableInv, MoveInv
<1> QED
  BY <1>13, <1>14, Zenon DEF TableGood

-----------------------------------------------------------------------------
\* A mapping is resized in its place: it still fits, and what follows begins
\* behind it.
LEMMA ResizeTable ==
  ASSUME TypeOK, TableGood, pc = "user", pc' = "user",
         NEW k \in DOMAIN mappings, NEW new \in 1..KERNBASE,
         mappings' = [mappings EXCEPT ![k].length = new],
         mappings[k].addr + new <= KERNBASE,
         \A j \in DOMAIN mappings : k < j => mappings[k].addr + new <= mappings[j].addr
  PROVE  TableGood'
<1>1. /\ mappings \in Seq(Entries) /\ Len(mappings) <= MAX_WMMAP_INFO
      /\ Ordered(mappings) /\ AllFit(mappings)
  BY TableNow, Zenon DEF TableGood
<1> DEFINE n == [mappings[k] EXCEPT !.length = new]
<1>2. mappings[k] \in Entries
  BY <1>1
<1>3. n \in Entries /\ n.addr = mappings[k].addr /\ n.length = new
  BY <1>2, ResizedIs, Zenon
<1>4. mappings' = [mappings EXCEPT ![k] = n]
  BY Zenon
<1> HIDE DEF n
<1>5. /\ DOMAIN mappings' = DOMAIN mappings /\ Len(mappings') = Len(mappings)
      /\ mappings'[k] = n /\ \A j \in DOMAIN mappings : j # k => mappings'[j] = mappings[j]
  BY <1>1, <1>3, <1>4
<1>6. Fits(n)
  BY <1>1, <1>3, Zenon DEF AllFit, Fits
<1>7. AllFit(mappings')
  BY <1>1, <1>5, <1>6, Zenon DEF AllFit
<1>8. ASSUME NEW i \in DOMAIN mappings', NEW j \in DOMAIN mappings', i < j
      PROVE  Before(mappings'[i], mappings'[j])
  <2>1. i \in DOMAIN mappings /\ j \in DOMAIN mappings /\ i # j
    BY <1>1, <1>5, <1>8
  <2>2. CASE i = k
    <3>1. mappings'[i] = n /\ mappings'[j] = mappings[j]
      BY <1>5, <2>1, <2>2, Zenon
    <3>2. mappings[k].addr + new <= mappings[j].addr
      BY <1>8, <2>1, <2>2, Zenon
    <3> QED
      BY <1>3, <3>1, <3>2, Zenon DEF Before
  <2>3. CASE i # k
    <3>1. mappings'[i] = mappings[i] /\ mappings'[j].addr = mappings[j].addr
      BY <1>3, <1>5, <2>1, <2>3, Zenon
    <3>2. mappings[i].addr + mappings[i].length <= mappings[j].addr
      BY <1>1, <1>8, <2>1, Zenon DEF Ordered, Before
    <3> QED
      BY <3>1, <3>2, Zenon DEF Before
  <2> QED
    BY <2>2, <2>3, Zenon
<1>9. Ordered(mappings')
  BY <1>8, Zenon DEF Ordered
<1> QED
  BY <1>1, <1>5, <1>7, <1>9, TableThen, Zenon

\* A step that stops the kernel leaves the table alone.
LEMMA StopTable ==
  ASSUME TableGood, mappings' = mappings, pc' = "stopped"
  PROVE  TableGood'
BY Zenon DEF TableGood, TableInv, SearchInv, MoveInv

LEMMA RemapTable ==
  ASSUME TypeOK, TableGood, NEW k \in DOMAIN mappings,
         NEW old, NEW new \in NewSizes, ~untested',
         \/ WremapShrink(k, old, new) \/ WremapStop(k, old, new)
         \/ WremapGrow(k, old, new) \/ WremapSearch(k, old, new)
  PROVE  TableGood'
<1>1. pc = "user"
  BY Zenon DEF WremapShrink, WremapStop, WremapGrow, WremapSearch
<1>2. /\ mappings \in Seq(Entries) /\ Len(mappings) \in Nat
      /\ Ordered(mappings) /\ AllFit(mappings)
  BY <1>1, TableNow, Zenon DEF TableGood
<1>3. /\ \A j \in DOMAIN mappings : mappings[j] \in Entries /\ j \in Nat
      /\ DOMAIN mappings = 1..Len(mappings)
  BY <1>2
<1>4. \A j \in DOMAIN mappings :
        mappings[j].addr \in Nat /\ mappings[j].length \in Nat
  BY <1>3, EntryFields, Zenon
<1> DEFINE a == mappings[k].addr
           len == mappings[k].length
<1>5. /\ a \in Nat /\ len \in Nat /\ a + len <= KERNBASE
      /\ new \in 1..KERNBASE /\ new \in Nat /\ KERNBASE \in Nat /\ WMAPBASE \in Nat
  <2>1. new \in 1..KERNBASE /\ new \in Nat /\ KERNBASE \in Nat /\ WMAPBASE \in Nat
    BY WmapAssumption
  <2> QED
    BY <1>2, <1>4, <2>1, Zenon DEF AllFit, Fits
<1>6. a <= KERNBASE
  BY <1>5
<1>7. \A j \in DOMAIN mappings : k < j => a + len <= mappings[j].addr
  BY <1>2, Zenon DEF Ordered, Before
<1> HIDE DEF a, len
<1>8. CASE WremapShrink(k, old, new)
  <2>1. ~(new > len) /\ pc' = "user" /\ mappings' = [mappings EXCEPT ![k].length = new]
    BY <1>8, Zenon DEF WremapShrink, len
  <2>2. a + new <= KERNBASE
    BY <1>5, <2>1
  <2>3. \A j \in DOMAIN mappings : k < j => a + new <= mappings[j].addr
    BY <1>4, <1>5, <1>7, <2>1
  <2> QED
    BY <1>1, <1>5, <2>1, <2>2, <2>3, ResizeTable, Zenon DEF a
<1>9. U(a + new - 1) = a + new - 1
  BY <1>5, <1>6, LastIs, Zenon
<1>10. CASE WremapGrow(k, old, new)
  <2>1. /\ pc' = "user" /\ mappings' = [mappings EXCEPT ![k].length = new]
        /\ a + new - 1 < KERNBASE
        /\ k < Len(mappings) => a + new - 1 < mappings[k + 1].addr
    BY <1>9, <1>10, Zenon DEF WremapGrow, a
  <2>2. a + new <= KERNBASE
    BY <1>5, <2>1
  <2>3. ASSUME NEW j \in DOMAIN mappings, k < j PROVE a + new <= mappings[j].addr
    <3>1. k \in Nat /\ j \in Nat /\ k + 1 \in DOMAIN mappings /\ k < Len(mappings)
      BY <1>2, <1>3, <2>3
    <3>2. k + 1 = j \/ k + 1 < j
      BY <2>3, <3>1
    <3>3. mappings[k + 1] = mappings[j] \/ Before(mappings[k + 1], mappings[j])
      BY <1>2, <3>1, <3>2, Zenon DEF Ordered
    <3> DEFINE m == mappings[k + 1]
    <3>4. m.addr \in Nat /\ m.length \in Nat /\ a + new - 1 < m.addr
      BY <1>4, <2>1, <3>1, Zenon
    <3>5. m.addr = mappings[j].addr \/ m.addr + m.length <= mappings[j].addr
      BY <3>3, Zenon DEF Before
    <3> HIDE DEF m
    <3> QED
      BY <1>4, <1>5, <3>4, <3>5
  <2> QED
    BY <1>1, <1>5, <2>1, <2>2, <2>3, ResizeTable, Zenon DEF a
<1>11. CASE WremapSearch(k, old, new)
  <2>1. /\ pc' = "search" /\ mappings' = mappings /\ old < new
        /\ ~misjudged' => len = old
        /\ call' = [slot |-> k, addr |-> WMAPBASE, size |-> new,
                    oldaddr |-> a, left |-> old, i |-> 0]
    BY <1>5, <1>11, Zenon DEF WremapSearch, a, len
  <2>2. /\ call'.slot = k /\ call'.addr = WMAPBASE /\ call'.size = new
        /\ call'.oldaddr = a /\ call'.left = old /\ call'.i = 0
    BY <2>1, Zenon
  <2>3. \A j \in DOMAIN mappings : ~(j <= 0)
    BY <1>3
  <2>4. k # 0 /\ WMAPBASE <= WMAPBASE /\ WMAPBASE <= KERNBASE
    BY <1>3, AlignedFacts
  <2>5. SearchInv'
    BY <2>1, <2>2, <2>3, <2>4, Zenon DEF SearchInv, a, len
  <2>6. TableInv' /\ MoveInv'
    BY <1>1, <2>1, Zenon DEF TableGood, TableInv, MoveInv
  <2> QED
    BY <2>5, <2>6, Zenon DEF TableGood
<1>12. CASE WremapStop(k, old, new)
  BY <1>12, StopTable, Zenon DEF WremapStop
<1> QED
  BY <1>8, <1>10, <1>11, <1>12, Zenon

-----------------------------------------------------------------------------
\* Being apart is about addresses and lengths only.
LEMMA ApartSame ==
  ASSUME NEW m, NEW n, NEW p, m.addr = n.addr, m.length = n.length
  PROVE  Apart(m, p) <=> Apart(n, p)
BY Zenon DEF Apart, Before

\* wremap() overwrites the slot with the region found, which is apart from all
\* mappings, the old one included.
LEMMA ReplaceTable ==
  ASSUME TypeOK, CallInv, TableGood, WremapReplace, misjudged' = misjudged
  PROVE  TableGood'
<1> DEFINE s == call.slot
           w == Mapping(call.addr, call.size)
<1>1. /\ pc = "search" /\ pc' = "move" /\ call' = call /\ call.i >= Len(mappings)
      /\ U(call.addr + call.size - 1) < KERNBASE /\ s > 0
      /\ mappings' = [mappings EXCEPT ![s].addr = call.addr,
                                      ![s].length = call.size]
  BY Zenon DEF WremapReplace, InBounds
<1>2. /\ call.addr \in Nat /\ call.size \in 1..KERNBASE /\ Aligned(call.addr)
      /\ call.i \in Nat /\ s \in Nat
  BY <1>1, CallFields, Zenon DEF TypeOK, CallInv
<1>3. /\ mappings \in Seq(Entries) /\ Len(mappings) <= MAX_WMMAP_INFO
      /\ Separate(mappings) /\ AllFit(mappings)
  BY <1>1, TableNow, Zenon DEF TableGood
<1>4. s # 0
  BY <1>1, <1>2
<1>5. /\ WMAPBASE <= call.addr /\ call.addr <= KERNBASE
      /\ \A k \in DOMAIN mappings : k <= call.i => Apart(w, mappings[k])
      /\ s \in DOMAIN mappings /\ mappings[s].addr = call.oldaddr
      /\ ~misjudged => mappings[s].length = call.left
      /\ call.left < call.size
  BY <1>1, <1>4, Zenon DEF TableGood, SearchInv, Wanted
<1>6. \A k \in DOMAIN mappings : k <= call.i
  BY <1>1, <1>2, <1>3
<1>7. \A k \in DOMAIN mappings : Apart(w, mappings[k])
  BY <1>5, <1>6, Zenon
<1>8. \A k \in DOMAIN mappings : mappings[k] \in Entries
  BY <1>3
<1>9. /\ DOMAIN mappings' = DOMAIN mappings /\ Len(mappings') = Len(mappings)
      /\ \A k \in DOMAIN mappings : k # s => mappings'[k] = mappings[k]
      /\ mappings'[s] = w
  <2> DEFINE a == call.addr
             t == [mappings EXCEPT ![s].addr = a, ![s].length = call.size]
  <2> HIDE DEF s, a
  <2>1. a \in Nat
    BY <1>2, Zenon DEF a
  <2>2. Replaced(t, s, Mapping(a, call.size))
    BY <1>2, <2>1, ReplaceIs, Zenon
  <2>3. mappings' = t
    BY <1>1, Zenon DEF a
  <2> HIDE DEF t
  <2> QED
    BY <1>5, <2>2, <2>3, Zenon DEF a, Replaced
<1>10. w \in Entries /\ w.addr = call.addr /\ w.length = call.size
  BY <1>2, MappingIs, Zenon
<1> HIDE DEF s, w
<1>11. Fits(w)
  <2>1. call.addr + call.size - 1 < KERNBASE
    BY <1>1, <1>2, <1>5, LastIs, Zenon
  <2>2. call.addr + call.size <= KERNBASE
    BY <1>2, <2>1, AlignedFacts
  <2> QED
    BY <1>2, <1>5, <1>10, <2>2, Zenon DEF Fits
<1>12. \A k \in DOMAIN mappings : Apart(mappings[k], w)
  BY <1>7, <1>8, <1>10, ApartFacts, Zenon
<1>13. TableInv'
  BY <1>1, <1>3, <1>9, <1>11, Zenon DEF TableInv, AllFit
<1>14. Separate(mappings')
  BY <1>3, <1>5, <1>7, <1>9, <1>12, Zenon DEF Separate
<1>15. \A k \in DOMAIN mappings : k # s => Apart(mappings[s], mappings[k])
  BY <1>3, <1>5, Zenon DEF Separate
<1>16. \A k \in DOMAIN mappings' : /\ Apart(mappings[s], mappings'[k])
                                   /\ mappings'[k] \in Entries
  BY <1>5, <1>8, <1>9, <1>10, <1>12, <1>15, Zenon
<1>17. \A k \in DOMAIN mappings' : mappings'[k].addr # call.oldaddr
  BY <1>5, <1>8, <1>16, ApartFacts, Zenon
<1>18. ASSUME ~misjudged, NEW k \in DOMAIN mappings'
       PROVE  Apart(Left, mappings'[k])
  BY <1>5, <1>16, <1>18, ApartSame, MappingFields, ZenonT(30) DEF Left
<1>19. /\ ~misjudged => call.oldaddr + call.left <= KERNBASE
       /\ WMAPBASE <= call.oldaddr /\ Aligned(call.oldaddr)
  BY <1>3, <1>5, Zenon DEF AllFit, Fits
<1>20. Wanted' = w /\ Left' = Left /\ call'.slot = s
  BY <1>1, Zenon DEF Wanted, Left, w, s
<1>21. MoveInv'
  BY <1>1, <1>5, <1>9, <1>14, <1>17, <1>18, <1>19, <1>20, Zenon
     DEF MoveInv, Separate
<1>22. SearchInv'
  BY <1>1, Zenon DEF SearchInv
<1> QED
  BY <1>13, <1>21, <1>22, Zenon DEF TableGood

\* A page less is left to move.
LEMMA MoveTable ==
  ASSUME TypeOK, TableGood, MoveStep, misjudged' = misjudged
  PROVE  TableGood'
<1> DEFINE l == call.left - PGSIZE
<1>1. /\ pc = "move" /\ pc' = pc /\ mappings' = mappings
      /\ call' = [call EXCEPT !.left = l]
  BY Zenon DEF MoveStep
<1>2. /\ call \in Calls /\ call.left \in Int /\ call.oldaddr \in Nat
      /\ call.size \in Nat /\ PGSIZE \in Nat /\ PGSIZE > 0 /\ KERNBASE \in Nat
  BY CallFields, AlignedFacts, Zenon DEF TypeOK
<1>3. l \in Int /\ l < call.left
  BY <1>2
<1> HIDE DEF l
<1>4. /\ call'.left = l /\ call'.addr = call.addr /\ call'.slot = call.slot
      /\ call'.size = call.size /\ call'.oldaddr = call.oldaddr
  BY <1>1, <1>2, <1>3, MovedCall, Zenon
<1>5. MoveInv /\ TableInv
  BY Zenon DEF TableGood
<1>6. l < call.size /\ (~misjudged => call.oldaddr + l <= KERNBASE)
  BY <1>1, <1>2, <1>3, <1>5 DEF MoveInv
<1>7. ASSUME ~misjudged, l > 0, NEW k \in DOMAIN mappings PROVE Apart(Left', mappings[k])
  <2>1. call.left > 0
    BY <1>2, <1>3, <1>7
  <2>2. Apart(Left, mappings[k])
    BY <1>1, <1>5, <1>7, <2>1, Zenon DEF MoveInv
  <2> DEFINE m == mappings[k]
  <2>3. m.addr \in Nat /\ m.length \in Nat
    BY EntryFields DEF TypeOK
  <2>4. call.oldaddr + call.left <= m.addr \/ m.addr + m.length <= call.oldaddr
    BY <2>2, MappingFields, Zenon DEF Left, Apart, Before
  <2> HIDE DEF m
  <2>5. call.oldaddr + l <= m.addr \/ m.addr + m.length <= call.oldaddr
    BY <1>2, <1>3, <2>3, <2>4
  <2>6. Left' = Mapping(call.oldaddr, l)
    BY <1>4, Zenon DEF Left
  <2> QED
    BY <2>5, <2>6, MappingFields, Zenon DEF Apart, Before, m
<1>8. Wanted' = Wanted
  BY <1>4, Zenon DEF Wanted
<1>9. MoveInv'
  BY <1>1, <1>4, <1>5, <1>6, <1>7, <1>8, Zenon DEF MoveInv
<1>10. TableInv' /\ SearchInv'
  BY <1>1, <1>5, Zenon DEF TableInv, SearchInv
<1> QED
  BY <1>9, <1>10, Zenon DEF TableGood

\* The wunmap() at the end of a move finds nothing to remove; sorting puts the
\* table in order again.
LEMMA NothingLeft ==
  ASSUME MoveInv, pc = "move"
  PROVE  At(call.oldaddr) = {}
BY Zenon DEF MoveInv, At

LEMMA MoveDoneTable ==
  ASSUME TypeOK, TableGood, MoveDone
  PROVE  TableGood'
<1>1. /\ pc = "move" /\ pc' = "user"
      /\ \E i \in Found(call.oldaddr) : mappings' \in Sorted(UnmappedTable(i))
  BY Zenon DEF MoveDone
<1>2. mappings' \in Sorted(mappings)
  BY <1>1, NothingLeft, Zenon DEF Found, UnmappedTable, TableGood
<1>3. /\ mappings \in Seq(Entries) /\ Len(mappings) <= MAX_WMMAP_INFO
      /\ AllFit(mappings) /\ Separate(mappings)
  BY <1>1, Zenon DEF TypeOK, TableGood, TableInv, MoveInv, AllFit, Separate
<1>4. Len(mappings') = Len(mappings) /\ Ordered(mappings') /\ AllFit(mappings')
  BY <1>2, <1>3, SortOrders, Zenon
<1>5. pc' \notin {"search", "move"}
  BY <1>1, Zenon
<1> QED
  BY <1>3, <1>4, <1>5, TableThen, Zenon

-----------------------------------------------------------------------------
\* Stuttering steps.
LEMMA Unchanged ==
  ASSUME UNCHANGED vars
  PROVE  /\ TypeOK => TypeOK'
         /\ CallInv => CallInv'
         /\ FrameInv => FrameInv'
         /\ BoundInv => BoundInv'
         /\ TableGood => TableGood'
         /\ PageInv => PageInv'
         /\ untested' = untested
<1>1. mappings' = mappings /\ mem' = mem /\ pc' = pc /\ call' = call
      /\ wild' = wild /\ lost' = lost /\ split' = split
      /\ untested' = untested /\ misjudged' = misjudged
  BY Zenon DEF vars
<1>2. TypeOK => TypeOK'
  BY <1>1, Zenon DEF TypeOK
<1>3. CallInv => CallInv'
  BY <1>1, Zenon DEF CallInv
<1>4. FrameInv => FrameInv'
  BY <1>1, Zenon DEF FrameInv
<1>5. TableInv => TableInv'
  BY <1>1, Zenon DEF TableInv
<1>6. SearchInv => SearchInv'
  BY <1>1, Zenon DEF SearchInv, Wanted
<1>7. MoveInv => MoveInv'
  BY <1>1, Zenon DEF MoveInv, Wanted, Left
<1>8. PageInv => PageInv'
  BY <1>1, Zenon DEF PageInv, Moving
<1>9. BoundInv => BoundInv'
  BY <1>1, Zenon DEF BoundInv, AllAligned
<1> QED
  BY <1>1, <1>2, <1>3, <1>4, <1>5, <1>6, <1>7, <1>8, <1>9, Zenon DEF TableGood

\* The history variables stay set.
LEMMA HistoryStays ==
  ASSUME Next
  PROVE  /\ ~untested' => ~untested
         /\ ~misjudged' => ~misjudged
         /\ ~wild' => ~wild /\ ~NullRead
<1> DEFINE Stays == (~untested' => ~untested) /\ (~misjudged' => ~misjudged)
<1>1. ASSUME NEW k, NEW old, NEW new, WremapShrink(k, old, new) PROVE Stays
  BY <1>1, Zenon DEF WremapShrink
<1>2. ASSUME NEW k, NEW old, NEW new, WremapStop(k, old, new) PROVE Stays
  BY <1>2, Zenon DEF WremapStop
<1>3. ASSUME NEW k, NEW old, NEW new, WremapGrow(k, old, new) PROVE Stays
  BY <1>3, Zenon DEF WremapGrow
<1>4. ASSUME NEW k, NEW old, NEW new, WremapSearch(k, old, new) PROVE Stays
  BY <1>4, Zenon DEF WremapSearch
<1>5. ASSUME NEW r, WmapFixed(r[1], r[2]) PROVE Stays
  BY <1>5, Zenon DEF WmapFixed
<1>6. ASSUME UNCHANGED <<untested, misjudged>> PROVE Stays
  BY <1>6, Zenon
<1>7. wild' = (wild \/ NullRead)
  BY Zenon DEF Next
<1> HIDE DEF Stays
<1>8. Wremap => Stays
  BY <1>1, <1>2, <1>3, <1>4, Zenon DEF Wremap
<1>9. Stays
  BY <1>5, <1>6, <1>8, Zenon DEF Next
<1> QED
  BY <1>7, <1>9, Zenon DEF Stays

\* Every step keeps the table in order, unless it gives a mapping a length that
\* it has not tested.
LEMMA TableStep ==
  ASSUME TypeOK, CallInv, TableGood, Next, ~untested'
  PROVE  TableGood'
<1>1. ASSUME mappings' = mappings, pc \in {"user", "search", "exit"}, pc' \notin {"search", "move"}
      PROVE  TableGood'
  <2>1. Len(mappings) <= MAX_WMMAP_INFO /\ Ordered(mappings) /\ AllFit(mappings)
    BY <1>1, TableNow, Zenon DEF TableGood
  <2> QED
    BY <1>1, <2>1, TableThen, Zenon
<1>2. ASSUME NEW r \in Fixed, WmapFixed(r[1], r[2]) PROVE TableGood'
  BY <1>2, FixedTable, Zenon
<1>3. ASSUME NEW len \in Lengths, WmapSearch(len) PROVE TableGood'
  BY <1>3, SearchTable, Zenon
<1>4. ASSUME SearchStep, misjudged' = misjudged PROVE TableGood'
  BY <1>4, SearchOn, Zenon
<1>5. CASE SearchFail
  BY <1>1, <1>5, Zenon DEF SearchFail
<1>6. CASE WmapInsert
  BY <1>6, InsertFound, Zenon
<1>7. ASSUME NEW a, Wunmap(a) PROVE TableGood'
  <2>1. pc = "user" /\ pc' = pc /\ \E i \in Found(a) : mappings' = UnmappedTable(i)
    BY <1>7, Zenon DEF Wunmap
  <2> QED
    BY <2>1, FoundIs, RemoveTable, Zenon
<1>8. CASE Wremap
  BY <1>8, RemapTable, Zenon DEF Wremap
<1>9. ASSUME WremapReplace, misjudged' = misjudged PROVE TableGood'
  BY <1>9, ReplaceTable, Zenon
<1>10. ASSUME MoveStep, misjudged' = misjudged PROVE TableGood'
  BY <1>10, MoveTable, Zenon
<1>11. CASE MoveDone
  BY <1>11, MoveDoneTable, Zenon
<1>12. ASSUME NEW a \in Pages, FaultLoad(a) \/ FaultExit(a) PROVE TableGood'
  <2>1. mappings' = mappings /\ pc = "user" /\ pc' \in {"user", "exit"}
    BY <1>12, Zenon DEF FaultLoad, FaultExit
  <2> QED
    BY <1>1, <2>1, Zenon
<1>13. CASE Exec \/ Exit \/ ExitZombie
  BY <1>1, <1>13, Zenon DEF Exec, Exit, ExitZombie
<1>14. CASE ExitUnmap
  <2>1. /\ pc = "exit" /\ pc' = pc
        /\ \E i \in Found(mappings[call.i + 1].addr) :
             mappings' = UnmappedTable(i)
    BY <1>14, Zenon DEF ExitUnmap
  <2> QED
    BY <2>1, FoundIs, RemoveTable, Zenon
<1>15. CASE Reap
  <2>1. mappings' = <<>> /\ pc' = "user"
    BY <1>15, Zenon DEF Reap
  <2>2. Len(mappings') <= MAX_WMMAP_INFO /\ Ordered(mappings') /\ AllFit(mappings')
    BY <2>1, WmapAssumption DEF Ordered, AllFit
  <2> QED
    BY <2>1, <2>2, TableThen, Zenon
<1>16. CASE Stop \/ Stopped
  BY <1>16, StopTable, Zenon DEF Stop, Stopped
<1>17. ASSUME Sizeless, misjudged' = misjudged PROVE TableGood'
  BY <1>3, <1>4, <1>5, <1>6, <1>7, <1>9, <1>10, <1>11, <1>12, <1>13, <1>14,
     <1>15, <1>16, <1>17, Zenon DEF Sizeless
<1> QED
  BY <1>2, <1>8, <1>17, Zenon DEF Next

LEMMA TableInit == Init => TableGood
<1> SUFFICES ASSUME Init PROVE TableGood
  BY Zenon
<1>1. mappings = <<>> /\ pc = "user"
  BY Zenon DEF Init
<1>2. TableInv
  BY <1>1, WmapAssumption DEF TableInv
<1> QED
  BY <1>1, <1>2, Zenon DEF TableGood, SearchInv, MoveInv

-----------------------------------------------------------------------------
\* The bound of the table and the alignment of its mappings.
LEMMA SortAligned ==
  ASSUME NEW s \in Seq(Entries), AllAligned(s), NEW t \in Sorted(s)
  PROVE  Len(t) = Len(s) /\ AllAligned(t)
<1>1. PICK pi \in Rearrangements(DOMAIN s) : \A k \in DOMAIN s : t[k] = s[pi[k]]
  BY SortedIs, Zenon
<1>2. \A k \in DOMAIN s : pi[k] \in DOMAIN s
  BY Zenon DEF Rearrangements
<1>3. DOMAIN t = DOMAIN s /\ Len(t) = Len(s)
  BY SortedIs, Zenon
<1> QED
  BY <1>1, <1>2, <1>3, Zenon DEF AllAligned

LEMMA UnmappedAligned ==
  ASSUME TypeOK, AllAligned(mappings), NEW i \in Slots
  PROVE  AllAligned(UnmappedTable(i))
<1>1. CASE i = 0
  BY <1>1, Zenon DEF UnmappedTable
<1>2. CASE i # 0
  <2>1. mappings \in Seq(Entries) /\ i \in DOMAIN mappings
    BY <1>2, Zenon DEF TypeOK, Slots
  <2> DEFINE t == Without(mappings, i)
  <2>2. \A k \in DOMAIN t : /\ Shifted(i, k) \in DOMAIN mappings
                             /\ t[k] = mappings[Shifted(i, k)]
    BY <2>1, WithoutIs, Zenon
  <2>3. UnmappedTable(i) = t
    BY <1>2, Zenon DEF UnmappedTable
  <2> HIDE DEF t
  <2> QED
    BY <2>2, <2>3, Zenon DEF AllAligned
<1> QED
  BY <1>1, <1>2, Zenon

LEMMA BoundInsert ==
  ASSUME TypeOK, BoundInv, Len(mappings) < MAX_WMMAP_INFO,
         NEW a \in Nat, NEW len \in 1..KERNBASE, Aligned(a),
         mappings' \in Sorted(Append(mappings, Mapping(a, len))), pc' = "user"
  PROVE  BoundInv'
<1> DEFINE m == Mapping(a, len)
           s == Append(mappings, m)
<1>1. mappings \in Seq(Entries) /\ m \in Entries /\ Aligned(m.addr)
      /\ AllAligned(mappings) /\ MAX_WMMAP_INFO \in Nat
  BY WmapAssumption, MappingIs, Zenon DEF TypeOK, BoundInv
<1>2. mappings' \in Sorted(s)
  BY Zenon
<1> HIDE DEF m
<1>3. /\ s \in Seq(Entries) /\ Len(s) = Len(mappings) + 1
      /\ \A k \in DOMAIN s : \/ s[k] = m
                             \/ k \in DOMAIN mappings /\ s[k] = mappings[k]
  BY <1>1
<1> HIDE DEF s
<1>4. AllAligned(s)
  BY <1>1, <1>3, Zenon DEF AllAligned
<1>5. Len(mappings') = Len(s) /\ AllAligned(mappings')
  BY <1>2, <1>3, <1>4, SortAligned, Zenon
<1>6. Len(mappings') <= MAX_WMMAP_INFO
  BY <1>1, <1>3, <1>5
<1> QED
  BY <1>5, <1>6, Zenon DEF BoundInv, AllAligned

LEMMA BoundResize ==
  ASSUME TypeOK, BoundInv, NEW k \in DOMAIN mappings, NEW new \in 1..KERNBASE,
         mappings' = [mappings EXCEPT ![k].length = new], pc' = "user"
  PROVE  BoundInv'
<1> DEFINE n == [mappings[k] EXCEPT !.length = new]
<1>1. mappings \in Seq(Entries) /\ mappings[k] \in Entries
  BY DEF TypeOK
<1>2. n \in Entries /\ n.addr = mappings[k].addr
  BY <1>1, ResizedIs, Zenon
<1>3. mappings' = [mappings EXCEPT ![k] = n]
  BY Zenon
<1> HIDE DEF n
<1>4. /\ DOMAIN mappings' = DOMAIN mappings /\ Len(mappings') = Len(mappings)
      /\ mappings'[k] = n /\ \A j \in DOMAIN mappings : j # k => mappings'[j] = mappings[j]
  BY <1>1, <1>2, <1>3
<1> QED
  BY <1>2, <1>4, Zenon DEF BoundInv, AllAligned

LEMMA BoundStep ==
  ASSUME TypeOK, CallInv, BoundInv, Next
  PROVE  BoundInv'
<1>1. /\ mappings \in Seq(Entries) /\ Len(mappings) <= MAX_WMMAP_INFO
      /\ AllAligned(mappings) /\ MAX_WMMAP_INFO \in Nat /\ Len(mappings) \in Nat
  BY WmapAssumption DEF TypeOK, BoundInv
<1>2. ASSUME mappings' = mappings, pc' # "search" PROVE BoundInv'
  BY <1>1, <1>2, Zenon DEF BoundInv, AllAligned
<1>3. ASSUME NEW i \in Slots, pc' # "search",
             mappings' = UnmappedTable(i) \/ mappings' \in Sorted(UnmappedTable(i))
      PROVE  BoundInv'
  <2> DEFINE t == UnmappedTable(i)
  <2>1. t \in Seq(Entries) /\ Len(t) <= Len(mappings) /\ AllAligned(t)
    BY <1>1, UnmappedIs, UnmappedAligned, Zenon
  <2> HIDE DEF t
  <2>2. Len(mappings') = Len(t) /\ AllAligned(mappings')
    BY <1>3, <2>1, SortAligned, Zenon DEF t
  <2>3. Len(mappings') <= MAX_WMMAP_INFO
    BY <1>1, <2>1, <2>2
  <2> QED
    BY <1>3, <2>2, <2>3, Zenon DEF BoundInv, AllAligned
<1>4. ASSUME NEW r \in Fixed, WmapFixed(r[1], r[2]) PROVE BoundInv'
  <2>1. r[1] \in Nat /\ r[2] \in 1..KERNBASE
    BY WmapAssumption, Zenon
  <2>2. /\ pc' = "user" /\ Len(mappings) < MAX_WMMAP_INFO /\ Aligned(r[1])
        /\ mappings' \in Sorted(Append(mappings, Mapping(r[1], r[2])))
    BY <1>4, Zenon DEF WmapFixed, Aligned
  <2> QED
    BY <2>1, <2>2, BoundInsert, Zenon
<1>5. ASSUME NEW len, WmapSearch(len) PROVE BoundInv'
  BY <1>1, <1>5, Zenon DEF WmapSearch, BoundInv, AllAligned
<1>6. CASE SearchStep
  <2> DEFINE m == mappings[call.i + 1]
             a == IF Overlaps(call.addr, call.size, m) THEN PGROUNDUP(End(m))
                  ELSE call.addr
  <2>1. /\ pc = "search" /\ call.i < Len(mappings) /\ mappings' = mappings
        /\ call' = [call EXCEPT !.i = @ + 1, !.addr = a]
    BY <1>6, Zenon DEF SearchStep
  <2>2. call \in Calls /\ call.i \in Nat /\ call.addr \in Nat
    BY CallFields, Zenon DEF TypeOK
  <2>3. m \in Entries
    BY <1>1, <2>1, <2>2
  <2>4. a \in Nat
    <3> HIDE DEF m
    <3> QED
      BY <2>2, <2>3, EndNat, RoundUpNat, Zenon
  <2> HIDE DEF a
  <2>5. call'.slot = call.slot
    BY <2>1, <2>2, <2>4, NextCall, Zenon
  <2> QED
    BY <1>1, <2>1, <2>5, Zenon DEF BoundInv, AllAligned
<1>7. CASE SearchFail
  BY <1>2, <1>7, Zenon DEF SearchFail
<1>8. CASE WmapInsert
  <2>1. /\ pc = "search" /\ pc' = "user" /\ call.slot = 0
        /\ mappings' \in Sorted(Append(mappings, Mapping(call.addr, call.size)))
    BY <1>8, Zenon DEF WmapInsert
  <2>2. /\ call.addr \in Nat /\ call.size \in 1..KERNBASE /\ Aligned(call.addr)
        /\ Len(mappings) < MAX_WMMAP_INFO
    BY <2>1, CallFields, Zenon DEF TypeOK, CallInv, BoundInv
  <2> QED
    BY <2>1, <2>2, BoundInsert, Zenon
<1>9. ASSUME NEW a, Wunmap(a) PROVE BoundInv'
  <2>1. pc' = "user" /\ \E i \in Found(a) : mappings' = UnmappedTable(i)
    BY <1>9, Zenon DEF Wunmap
  <2> QED
    BY <1>3, <2>1, FoundIs, Zenon
<1>10. CASE Wremap
  <2>1. PICK k \in DOMAIN mappings, new \in NewSizes : \E old :
          \/ WremapShrink(k, old, new)
          \/ WremapStop(k, old, new)
          \/ WremapGrow(k, old, new)
          \/ WremapSearch(k, old, new)
    BY <1>10, Zenon DEF Wremap
  <2>6. PICK old : \/ WremapShrink(k, old, new)
                   \/ WremapStop(k, old, new)
                   \/ WremapGrow(k, old, new)
                   \/ WremapSearch(k, old, new)
    BY <2>1, Zenon
  <2>2. new \in 1..KERNBASE /\ k # 0
    BY <1>1, WmapAssumption
  <2>3. CASE WremapShrink(k, old, new) \/ WremapGrow(k, old, new)
    <3>1. mappings' = [mappings EXCEPT ![k].length = new] /\ pc' = "user"
      BY <2>3, Zenon DEF WremapShrink, WremapGrow
    <3> QED
      BY <2>2, <3>1, BoundResize, Zenon
  <2>4. CASE WremapStop(k, old, new)
    BY <1>2, <2>4, Zenon DEF WremapStop
  <2>5. CASE WremapSearch(k, old, new)
    <3>1. mappings' = mappings /\ call'.slot = k
      BY <2>5, Zenon DEF WremapSearch
    <3> QED
      BY <1>1, <2>2, <3>1, Zenon DEF BoundInv, AllAligned
  <2> QED
    BY <2>3, <2>4, <2>5, <2>6, Zenon
<1>11. CASE WremapReplace
  <2>1. /\ pc = "search" /\ pc' = "move"
        /\ mappings' = [mappings EXCEPT ![call.slot].addr = call.addr,
                                        ![call.slot].length = call.size]
    BY <1>11, Zenon DEF WremapReplace
  <2>2. call.addr \in Nat /\ call.size \in 1..KERNBASE /\ Aligned(call.addr)
    BY <2>1, CallFields, Zenon DEF TypeOK, CallInv
  <2> DEFINE m == Mapping(call.addr, call.size)
  <2>3. Replaced(mappings', call.slot, m) /\ m.addr = call.addr
    BY <2>1, <2>2, ReplaceIs, MappingFields, Zenon
  <2> HIDE DEF m
  <2> QED
    BY <1>1, <2>1, <2>2, <2>3, Zenon DEF Replaced, BoundInv, AllAligned
<1>12. CASE MoveStep
  <2>1. mappings' = mappings /\ pc' = "move"
    BY <1>12, Zenon DEF MoveStep
  <2> QED
    BY <1>2, <2>1, Zenon
<1>13. CASE MoveDone
  <2>1. /\ pc' = "user"
        /\ \E i \in Found(call.oldaddr) : mappings' \in Sorted(UnmappedTable(i))
    BY <1>13, Zenon DEF MoveDone
  <2> QED
    BY <1>3, <2>1, FoundIs, Zenon
<1>14. ASSUME NEW a, FaultLoad(a) \/ FaultExit(a) PROVE BoundInv'
  <2>1. mappings' = mappings /\ pc' \in {"user", "exit"}
    BY <1>14, Zenon DEF FaultLoad, FaultExit
  <2> QED
    BY <1>2, <2>1, Zenon
<1>15. CASE Exec \/ Exit \/ ExitZombie \/ Stop \/ Stopped
  BY <1>2, <1>15, Zenon DEF Exec, Exit, ExitZombie, Stop, Stopped
<1>16. CASE ExitUnmap
  <2>1. /\ pc' = "exit"
        /\ \E i \in Found(mappings[call.i + 1].addr) :
             mappings' = UnmappedTable(i)
    BY <1>16, Zenon DEF ExitUnmap
  <2> QED
    BY <1>3, <2>1, FoundIs, Zenon
<1>17. CASE Reap
  <2>1. mappings' = <<>> /\ pc' = "user"
    BY <1>17, Zenon DEF Reap
  <2>2. Len(mappings') <= MAX_WMMAP_INFO /\ DOMAIN mappings' = {}
    BY <1>1, <2>1
  <2> QED
    BY <2>1, <2>2, Zenon DEF BoundInv, AllAligned
<1> QED
  BY <1>4, <1>5, <1>6, <1>7, <1>8, <1>9, <1>10, <1>11, <1>12, <1>13, <1>14,
     <1>15, <1>16, <1>17, Zenon DEF Next, Sizeless

LEMMA BoundInit == Init => BoundInv
<1> SUFFICES ASSUME Init PROVE BoundInv
  BY Zenon
<1>1. mappings = <<>> /\ pc = "user"
  BY Zenon DEF Init
<1>2. Len(mappings) <= MAX_WMMAP_INFO /\ DOMAIN mappings = {}
  BY <1>1, WmapAssumption
<1> QED
  BY <1>1, <1>2, Zenon DEF BoundInv, AllAligned

\* Whole pages too: the next mapping begins at a page boundary.
LEMMA TableMeans ==
  ASSUME TypeOK, BoundInv, ~untested => TableGood
  PROVE  TableOK
<1>0. /\ Len(mappings) <= MAX_WMMAP_INFO
      /\ \A k \in DOMAIN mappings : mappings[k].addr % PGSIZE = 0
  BY Zenon DEF BoundInv, AllAligned, Aligned
<1> SUFFICES ASSUME TableGood
             PROVE  /\ \A k \in DOMAIN mappings :
                         /\ WMAPBASE <= mappings[k].addr
                         /\ mappings[k].addr + mappings[k].length <= KERNBASE
                    /\ pc \in {"user", "exit", "zombie"} =>
                         \A j, k \in DOMAIN mappings :
                           j < k => PGROUNDUP(mappings[j].addr + mappings[j].length)
                                      <= mappings[k].addr
  BY <1>0, Zenon DEF TableOK
<1>1. Len(mappings) <= MAX_WMMAP_INFO /\ AllFit(mappings)
  BY Zenon DEF TableGood, TableInv, AllFit
<1>2. ASSUME pc \in {"user", "exit", "zombie"},
             NEW j \in DOMAIN mappings, NEW k \in DOMAIN mappings, j < k
      PROVE  PGROUNDUP(mappings[j].addr + mappings[j].length) <= mappings[k].addr
  <2> DEFINE e == mappings[j].addr + mappings[j].length
             b == mappings[k].addr
  <2>1. e <= b
    BY <1>2, TableNow, Zenon DEF TableGood, Ordered, Before
  <2>2. mappings[j] \in Entries /\ mappings[k] \in Entries
    BY DEF TypeOK
  <2>3. /\ mappings[j].addr \in Nat /\ mappings[j].length \in Nat /\ b \in Nat
        /\ e <= KERNBASE /\ Aligned(b)
    BY <1>1, <2>2, EntryFields, Zenon DEF AllFit, Fits
  <2>4. e \in 0..KERNBASE /\ b \in Int
    BY <2>3, AlignedFacts
  <2> HIDE DEF e, b
  <2>5. PGROUNDUP(e) <= b
    BY <2>1, <2>3, <2>4, RoundUp, Zenon
  <2> QED
    BY <2>5, Zenon DEF e, b
<1> QED
  BY <1>1, <1>2, Zenon DEF AllFit, Fits

\* The table of mappings stays within its bound and page aligned whatever the
\* calls, and is in order, in the WMAP area and without overlaps through any
\* sequence of calls, faults and moves, at any page size and any number of
\* entries, with right and wrong old sizes, until a call gives a mapping a
\* length that it has not compared with KERNBASE and the next mapping.
THEOREM TableIsRight == Spec => []TableOK
<1> DEFINE I == TypeOK /\ CallInv /\ BoundInv /\ (~untested => TableGood)
<1>1. Init => I
  BY TypeFrameInit, BoundInit, TableInit, Zenon
<1>2. I /\ [Next]_vars => I'
  <2> SUFFICES ASSUME I, [Next]_vars PROVE I'
    BY Zenon
  <2>1. CASE Next
    BY <2>1, TypeStep, BoundStep, TableStep, HistoryStays, Zenon
  <2>2. CASE UNCHANGED vars
    BY <2>2, Unchanged, Zenon
  <2> QED
    BY <2>1, <2>2, Zenon
<1>3. I => TableOK
  BY TableMeans, Zenon
<1> QED
  BY <1>1, <1>2, <1>3, PTL DEF Spec

-----------------------------------------------------------------------------
\* A mapping that stays in the table keeps its pages.
LEMMA HeldKept ==
  ASSUME NEW s, NEW t, \A k \in DOMAIN s : \E j \in DOMAIN t : t[j] = s[k],
         NEW a, Held(s, a)
  PROVE  Held(t, a)
BY Zenon DEF Held

LEMMA SortKeeps ==
  ASSUME NEW s \in Seq(Entries), NEW t \in Sorted(s), NEW a, Held(s, a)
  PROVE  Held(t, a)
<1>1. /\ DOMAIN t = DOMAIN s
      /\ \E pi \in Rearrangements(DOMAIN s) : \A k \in DOMAIN s : t[k] = s[pi[k]]
  BY SortedIs, Zenon
<1>2. PICK pi \in Rearrangements(DOMAIN s) : \A k \in DOMAIN s : t[k] = s[pi[k]]
  BY <1>1, Zenon
<1>3. \A j \in DOMAIN s : \E k \in DOMAIN s : pi[k] = j
  BY Zenon DEF Rearrangements
<1>4. ASSUME NEW k \in DOMAIN s PROVE \E j \in DOMAIN t : t[j] = s[k]
  <2>1. PICK j \in DOMAIN s : pi[j] = k
    BY <1>3, Zenon
  <2>2. t[j] = s[k] /\ j \in DOMAIN t
    BY <1>1, <1>2, <2>1, Zenon
  <2> QED
    BY <2>2, Zenon
<1> QED
  BY <1>4, HeldKept, Zenon

LEMMA AppendKeeps ==
  ASSUME NEW s \in Seq(Entries), NEW m, NEW a, Held(s, a)
  PROVE  Held(Append(s, m), a)
<1> DEFINE t == Append(s, m)
<1>1. \A k \in DOMAIN s : k \in DOMAIN t /\ t[k] = s[k]
  OBVIOUS
<1> HIDE DEF t
<1>2. Held(t, a)
  BY <1>1, Zenon DEF Held
<1> QED
  BY <1>2, Zenon DEF t

\* What the fault handler looks for.
LEMMA CoveringIs ==
  ASSUME TypeOK, AllFit(mappings), NEW a
  PROVE  Covering(a) # {} <=> Held(mappings, a)
<1>1. \A k \in DOMAIN mappings : mappings[k] \in Entries /\ Fits(mappings[k])
  BY DEF TypeOK, AllFit
<1>2. \A k \in DOMAIN mappings :
        End(mappings[k]) = mappings[k].addr + mappings[k].length
  BY <1>1, EndIs, Zenon
<1>3. \A k \in DOMAIN mappings : k \in Covering(a) <=> Within(mappings[k], a)
  BY <1>2, Zenon DEF Covering, Within
<1>4. Covering(a) \subseteq DOMAIN mappings
  BY Zenon DEF Covering
<1> QED
  BY <1>3, <1>4, Zenon DEF Held

\* The pages.
LEMMA PageFacts ==
  ASSUME NEW a \in Pages
  PROVE  a \in Nat /\ Aligned(a) /\ WMAPBASE <= a /\ a < KERNBASE
<1>1. a \in WMAPBASE..KERNBASE - 1 /\ Aligned(a)
  BY Zenon DEF Pages, Aligned
<1> QED
  BY <1>1, AlignedFacts

\* After wunmap() the pages that are left belong to the mappings that are left:
\* every page of the mapping is freed, a partial last one too.
LEMMA UnmapKeeps ==
  ASSUME TypeOK, AllFit(mappings), FrameOK(mem), DOMAIN mem.pte \subseteq Pages,
         NEW i \in Slots
  PROVE  /\ DOMAIN UnmappedMem(i).pte \subseteq DOMAIN mem.pte
         /\ \A b \in DOMAIN UnmappedMem(i).pte :
              Held(mappings, b) => Held(UnmappedTable(i), b)
<1>1. CASE i = 0
  BY <1>1, Zenon DEF UnmappedMem, UnmappedTable
<1>2. CASE i # 0
  <2> DEFINE m == mappings[i]
             X == {b \in DOMAIN mem.pte :
                     m.addr <= b /\ b < PGROUNDUP(m.addr + m.length)}
             t == Without(mappings, i)
  <2>1. UnmappedMem(i) = FreePages(mem, X) /\ UnmappedTable(i) = t
    BY <1>2, Zenon DEF UnmappedMem, UnmappedTable
  <2>2. i \in DOMAIN mappings /\ mappings \in Seq(Entries)
    BY <1>2, Zenon DEF Slots, TypeOK
  <2>3. m \in Entries /\ Fits(m)
    BY <2>2 DEF AllFit
  <2>4. \A k \in DOMAIN mappings : k # i => \E j \in DOMAIN t : t[j] = mappings[k]
    BY <2>2, WithoutIs, Zenon
  <2> HIDE DEF m, t
  <2>5. m.addr \in Nat /\ m.length \in Nat /\ m.addr + m.length <= KERNBASE
    BY <2>3, EntryFields, Zenon DEF Fits
  <2> DEFINE e == m.addr + m.length
  <2>6. e \in 0..KERNBASE
    BY <2>5, AlignedFacts
  <2>7. PGROUNDUP(e) \in Nat /\ e <= PGROUNDUP(e)
    <3> HIDE DEF e
    <3> QED
      BY <2>6, RoundUp, Zenon
  <2>8. DOMAIN FreePages(mem, X).pte = DOMAIN mem.pte \ X
    <3> HIDE DEF X
    <3> QED
      BY FreePagesOK, Zenon
  <2>9. ASSUME NEW b \in DOMAIN mem.pte, b \notin X, Held(mappings, b)
        PROVE  Held(t, b)
    <3>1. b \in Nat
      BY PageFacts, Zenon
    <3>2. ~(m.addr <= b /\ b < PGROUNDUP(e))
      BY <2>9, Zenon
    <3>3. ~(m.addr <= b /\ b < e)
      BY <2>5, <2>6, <2>7, <3>1, <3>2
    <3>4. PICK k \in DOMAIN mappings : Within(mappings[k], b)
      BY <2>9, Zenon DEF Held
    <3>5. k # i
      BY <3>3, <3>4, Zenon DEF Within, m
    <3> QED
      BY <2>4, <3>4, <3>5, Zenon DEF Held
  <2> HIDE DEF X
  <2> QED
    BY <2>1, <2>8, <2>9, Zenon
<1> QED
  BY <1>1, <1>2, Zenon

\* The loop of wremap() that shrinks a mapping frees every page behind the new
\* end.
LEMMA ShrinkFrees ==
  ASSUME NEW m \in Entries, Fits(m), NEW new \in Nat, new < m.length,
         Aligned(m.length), NEW b \in Pages, Within(m, b),
         ~(b < m.addr + new)
  PROVE  \E t \in new + 1..m.length :
           /\ (m.length - t) % PGSIZE = 0
           /\ PGROUNDDOWN(U(m.addr + t - PGSIZE)) = b
<1>1. /\ m.addr \in Nat /\ m.length \in Nat /\ PGSIZE \in Nat /\ PGSIZE > 0
      /\ Aligned(m.addr) /\ Aligned(PGSIZE)
  BY EntryFields, AlignedFacts, Zenon DEF Fits
<1>2. /\ b \in Nat /\ Aligned(b) /\ b < KERNBASE /\ KERNBASE \in Nat
      /\ UINT = 2 * KERNBASE
  BY PageFacts, AlignedFacts, Zenon
<1>3. m.addr <= b /\ b < m.addr + m.length
  BY Zenon DEF Within
<1> DEFINE t == b - m.addr + PGSIZE
<1>4. m.addr \in Int /\ m.length \in Int /\ PGSIZE \in Int /\ b \in Int
  BY <1>1, <1>2
<1>5. m.addr + m.length \in Int /\ Aligned(m.addr + m.length)
  BY <1>1, <1>4, AlignedSum, Zenon
<1>10. b + PGSIZE <= m.addr + m.length
  BY <1>2, <1>3, <1>4, <1>5, AlignedStep, Zenon
<1>6. t \in new + 1..m.length /\ m.addr + t - PGSIZE = b
  BY <1>1, <1>2, <1>3, <1>10
<1>7. Aligned(m.length - t)
  <2>1. b - m.addr \in Int /\ Aligned(b - m.addr)
    BY <1>1, <1>2, <1>4, AlignedSum, Zenon
  <2>2. t \in Int /\ Aligned(t)
    BY <1>1, <1>4, <2>1, AlignedSum, Zenon
  <2> HIDE DEF t
  <2> QED
    BY <1>4, <2>2, AlignedSum, Zenon
<1> HIDE DEF t
<1>8. U(b) = b /\ PGROUNDDOWN(b) = b
  <2>1. b \in Int /\ 0 <= b /\ b < UINT
    BY <1>2
  <2> QED
    BY <1>2, <2>1, NoWrap, RoundDown, Zenon
<1>9. (m.length - t) % PGSIZE = 0 /\ PGROUNDDOWN(U(m.addr + t - PGSIZE)) = b
  BY <1>6, <1>7, <1>8, Zenon DEF Aligned
<1> QED
  BY <1>6, <1>9, Zenon

LEMMA ShrinkKeeps ==
  ASSUME TypeOK, TableGood, FrameOK(mem), DOMAIN mem.pte \subseteq Pages,
         \A b \in DOMAIN mem.pte : Held(mappings, b),
         NEW k \in DOMAIN mappings, NEW old, old = mappings[k].length,
         NEW new \in NewSizes, Aligned(old),
         WremapShrink(k, old, new)
  PROVE  /\ DOMAIN mem'.pte \subseteq DOMAIN mem.pte
         /\ \A b \in DOMAIN mem'.pte : Held(mappings', b)
<1> DEFINE m == mappings[k]
           n == [m EXCEPT !.length = new]
           temps == {t \in new + 1..old : (old - t) % PGSIZE = 0}
           gone(t) == PGROUNDDOWN(U(m.addr + t - PGSIZE))
           X == {gone(t) : t \in temps}
<1>1. /\ pc = "user" /\ new < old /\ mappings' = [mappings EXCEPT ![k] = n]
      /\ mem' = FreePages(mem, X)
  BY Zenon DEF WremapShrink, ShrinkPages
<1>2. /\ mappings \in Seq(Entries) /\ AllFit(mappings)
  BY <1>1, TableNow, Zenon DEF TableGood
<1>3. m \in Entries /\ Fits(m)
  BY <1>2 DEF AllFit
<1>4. new \in 1..KERNBASE /\ new \in Nat
  BY WmapAssumption
<1>5. n \in Entries /\ n.addr = m.addr /\ n.length = new
  <2> HIDE DEF m
  <2> QED
    BY <1>3, <1>4, ResizedIs, Zenon
<1> HIDE DEF n
<1>6. /\ DOMAIN mappings' = DOMAIN mappings /\ mappings'[k] = n
      /\ \A j \in DOMAIN mappings : j # k => mappings'[j] = mappings[j]
  BY <1>1, <1>2, <1>5, Zenon
<1>7. DOMAIN mem'.pte = DOMAIN mem.pte \ X
  <2> HIDE DEF X
  <2> QED
    BY <1>1, FreePagesOK, Zenon
<1>8. ASSUME NEW b \in DOMAIN mem.pte, b \notin X PROVE Held(mappings', b)
  <2>1. PICK j \in DOMAIN mappings : Within(mappings[j], b)
    BY Zenon DEF Held
  <2>2. CASE j # k
    BY <1>6, <2>1, <2>2, Zenon DEF Held
  <2>3. CASE j = k
    <3>1. Within(m, b) /\ old = m.length /\ b \in Pages
      BY <2>1, <2>3, Zenon
    <3>2. ASSUME ~(b < m.addr + new) PROVE FALSE
      <4>1. \E t \in new + 1..old : (old - t) % PGSIZE = 0 /\ gone(t) = b
        <5>1. new < m.length /\ Aligned(m.length)
          BY <1>1, <3>1, Zenon
        <5> HIDE DEF m
        <5>2. \E t \in new + 1..m.length :
                /\ (m.length - t) % PGSIZE = 0
                /\ PGROUNDDOWN(U(m.addr + t - PGSIZE)) = b
          BY <1>3, <1>4, <3>1, <3>2, <5>1, ShrinkFrees, Zenon
        <5> QED
          BY <3>1, <5>2, Zenon
      <4>2. b \in X
        BY <4>1, Zenon
      <4> QED
        BY <1>8, <4>2, Zenon
    <3>3. Within(n, b)
      BY <1>5, <3>1, <3>2, Zenon DEF Within
    <3> QED
      BY <1>6, <3>3, Zenon DEF Held
  <2> QED
    BY <2>2, <2>3, Zenon
<1> QED
  BY <1>7, <1>8, Zenon

LEMMA GrowKeeps ==
  ASSUME TypeOK, TableGood, NEW k \in DOMAIN mappings,
         NEW new \in NewSizes, WremapGrow(k, mappings[k].length, new),
         NEW b \in Nat, Held(mappings, b)
  PROVE  Held(mappings', b)
<1> DEFINE m == mappings[k]
           n == [m EXCEPT !.length = new]
<1>1. new > m.length /\ mappings' = [mappings EXCEPT ![k] = n]
  BY Zenon DEF WremapGrow
<1>2. mappings \in Seq(Entries) /\ m \in Entries
  BY DEF TypeOK
<1>3. new \in 1..KERNBASE /\ new \in Nat
  BY WmapAssumption
<1>4. m.addr \in Nat /\ m.length \in Nat
  BY <1>2, EntryFields, Zenon
<1>5. n \in Entries /\ n.addr = m.addr /\ n.length = new
  <2> HIDE DEF m
  <2> QED
    BY <1>2, <1>3, ResizedIs, Zenon
<1> HIDE DEF n
<1>6. /\ DOMAIN mappings' = DOMAIN mappings /\ mappings'[k] = n
      /\ \A j \in DOMAIN mappings : j # k => mappings'[j] = mappings[j]
  BY <1>1, <1>2, <1>5, Zenon
<1>7. Within(m, b) => Within(n, b)
  BY <1>1, <1>3, <1>4, <1>5 DEF Within
<1> QED
  BY <1>6, <1>7, Zenon DEF Held

\* The pages that an iteration of the move works on: the last one left of the
\* old region, and the one at the same place in the new region.
LEMMA MovePlaces ==
  ASSUME TypeOK, CallInv, TableGood, pc = "move", call.left > 0, ~misjudged
  PROVE  /\ call.addr \in Nat /\ call.oldaddr \in Nat /\ call.left \in Nat
         /\ call.size \in Nat /\ PGSIZE \in Nat /\ PGSIZE > 0
         /\ Aligned(call.addr) /\ Aligned(call.oldaddr) /\ Aligned(call.left)
         /\ OldPage = call.oldaddr + call.left - PGSIZE
         /\ NewAddr = call.addr + call.left - PGSIZE
         /\ NewAddr \in Pages /\ PGSIZE <= call.left /\ call.left < call.size
<1>1. /\ call.addr \in Nat /\ call.oldaddr \in Nat /\ call.left \in Int
      /\ call.size \in Nat
  BY CallFields, Zenon DEF TypeOK
<1>2. /\ PGSIZE \in Nat /\ PGSIZE > 0 /\ Aligned(PGSIZE) /\ Aligned(0)
      /\ KERNBASE \in Nat /\ UINT = 2 * KERNBASE /\ WMAPBASE \in Nat
  BY AlignedFacts, Zenon
<1>3. Aligned(call.addr) /\ Aligned(call.oldaddr) /\ Aligned(call.left)
  BY Zenon DEF CallInv, TableGood, MoveInv
<1>4. /\ call.oldaddr + call.left <= KERNBASE /\ call.left < call.size
      /\ WMAPBASE <= call.oldaddr
  BY Zenon DEF TableGood, MoveInv
<1>5. WMAPBASE <= call.addr /\ call.addr + call.size <= KERNBASE
  <2>1. Fits(Wanted)
    BY Zenon DEF TableGood, MoveInv, TableInv
  <2> QED
    BY <2>1, MappingFields, Zenon DEF Fits, Wanted
<1>6. PGSIZE <= call.left
  <2>1. 0 \in Int /\ call.left \in Int /\ 0 < call.left
    BY <1>1
  <2>2. 0 + PGSIZE <= call.left
    BY <1>2, <1>3, <2>1, AlignedStep, Zenon
  <2> QED
    BY <1>2, <2>2
<1> DEFINE o == call.oldaddr + call.left - PGSIZE
           n == call.addr + call.left - PGSIZE
<1>7. /\ o \in Int /\ 0 <= o /\ o < UINT /\ n \in Int /\ 0 <= n /\ n < UINT
      /\ n \in WMAPBASE..KERNBASE - 1 /\ call.left \in Nat
  BY <1>1, <1>2, <1>4, <1>5, <1>6
<1>8. ASSUME NEW a \in Nat, Aligned(a)
      PROVE  Aligned(a + call.left - PGSIZE)
  <2>1. a \in Int /\ call.left \in Int /\ PGSIZE \in Int
    BY <1>1, <1>2
  <2> DEFINE d == call.left - PGSIZE
  <2>2. d \in Int /\ Aligned(d)
    BY <1>2, <1>3, <2>1, AlignedSum, Zenon
  <2>3. Aligned(a + d)
    <3> HIDE DEF d
    <3> QED
      BY <1>8, <2>1, <2>2, AlignedSum, Zenon
  <2> QED
    BY <2>3, Zenon
<1>9. Aligned(o) /\ Aligned(n)
  BY <1>1, <1>3, <1>8, Zenon
<1>10. OldPage = PGROUNDDOWN(U(o)) /\ NewAddr = U(n)
  BY Zenon DEF OldPage, NewAddr
<1>12. n \in Pages
  BY <1>7, <1>9, Zenon DEF Pages, Aligned
<1>11. OldPage = o /\ NewAddr = n
  <2> HIDE DEF o, n
  <2> QED
    BY <1>7, <1>9, <1>10, NoWrap, RoundDown, Zenon
<1> QED
  BY <1>1, <1>2, <1>3, <1>4, <1>6, <1>7, <1>11, <1>12, Zenon

\* An iteration of the move takes the page from the rest of the old region to
\* the moved part of the new one.
LEMMA MoveKeeps ==
  ASSUME TypeOK, CallInv, TableGood, MoveStep, ~NullRead, ~misjudged,
         FrameOK(mem), DOMAIN mem.pte \subseteq Pages,
         \A b \in DOMAIN mem.pte : Moving(b)
  PROVE  /\ DOMAIN mem'.pte \subseteq Pages
         /\ \A b \in DOMAIN mem'.pte : Moving(b)'
<1> DEFINE l == call.left - PGSIZE
<1>1. /\ pc = "move" /\ call.left > 0 /\ mappings' = mappings
      /\ call' = [call EXCEPT !.left = l]
  BY Zenon DEF MoveStep
<1>2. /\ call.addr \in Nat /\ call.oldaddr \in Nat /\ call.left \in Nat
      /\ call.size \in Nat /\ PGSIZE \in Nat /\ PGSIZE > 0
      /\ Aligned(call.addr) /\ Aligned(call.oldaddr) /\ Aligned(call.left)
      /\ OldPage = call.oldaddr + call.left - PGSIZE
      /\ NewAddr = call.addr + call.left - PGSIZE
      /\ NewAddr \in Pages /\ PGSIZE <= call.left /\ call.left < call.size
  BY <1>1, MovePlaces, Zenon
<1>3. /\ call'.addr = call.addr /\ call'.oldaddr = call.oldaddr
      /\ call'.slot = call.slot /\ call'.left = l
  <2>1. l \in Int /\ call \in Calls
    BY <1>2 DEF TypeOK
  <2> HIDE DEF l
  <2> QED
    BY <1>1, <2>1, MovedCall, Zenon
<1>4. DOMAIN mem'.pte \subseteq (DOMAIN mem.pte \ {OldPage}) \cup {NewAddr}
  <2>1. CASE OldPage \in DOMAIN mem.pte /\ MoveFrame(mem.pte[OldPage])
    BY <1>1, <1>2, <2>1, MoveFrames, Zenon
  <2>2. CASE mem' = mem /\ OldPage \notin DOMAIN mem.pte
    BY <2>2, Zenon
  <2>3. CASE mem' # mem /\ Region(OldPage) \notin DOMAIN mem.tab
    BY <1>1, <2>3, Zenon DEF NullRead
  <2>4. Region(OldPage) \notin DOMAIN mem.tab => OldPage \notin DOMAIN mem.pte
    BY Zenon DEF FrameOK
  <2> QED
    BY <2>1, <2>2, <2>3, <2>4, Zenon DEF MoveStep
<1>5. call.slot \in DOMAIN mappings /\ mappings[call.slot] = Wanted
  BY <1>1, Zenon DEF TableGood, MoveInv
<1>6. ASSUME NEW b, b = NewAddr PROVE Moving(b)'
  <2>1. call.addr <= b /\ b < call.addr + call.size /\ call.addr + l <= b
    BY <1>2, <1>6
  <2>2. Wanted.addr = call.addr /\ Wanted.length = call.size
    BY MappingFields, Zenon DEF Wanted
  <2>3. Within(mappings[call.slot], b)
    BY <1>5, <2>1, <2>2, Zenon DEF Within
  <2> HIDE DEF l
  <2> QED
    BY <1>1, <1>3, <1>5, <2>1, <2>3, Zenon DEF Moving
<1>7. ASSUME NEW b \in DOMAIN mem.pte, b # OldPage PROVE Moving(b)'
  <2>1. b \in Nat /\ Aligned(b) /\ b \in Int
    BY PageFacts
  <2>2. Moving(b)
    BY Zenon
  <2>3. CASE \E k \in DOMAIN mappings :
               Within(mappings[k], b) /\ (k = call.slot => call.addr + call.left <= b)
    <3>1. call.addr + call.left <= b => call.addr + l <= b
      BY <1>2, <2>1
    <3> HIDE DEF l
    <3> QED
      BY <1>1, <1>3, <2>3, <3>1, Zenon DEF Moving
  <2>4. CASE call.oldaddr <= b /\ b < call.oldaddr + call.left
    <3>1. call.oldaddr \in Int /\ call.left \in Int
      BY <1>2
    <3>2. call.oldaddr + call.left \in Int /\ Aligned(call.oldaddr + call.left)
      BY <1>2, <3>1, AlignedSum, Zenon
    <3>3. b + PGSIZE <= call.oldaddr + call.left
      BY <2>1, <2>4, <3>2, AlignedStep, Zenon
    <3>4. b < call.oldaddr + l
      BY <1>2, <1>7, <2>1, <3>3
    <3> HIDE DEF l
    <3> QED
      BY <1>3, <2>4, <3>4, Zenon DEF Moving
  <2> QED
    BY <2>2, <2>3, <2>4, Zenon DEF Moving
<1>8. ASSUME NEW b \in DOMAIN mem'.pte PROVE b \in Pages /\ Moving(b)'
  <2>1. (b \in DOMAIN mem.pte /\ b # OldPage) \/ b = NewAddr
    BY <1>4, Zenon
  <2> QED
    BY <1>2, <1>6, <1>7, <2>1, Zenon
<1> QED
  BY <1>8, Zenon

\* wremap() starts to move: all pages of the old mapping are in the old region.
LEMMA ReplaceKeeps ==
  ASSUME TypeOK, CallInv, TableGood, WremapReplace, ~misjudged,
         NEW b, Held(mappings, b)
  PROVE  Moving(b)'
<1>1. /\ pc = "search" /\ call.slot > 0 /\ call' = call
      /\ mappings' = [mappings EXCEPT ![call.slot].addr = call.addr,
                                      ![call.slot].length = call.size]
  BY Zenon DEF WremapReplace
<1>2. call.addr \in Nat /\ call.size \in 1..KERNBASE
  BY <1>1, CallFields, Zenon DEF TypeOK, CallInv
<1> DEFINE w == Mapping(call.addr, call.size)
<1>3. Replaced(mappings', call.slot, w)
  BY <1>1, <1>2, ReplaceIs, Zenon
<1> HIDE DEF w
<1>4. /\ DOMAIN mappings' = DOMAIN mappings
      /\ \A j \in DOMAIN mappings : j # call.slot => mappings'[j] = mappings[j]
  BY <1>3, Zenon DEF Replaced
<1>5. PICK k \in DOMAIN mappings : Within(mappings[k], b)
  BY Zenon DEF Held
<1>6. CASE k = call.slot
  <2>1. mappings[k].addr = call.oldaddr /\ mappings[k].length = call.left
    <3>1. call.slot # 0
      BY <1>1, CallFields DEF TypeOK
    <3> QED
      BY <1>1, <1>6, <3>1, Zenon DEF TableGood, SearchInv
  <2> QED
    BY <1>1, <1>5, <2>1, Zenon DEF Moving, Within
<1>7. CASE k # call.slot
  BY <1>1, <1>4, <1>5, <1>7, Zenon DEF Moving
<1> QED
  BY <1>6, <1>7, Zenon

\* The move is over: nothing is left of the old region.
LEMMA MoveDoneKeeps ==
  ASSUME TypeOK, TableGood, MoveDone
  PROVE  mem' = mem /\ \A b \in Nat : Moving(b) => Held(mappings', b)
<1>1. /\ pc = "move" /\ call.left <= 0
      /\ \E i \in Found(call.oldaddr) : /\ mappings' \in Sorted(UnmappedTable(i))
                                       /\ mem' = UnmappedMem(i)
  BY Zenon DEF MoveDone
<1>2. At(call.oldaddr) = {}
  BY <1>1, NothingLeft, Zenon DEF TableGood
<1>3. mem' = mem /\ mappings' \in Sorted(mappings)
  BY <1>1, <1>2, Zenon DEF Found, UnmappedMem, UnmappedTable
<1>4. ASSUME NEW b \in Nat, Moving(b) PROVE Held(mappings', b)
  <2>1. call.oldaddr \in Nat /\ call.left \in Int
    BY CallFields, Zenon DEF TypeOK
  <2>2. ~(call.oldaddr <= b /\ b < call.oldaddr + call.left)
    BY <1>1, <2>1
  <2>3. Held(mappings, b)
    BY <1>4, <2>2, Zenon DEF Moving, Held
  <2> QED
    BY <1>3, <2>3, SortKeeps, Zenon DEF TypeOK
<1> QED
  BY <1>3, <1>4, Zenon

\* No page is in two mappings that are apart.
LEMMA ApartPages ==
  ASSUME NEW m, NEW n, m.addr \in Nat, m.length \in Nat, n.addr \in Nat,
         n.length \in Nat, Apart(m, n), NEW b \in Nat, Within(m, b), Within(n, b)
  PROVE  FALSE
BY DEF Apart, Before, Within

\* The move never finds a page at the place that it moves the next one to.
LEMMA PlaceIsFree ==
  ASSUME TypeOK, CallInv, TableGood, pc = "move", call.left > 0, ~misjudged,
         NEW b, b = NewAddr, Moving(b)
  PROVE  FALSE
<1>1. /\ call.addr \in Nat /\ call.oldaddr \in Nat /\ call.left \in Nat
      /\ call.size \in Nat /\ PGSIZE \in Nat /\ PGSIZE > 0
      /\ b = call.addr + call.left - PGSIZE
      /\ b \in Pages /\ PGSIZE <= call.left /\ call.left < call.size
  BY MovePlaces, Zenon
<1>2. /\ b \in Nat /\ call.addr <= b /\ b < call.addr + call.size
      /\ ~(call.addr + call.left <= b)
  BY <1>1
<1>3. /\ Wanted.addr = call.addr /\ Wanted.length = call.size
      /\ Left.addr = call.oldaddr /\ Left.length = call.left
  BY MappingFields, Zenon DEF Wanted, Left
<1>4. /\ call.slot \in DOMAIN mappings /\ mappings[call.slot] = Wanted
      /\ \A k \in DOMAIN mappings : k # call.slot => Apart(mappings[k], Wanted)
      /\ Apart(Left, Wanted)
  BY Zenon DEF TableGood, MoveInv
<1>5. Within(Wanted, b) /\ Wanted.addr \in Nat /\ Wanted.length \in Nat
  BY <1>1, <1>2, <1>3, Zenon DEF Within
<1>6. ASSUME NEW k \in DOMAIN mappings, Within(mappings[k], b),
             k = call.slot => call.addr + call.left <= b
      PROVE  FALSE
  <2>1. Apart(mappings[k], Wanted)
    BY <1>2, <1>4, <1>6, Zenon
  <2>2. mappings[k].addr \in Nat /\ mappings[k].length \in Nat
    <3>1. mappings[k] \in Entries
      BY DEF TypeOK
    <3> QED
      BY <3>1, EntryFields, Zenon
  <2> QED
    BY <1>2, <1>5, <1>6, <2>1, <2>2, ApartPages, Zenon
<1>7. ASSUME call.oldaddr <= b, b < call.oldaddr + call.left PROVE FALSE
  <2>1. Within(Left, b) /\ Left.addr \in Nat /\ Left.length \in Nat
    BY <1>1, <1>3, <1>7, Zenon DEF Within
  <2> QED
    BY <1>2, <1>4, <1>5, <2>1, ApartPages, Zenon
<1> QED
  BY <1>6, <1>7, Zenon DEF Moving

\* Addresses in the WMAP area.
LEMMA InsideIs ==
  ASSUME NEW a \in Int, WMAPBASE <= a, a < KERNBASE
  PROVE  ~(a < WMAPBASE - PGSIZE \/ a >= KERNBASE)
BY AlignedFacts

\* So mappages() may map it.
LEMMA MoveMayMap ==
  ASSUME TypeOK, CallInv, TableGood, pc = "move", call.left > 0, ~misjudged,
         \A b \in DOMAIN mem.pte : Moving(b)
  PROVE  MayMap
<1> DEFINE a == NewAddr
<1>1. a \in Pages
  BY MovePlaces, Zenon
<1>2. a \notin DOMAIN mem.pte
  BY PlaceIsFree, Zenon
<1>3. a \in Int /\ a \in Nat /\ Aligned(a) /\ a \in 0..KERNBASE /\ a <= a
      /\ WMAPBASE <= a /\ a < KERNBASE
  BY <1>1, PageFacts, AlignedFacts
<1> HIDE DEF a
<1>4. PGROUNDDOWN(a) = a
  BY <1>3, RoundDown, Zenon
<1>5. PGROUNDUP(a) \in Nat /\ a <= PGROUNDUP(a) /\ PGROUNDUP(a) <= a
  BY <1>3, RoundUp, Zenon
<1>6. PGROUNDUP(a) = a
  BY <1>3, <1>5
<1>7. Visited(a) = {a}
  BY <1>4, <1>6, Zenon DEF Visited, PGROUNDUP
<1>8. ~(a < WMAPBASE - PGSIZE \/ a >= KERNBASE)
  BY <1>3, InsideIs, Zenon
<1> QED
  BY <1>2, <1>7, <1>8, Zenon DEF MayMap, Outside, a

\* Nor do the other loops leave the WMAP area.
LEMMA UnmapInside ==
  ASSUME TypeOK, AllFit(mappings), NEW i \in Slots
  PROVE  ~Outside(UnmapPages(i))
<1> SUFFICES ASSUME NEW b \in UnmapPages(i)
             PROVE  ~(b < WMAPBASE - PGSIZE \/ b >= KERNBASE)
  BY Zenon DEF Outside
<1> DEFINE m == mappings[i]
           e == m.addr + m.length
<1>1. b \in Addresses /\ i # 0 /\ m.addr <= b /\ b < PGROUNDUP(e)
  BY Zenon DEF UnmapPages
<1>2. b \in Int
  BY <1>1 DEF Addresses
<1>3. m \in Entries /\ Fits(m)
  BY <1>1 DEF TypeOK, Slots, AllFit
<1> HIDE DEF m
<1>4. m.addr \in Nat /\ m.length \in Nat /\ WMAPBASE <= m.addr /\ e <= KERNBASE
  BY <1>3, EntryFields, Zenon DEF Fits
<1>5. e \in 0..KERNBASE /\ WMAPBASE \in Nat /\ KERNBASE \in Nat
  BY <1>4, AlignedFacts
<1>6. PGROUNDUP(e) \in Nat /\ PGROUNDUP(e) <= KERNBASE
  <2> HIDE DEF e
  <2> QED
    BY <1>5, RoundUp, Zenon
<1> HIDE DEF e
<1>7. WMAPBASE <= b /\ b < KERNBASE
  BY <1>1, <1>2, <1>4, <1>5, <1>6
<1> QED
  BY <1>2, <1>7, InsideIs, Zenon

LEMMA CoverInside ==
  ASSUME TypeOK, AllFit(mappings), NEW a \in Addresses, Covering(a) # {}
  PROVE  ~Outside({a})
<1>1. PICK k \in DOMAIN mappings : Within(mappings[k], a)
  BY CoveringIs, Zenon DEF Held
<1> DEFINE m == mappings[k]
<1>2. a \in Int /\ m \in Entries /\ Fits(m)
  BY DEF Addresses, TypeOK, AllFit
<1>3. m.addr <= a /\ a < m.addr + m.length
  BY <1>1, Zenon DEF Within
<1> HIDE DEF m
<1>4. m.addr \in Nat /\ m.length \in Nat /\ WMAPBASE <= m.addr
      /\ m.addr + m.length <= KERNBASE
  BY <1>2, EntryFields, Zenon DEF Fits
<1>5. WMAPBASE <= a /\ a < KERNBASE
  BY <1>2, <1>3, <1>4, AlignedFacts
<1> QED
  BY <1>2, <1>5, InsideIs, Zenon DEF Outside

LEMMA ShrinkInside ==
  ASSUME TypeOK, AllFit(mappings), NEW k \in DOMAIN mappings, NEW new \in NewSizes,
         Aligned(mappings[k].length)
  PROVE  ~Outside(ShrinkPages(k, mappings[k].length, new))
<1> DEFINE m == mappings[k]
           gone(t) == PGROUNDDOWN(U(m.addr + t - PGSIZE))
<1> SUFFICES ASSUME NEW t \in new + 1..m.length, (m.length - t) % PGSIZE = 0
             PROVE  ~(gone(t) < WMAPBASE - PGSIZE \/ gone(t) >= KERNBASE)
  BY Zenon DEF Outside, ShrinkPages
<1>1. m \in Entries /\ Fits(m)
  BY DEF TypeOK, AllFit
<1>2. Aligned(m.length) /\ Aligned(m.length - t)
  BY Zenon DEF Aligned
<1> HIDE DEF m
<1>3. /\ m.addr \in Nat /\ m.length \in Nat /\ WMAPBASE <= m.addr
      /\ m.addr + m.length <= KERNBASE /\ Aligned(m.addr)
  BY <1>1, EntryFields, Zenon DEF Fits
<1>4. /\ PGSIZE \in Nat /\ PGSIZE > 0 /\ Aligned(PGSIZE) /\ Aligned(0)
      /\ KERNBASE \in Nat /\ UINT = 2 * KERNBASE /\ WMAPBASE \in Nat
  BY AlignedFacts, Zenon
<1>5. new \in Nat
  BY WmapAssumption
<1>6. /\ t \in Int /\ 0 < t /\ t <= m.length /\ m.length - t \in Int
      /\ m.length \in Int /\ m.addr \in Int /\ PGSIZE \in Int /\ 0 \in Int
      /\ t = m.length - (m.length - t)
  BY <1>3, <1>4, <1>5
<1>7. Aligned(t)
  <2> DEFINE d == m.length - t
  <2>1. d \in Int /\ Aligned(d) /\ t = m.length - d
    BY <1>2, <1>6, Zenon
  <2> HIDE DEF d
  <2> QED
    BY <1>2, <1>6, <2>1, AlignedSum, Zenon
<1>8. 0 + PGSIZE <= t
  BY <1>4, <1>6, <1>7, AlignedStep, Zenon
<1> DEFINE d == t - PGSIZE
           p == m.addr + d
<1>9. d \in Int /\ Aligned(d)
  BY <1>4, <1>6, <1>7, AlignedSum, Zenon
<1>10. p \in Int /\ WMAPBASE <= p /\ p < KERNBASE /\ 0 <= p /\ p < UINT
  BY <1>3, <1>4, <1>6, <1>8
<1>13. gone(t) = PGROUNDDOWN(U(p))
  BY Zenon
<1> HIDE DEF d
<1>11. Aligned(p)
  BY <1>3, <1>6, <1>9, AlignedSum, Zenon
<1> HIDE DEF p
<1>12. PGROUNDDOWN(U(p)) = p
  BY <1>10, <1>11, NoWrap, RoundDown, Zenon
<1>14. gone(t) = p
  BY <1>12, <1>13, Zenon
<1> HIDE DEF gone
<1> QED
  BY <1>10, <1>14, InsideIs, Zenon

\* No call, fault, move or exit touches anything else.
LEMMA NeverStops ==
  ASSUME TypeOK, CallInv, TableGood, ~misjudged, Stop,
         pc = "move" => \A b \in DOMAIN mem.pte : Moving(b)
  PROVE  FALSE
<1>1. AllFit(mappings)
  BY Zenon DEF TableGood, TableInv, AllFit
<1>2. \A a : \A i \in Found(a) : ~Outside(UnmapPages(i))
  BY <1>1, FoundIs, UnmapInside, Zenon
<1>3. \A a \in Addresses : ~(Outside({a}) /\ Covering(a) # {})
  BY <1>1, CoverInside, Zenon
<1>4. pc = "move" /\ call.left > 0 => MayMap
  BY MoveMayMap, Zenon
<1> QED
  BY <1>2, <1>3, <1>4, Zenon DEF Stop

\* Every step keeps the pages in their mappings.
LEMMA PageStep ==
  ASSUME TypeOK, CallInv, FrameInv, ~untested => TableGood, PageInv, Next
  PROVE  PageInv'
<1> DEFINE Good == /\ DOMAIN mem'.pte \subseteq Pages /\ pc' # "stopped"
                   /\ pc' \in {"user", "search"} =>
                        \A b \in DOMAIN mem'.pte : Held(mappings', b)
                   /\ pc' = "move" => \A b \in DOMAIN mem'.pte : Moving(b)'
<1> SUFFICES ASSUME ~wild, ~NullRead, ~untested, ~misjudged, ~misjudged' PROVE Good
  <2>1. split' = (split \/ PageSplit)
    BY Zenon DEF Next
  <2>2. ASSUME ~wild', ~untested', ~misjudged'
        PROVE  ~wild /\ ~NullRead /\ ~untested /\ ~misjudged
    BY <2>2, HistoryStays, Zenon
  <2>3. ASSUME ~wild', ~untested', ~misjudged' PROVE ~split'
    <3>1. ~split
      BY <2>2, <2>3, Zenon DEF PageInv
    <3>2. ~PageSplit
      BY <2>2, <2>3, Zenon DEF PageSplit, CallInv, Aligned
    <3> QED
      BY <2>1, <3>1, <3>2, Zenon
  <2> HIDE DEF Good
  <2>4. ASSUME ~wild', ~untested', ~misjudged' PROVE Good
    BY <2>2, <2>4, Zenon
  <2> QED
    BY <2>3, <2>4, Zenon DEF PageInv, Good
<1>0. TableGood /\ pc # "stopped" /\ ~split
  BY Zenon DEF PageInv
<1>1. /\ FrameOK(mem) /\ DOMAIN mem.pte \subseteq Pages
      /\ pc \in {"user", "search"} => \A b \in DOMAIN mem.pte : Held(mappings, b)
      /\ pc = "move" => \A b \in DOMAIN mem.pte : Moving(b)
  BY <1>0, Zenon DEF FrameInv, PageInv
<1>2. DOMAIN mem.pte \subseteq Nat
  BY <1>1, PageFacts, Zenon
<1>3. mappings \in Seq(Entries) /\ AllFit(mappings)
  BY <1>0, Zenon DEF TypeOK, TableGood, TableInv, AllFit
<1>4. ASSUME mappings' = mappings, DOMAIN mem'.pte \subseteq DOMAIN mem.pte,
             pc \in {"user", "search"}, pc' \notin {"move", "stopped"}
      PROVE  Good
  BY <1>1, <1>4, Zenon
<1>5. ASSUME DOMAIN mem'.pte \subseteq Pages, pc' \in {"exit", "zombie"}
      PROVE  Good
  BY <1>5, Zenon
<1>6. ASSUME NEW m, mappings' \in Sorted(Append(mappings, m)), m \in Entries,
             mem' = mem, pc \in {"user", "search"}, pc' = "user"
      PROVE  Good
  <2>1. Append(mappings, m) \in Seq(Entries)
    BY <1>3, <1>6
  <2>2. ASSUME NEW b \in DOMAIN mem.pte PROVE Held(mappings', b)
    <3>1. Held(Append(mappings, m), b)
      BY <1>1, <1>3, <1>6, AppendKeeps, Zenon
    <3> QED
      BY <1>6, <2>1, <3>1, SortKeeps, Zenon
  <2> QED
    BY <1>1, <1>6, <2>2, Zenon
<1>7. ASSUME NEW r \in Fixed, WmapFixed(r[1], r[2]) PROVE Good
  <2>1. r[1] \in Nat /\ r[2] \in 1..KERNBASE
    BY WmapAssumption, Zenon
  <2>2. Mapping(r[1], r[2]) \in Entries
    BY <2>1, MappingIs, Zenon
  <2> QED
    BY <1>6, <1>7, <2>2, Zenon DEF WmapFixed
<1>8. ASSUME NEW len \in Lengths, WmapSearch(len) PROVE Good
  BY <1>4, <1>8, Zenon DEF WmapSearch
<1>9. CASE SearchStep \/ SearchFail
  BY <1>4, <1>9, Zenon DEF SearchStep, SearchFail
<1>10. CASE WmapInsert
  <2>1. pc = "search" /\ call.addr \in Nat /\ call.size \in 1..KERNBASE
    BY <1>10, CallFields, Zenon DEF WmapInsert, TypeOK, CallInv
  <2>2. Mapping(call.addr, call.size) \in Entries
    BY <2>1, MappingIs, Zenon
  <2> QED
    BY <1>6, <1>10, <2>2, Zenon DEF WmapInsert
<1>11. ASSUME NEW a, Wunmap(a) PROVE Good
  <2>1. /\ pc = "user" /\ pc' = pc
        /\ \E i \in Found(a) : mappings' = UnmappedTable(i) /\ mem' = UnmappedMem(i)
    BY <1>11, Zenon DEF Wunmap
  <2>2. /\ DOMAIN mem'.pte \subseteq DOMAIN mem.pte
        /\ \A b \in DOMAIN mem'.pte : Held(mappings, b) => Held(mappings', b)
    BY <1>1, <1>3, <2>1, FoundIs, UnmapKeeps, Zenon
  <2> QED
    BY <1>1, <2>1, <2>2, Zenon
<1>12. CASE Wremap
  <2>1. PICK k \in DOMAIN mappings, new \in NewSizes :
          \E o : \/ WremapShrink(k, o, new)
                \/ WremapStop(k, o, new)
                \/ WremapGrow(k, o, new)
                \/ WremapSearch(k, o, new)
    BY <1>12, Zenon DEF Wremap
  <2> DEFINE old == mappings[k].length
  <2>7. ASSUME NEW o, WremapShrink(k, o, new) PROVE o = old /\ Aligned(old)
    BY <2>7, Zenon DEF WremapShrink, Aligned
  <2>8. ASSUME NEW o, WremapStop(k, o, new) PROVE o = old /\ Aligned(old)
    BY <2>8, Zenon DEF WremapStop, Aligned
  <2>9. ASSUME NEW o, WremapGrow(k, o, new) PROVE o = old
    BY <2>9, Zenon DEF WremapGrow
  <2>2. CASE WremapShrink(k, old, new)
    <3>1. pc = "user" /\ pc' = pc
      BY <2>2, Zenon DEF WremapShrink
    <3>2. /\ DOMAIN mem'.pte \subseteq DOMAIN mem.pte
          /\ \A b \in DOMAIN mem'.pte : Held(mappings', b)
      BY <1>0, <1>1, <2>2, <2>7, <3>1, ShrinkKeeps, Zenon
    <3> QED
      BY <1>1, <3>1, <3>2, Zenon
  <2>3. CASE WremapGrow(k, old, new)
    <3>1. pc = "user" /\ pc' = pc /\ mem' = mem
      BY <2>3, Zenon DEF WremapGrow
    <3>2. ASSUME NEW b \in DOMAIN mem.pte PROVE Held(mappings', b)
      BY <1>0, <1>1, <1>2, <2>3, <3>1, GrowKeeps, Zenon
    <3> QED
      BY <1>1, <3>1, <3>2, Zenon
  <2>4. ASSUME NEW o, WremapSearch(k, o, new) PROVE Good
    BY <1>4, <2>4, Zenon DEF WremapSearch
  <2>5. ASSUME NEW o, WremapStop(k, o, new) PROVE Good
    BY <1>3, <2>5, <2>8, ShrinkInside, Zenon DEF WremapStop
  <2> HIDE DEF Good
  <2> QED
    BY <2>1, <2>2, <2>3, <2>4, <2>5, <2>7, <2>9, Zenon
<1>13. CASE WremapReplace
  <2>1. pc = "search" /\ pc' = "move" /\ mem' = mem
    BY <1>13, Zenon DEF WremapReplace
  <2>2. ASSUME NEW b \in DOMAIN mem.pte PROVE Moving(b)'
    BY <1>0, <1>1, <1>13, <2>1, ReplaceKeeps, Zenon
  <2> QED
    BY <1>1, <2>1, <2>2, Zenon
<1>14. CASE MoveStep
  <2>1. pc = "move" /\ pc' = pc
    BY <1>14, Zenon DEF MoveStep
  <2>2. /\ DOMAIN mem'.pte \subseteq Pages
        /\ \A b \in DOMAIN mem'.pte : Moving(b)'
    BY <1>0, <1>1, <1>14, <2>1, MoveKeeps, Zenon
  <2> QED
    BY <2>1, <2>2, Zenon
<1>15. CASE MoveDone
  <2>1. pc = "move" /\ pc' = "user"
    BY <1>15, Zenon DEF MoveDone
  <2>2. mem' = mem /\ \A b \in Nat : Moving(b) => Held(mappings', b)
    BY <1>0, <1>15, MoveDoneKeeps, Zenon
  <2> QED
    BY <1>1, <1>2, <2>1, <2>2, Zenon
<1>16. ASSUME NEW a \in Pages, FaultLoad(a) PROVE Good
  <2>1. /\ pc = "user" /\ pc' \in {"user", "exit"} /\ mappings' = mappings
        /\ Covering(a) # {}
    BY <1>16, Zenon DEF FaultLoad
  <2>2. DOMAIN mem'.pte \subseteq DOMAIN mem.pte \cup {a}
    BY <1>1, <1>16, FaultFrames, Zenon
  <2>3. Held(mappings, a)
    BY <1>3, <2>1, CoveringIs, Zenon
  <2> QED
    BY <1>1, <2>1, <2>2, <2>3, Zenon
<1>17. ASSUME NEW a \in Pages, FaultExit(a) PROVE Good
  BY <1>1, <1>5, <1>17, Zenon DEF FaultExit
<1>18. CASE Exec \/ Reap
  <2>1. mem' = NoPages(Freed) /\ pc' = "user"
    BY <1>18, Zenon DEF Exec, Reap
  <2>2. DOMAIN mem'.pte = {}
    BY <1>1, <2>1, FreedOK, Zenon
  <2> QED
    BY <2>1, <2>2, Zenon
<1>19. CASE Exit \/ ExitZombie
  BY <1>1, <1>5, <1>19, Zenon DEF Exit, ExitZombie
<1>20. CASE ExitUnmap
  <2>1. /\ pc = "exit" /\ pc' = pc
        /\ \E i \in Found(mappings[call.i + 1].addr) : mem' = UnmappedMem(i)
    BY <1>20, Zenon DEF ExitUnmap
  <2>2. DOMAIN mem'.pte \subseteq DOMAIN mem.pte
    BY <1>1, <1>3, <2>1, FoundIs, UnmapKeeps, Zenon
  <2>3. DOMAIN mem'.pte \subseteq Pages
    BY <1>1, <2>2, Zenon
  <2> QED
    BY <1>5, <2>1, <2>3, Zenon
<1>21. CASE Stop
  BY <1>0, <1>1, <1>21, NeverStops, Zenon
<1>22. CASE Stopped
  BY <1>0, <1>22, Zenon DEF Stopped
<1> HIDE DEF Good
<1> QED
  BY <1>7, <1>8, <1>9, <1>10, <1>11, <1>12, <1>13, <1>14, <1>15, <1>16, <1>17,
     <1>18, <1>19, <1>20, <1>21, <1>22, Zenon DEF Next, Sizeless

LEMMA PageMeans ==
  ASSUME TypeOK, CallInv, ~untested => TableGood, PageInv
  PROVE  PagesInMappings
<1>1. ASSUME ~wild, ~untested, ~misjudged, pc = "user", NEW a \in DOMAIN mem.pte
      PROVE  Covering(a) # {}
  <2>1. AllFit(mappings) /\ Held(mappings, a)
    BY <1>1, Zenon DEF TableGood, TableInv, AllFit, PageInv
  <2> QED
    BY <2>1, CoveringIs, Zenon
<1>2. ASSUME ~wild, ~untested, ~misjudged, pc = "move", call.left > 0
      PROVE  Visited(NewAddr) \cap DOMAIN mem.pte = {}
  <2>1. TableGood /\ \A b \in DOMAIN mem.pte : Moving(b)
    BY <1>2, Zenon DEF PageInv
  <2> QED
    BY <1>2, <2>1, MoveMayMap, Zenon DEF MayMap
<1>3. ASSUME ~wild, ~untested, ~misjudged PROVE pc # "stopped"
  BY <1>3, Zenon DEF PageInv
<1> QED
  BY <1>1, <1>2, <1>3, Zenon DEF PagesInMappings

LEMMA PageInit == Init => PageInv
<1> SUFFICES ASSUME Init PROVE PageInv
  BY Zenon
<1>1. pc = "user" /\ mem = NoPages(Frames) /\ split = FALSE
  BY Zenon DEF Init
<1>2. DOMAIN mem.pte = {}
  BY <1>1, Zenon DEF NoPages
<1> QED
  BY <1>1, <1>2, Zenon DEF PageInv

\* Every page that is mapped belongs to a mapping, and a move never finds a page
\* at its destination, so mappages() does not panic there, and no entry outside
\* the WMAP area is touched: at any page size and any number of frames and
\* mappings, until a mapping gets an untested length, wremap() is given a wrong
\* old size or frees or moves part of a page, or a null page table entry is
\* read.
THEOREM PagesAreMapped == Spec => []PagesInMappings
<1> DEFINE I == /\ TypeOK /\ CallInv /\ FrameInv
                /\ (~untested => TableGood) /\ PageInv
<1>1. Init => I
  BY TypeFrameInit, TableInit, PageInit, Zenon
<1>2. I /\ [Next]_vars => I'
  <2> SUFFICES ASSUME I, [Next]_vars PROVE I'
    BY Zenon
  <2>1. CASE Next
    BY <2>1, TypeStep, FrameStep, TableStep, PageStep, HistoryStays, Zenon
  <2>2. CASE UNCHANGED vars
    BY <2>2, Unchanged, Zenon
  <2> QED
    BY <2>1, <2>2, Zenon
<1>3. I => PagesInMappings
  BY PageMeans, Zenon
<1> QED
  BY <1>1, <1>2, <1>3, PTL DEF Spec

=============================================================================

----------------------------- MODULE UmallocProofs --------------------------
(***************************************************************************)
(* Proofs about Umalloc, for every size of the heap and every sequence of   *)
(* calls.                                                                   *)
(***************************************************************************)
EXTENDS Umalloc, WellFoundedInduction, TLAPS

\* Blocks are the headers above base; the free ones are on the list, except
\* the one that free() is working on.
Blocks == DOMAIN hdr \ {base}
FreeSet == DOMAIN hdr \ (used \cup (IF pc = "place" THEN {bp} ELSE {}))

Header == [ptr : Int, size : Nat]

TypeOK ==
  /\ hdr \in [DOMAIN hdr -> Header] /\ DOMAIN hdr \subseteq Nat
  /\ freep \in Nat \cup {NULL}
  /\ brk \in HEAP..LIMIT
  /\ pc \in {"program", "search", "morecore", "place"}
  /\ nunits \in Nat
  /\ caller \in {"program", "morecore"}

\* Before the first call there is nothing; then base is on the list.
ListStarted ==
  IF freep = NULL
  THEN pc = "program" /\ DOMAIN hdr = {} /\ used = {} /\ core = {}
  ELSE base \in FreeSet /\ freep \in FreeSet /\ size(base) = 0

\* Blocks are in the heap and apart, and core is what they cover.
BlocksApart ==
  /\ used \subseteq Blocks
  /\ \A a \in Blocks : HEAP <= a /\ size(a) > 0 /\ a + size(a) <= brk
  /\ \A a, b \in Blocks : a < b => a + size(a) <= b
  /\ core = UNION {Units(a) : a \in Blocks}

\* n is the block of S behind a in the circular order, and does not touch a.
Follows(S, a, n) ==
  /\ n \in S
  /\ \/ n = base /\ \A b \in S : b <= a
     \/ n > a + size(a) /\ \A b \in S : b <= a \/ n <= b

ListOrdered == \A a \in FreeSet : Follows(FreeSet, a, ptr(a))

\* The blocks that the search from freep has left behind.
Passed(a) == IF freep < p THEN freep < a /\ a < p ELSE freep < a \/ a < p

\* The locals of the call in progress.
CallInv ==
  /\ pc = "search" =>
       /\ p \in FreeSet /\ prevp \in FreeSet /\ ptr(prevp) = p /\ nunits > 0
       /\ \A a \in FreeSet : Passed(a) => size(a) < nunits
  /\ pc = "morecore" => nunits > 0 /\ \A a \in FreeSet : size(a) < nunits
  /\ pc = "place" =>
       /\ p \in FreeSet /\ bp \in Blocks \ used
       /\ caller = "morecore" => nunits > 0

IInv == TypeOK /\ ListStarted /\ BlocksApart /\ ListOrdered /\ CallInv

-----------------------------------------------------------------------------
\* What Put and Drop do.
LEMMA PutFacts ==
  ASSUME NEW h, NEW a, NEW x
  PROVE  /\ DOMAIN Put(h, a, x) = DOMAIN h \cup {a} /\ Put(h, a, x)[a] = x
         /\ \A b \in DOMAIN h \ {a} : Put(h, a, x)[b] = h[b]
BY Zenon DEF Put

\* What Drop leaves.
LEMMA DropFacts ==
  ASSUME NEW h, NEW a
  PROVE  /\ DOMAIN Drop(h, a) = DOMAIN h \ {a}
         /\ \A b \in DOMAIN h \ {a} : Drop(h, a)[b] = h[b]
BY Zenon DEF Drop

\* The sizes and places of blocks are numbers.
LEMMA HdrFacts ==
  ASSUME TypeOK, NEW a \in DOMAIN hdr
  PROVE  a \in Nat /\ size(a) \in Nat /\ ptr(a) \in Int
         /\ hdr[a] = [ptr |-> ptr(a), size |-> size(a)]
BY Zenon DEF TypeOK, Header, size, ptr

\* Steps that leave the list alone.
LEMMA ListFrame ==
  ASSUME IInv, UNCHANGED <<hdr, freep, used, core>>, FreeSet' = FreeSet,
         freep = NULL => pc' = "program",
         brk' \in HEAP..LIMIT, brk' >= brk
  PROVE  ListStarted' /\ BlocksApart' /\ ListOrdered'
<1>1. ListStarted'
  BY Zenon DEF IInv, ListStarted, size
<1>2. BlocksApart'
  <2>1. /\ Blocks' = Blocks
        /\ \A a \in Blocks : size(a)' = size(a) /\ Units(a)' = Units(a)
    BY Zenon DEF Blocks, size, Units
  <2>2. \A a \in Blocks : a + size(a) <= brk'
    <3>1. ASSUME NEW a \in Blocks PROVE a + size(a) <= brk'
      <4>1. a \in Nat /\ size(a) \in Nat
        BY HdrFacts, Zenon DEF IInv, Blocks
      <4>2. a + size(a) <= brk /\ brk \in Int /\ brk' \in Int
        BY UmallocAssumption DEF IInv, BlocksApart, TypeOK
      <4> QED
        BY <4>1, <4>2
    <3> QED
      BY <3>1, Zenon
  <2>3. core' = UNION {Units(a)' : a \in Blocks}
    BY <2>1, Zenon DEF IInv, BlocksApart
  <2> QED
    BY <2>1, <2>2, <2>3, Zenon DEF IInv, BlocksApart
<1>3. ListOrdered'
  BY Zenon DEF IInv, ListOrdered, Follows, ptr, size
<1> QED
  BY <1>1, <1>2, <1>3, Zenon

\* Outside of free() the free blocks are those that are not in use.
LEMMA FreeSetIs ==
  /\ pc # "place" => FreeSet = DOMAIN hdr \ used
  /\ pc' # "place" => FreeSet' = DOMAIN hdr' \ used'
  /\ pc = "place" => FreeSet = DOMAIN hdr \ (used \cup {bp})
  /\ pc' = "place" => FreeSet' = DOMAIN hdr' \ (used' \cup {bp'})
BY Zenon DEF FreeSet

\* The block behind freep: the search has passed nothing.
LEMMA SearchStarts ==
  ASSUME NEW S \in SUBSET Nat, NEW a \in S, NEW n \in S, base \in S,
         size(a) \in Nat, Follows(S, a, n), NEW b \in S
  PROVE  ~(IF a < n THEN a < b /\ b < n ELSE a < b \/ b < n)
BY DEF Follows, base

\* malloc() begins.
LEMMA MallocInv ==
  ASSUME IInv, NEW nbytes \in Requests, Malloc(nbytes)
  PROVE  IInv'
<1>1. /\ pc = "program" /\ pc' = "search"
      /\ nunits' = (nbytes + HSIZE - 1) \div HSIZE + 1
      /\ prevp' = freep' /\ p' = hdr'[freep'].ptr
      /\ UNCHANGED <<brk, bp, caller, used, core>>
      /\ IF freep = NULL
         THEN /\ hdr' = Put(hdr, base, [ptr |-> base, size |-> 0])
              /\ freep' = base
         ELSE UNCHANGED <<hdr, freep>>
  BY Zenon DEF Malloc
<1>2. nunits' \in Nat /\ nunits' > 0
  <2>1. nbytes + HSIZE - 1 \in Nat /\ HSIZE \in Nat \ {0}
    BY UmallocAssumption
  <2>2. (nbytes + HSIZE - 1) \div HSIZE \in Nat
    <3> DEFINE n == nbytes + HSIZE - 1
               q == n \div HSIZE
               r == n % HSIZE
    <3>1. n \in Nat /\ n \in Int /\ HSIZE \in Nat \ {0}
      BY <2>1
    <3> HIDE DEF n
    <3>2. /\ r \in 0..HSIZE - 1 /\ q \in Int /\ n = HSIZE * q + r
      BY <3>1
    <3> HIDE DEF q, r
    <3>3. q >= 0
      <4>1. SUFFICES ASSUME q <= -1 PROVE FALSE
        BY <3>2
      <4>2. HSIZE * q <= -HSIZE
        BY <3>1, <3>2, <4>1
      <4> QED
        BY <3>1, <3>2, <4>2
    <3> QED
      BY <3>2, <3>3 DEF q, n
  <2> QED
    BY <1>1, <2>2
<1>3. CASE freep = NULL
  <2>1. /\ DOMAIN hdr' = {base} /\ hdr'[base] = [ptr |-> base, size |-> 0]
        /\ used' = {} /\ core' = {} /\ freep' = base /\ p' = base
    <3>1. DOMAIN hdr = {} /\ used = {} /\ core = {}
      BY <1>3, Zenon DEF IInv, ListStarted
    <3>2. DOMAIN hdr' = {base} /\ hdr'[base] = [ptr |-> base, size |-> 0]
      BY <1>1, <1>3, <3>1, Zenon DEF Put
    <3> QED
      BY <1>1, <1>3, <3>1, <3>2
  <2>2. FreeSet' = {base}
    BY <1>1, <2>1, FreeSetIs, Zenon
  <2>3. TypeOK'
    <3>1. hdr' \in [DOMAIN hdr' -> Header]
      BY <1>1, <1>3, <2>1 DEF Put, Header, base
    <3> QED
      BY <1>1, <1>2, <2>1, <3>1 DEF IInv, TypeOK, base
  <2>4. ListStarted'
    BY <2>1, <2>2 DEF ListStarted, size, NULL, base
  <2>5. BlocksApart'
    <3>1. Blocks' = {}
      BY <2>1, Zenon DEF Blocks
    <3> QED
      BY <2>1, <3>1, Zenon DEF BlocksApart
  <2>6. ListOrdered'
    BY <2>1, <2>2 DEF ListOrdered, Follows, ptr, size, base
  <2>7. CallInv'
    BY <1>1, <1>2, <2>1, <2>2 DEF CallInv, Passed, ptr, size, base
  <2> QED
    BY <2>3, <2>4, <2>5, <2>6, <2>7, Zenon DEF IInv
<1>4. CASE freep # NULL
  <2>1. UNCHANGED <<hdr, freep>> /\ prevp' = freep /\ p' = ptr(freep)
    BY <1>1, <1>4, Zenon DEF ptr
  <2>2. FreeSet' = FreeSet
    BY <1>1, <2>1, Zenon DEF FreeSet
  <2>3. TypeOK'
    BY <1>1, <1>2, <2>1, Zenon DEF IInv, TypeOK
  <2>4. ListStarted' /\ BlocksApart' /\ ListOrdered'
    BY <1>1, <1>4, <2>1, <2>2, ListFrame DEF IInv, TypeOK
  <2>5. CallInv'
    <3>1. /\ freep \in FreeSet
          /\ base \in FreeSet
          /\ Follows(FreeSet, freep, ptr(freep))
      BY <1>4, Zenon DEF IInv, ListStarted, ListOrdered
    <3>2. /\ FreeSet \in SUBSET Nat
          /\ ptr(freep) \in FreeSet
          /\ size(freep) \in Nat
      BY <3>1, HdrFacts, Zenon DEF IInv, TypeOK, FreeSet, Follows
    <3>3. \A a \in FreeSet : ~Passed(a)'
      BY <2>1, <3>1, <3>2, SearchStarts, Zenon DEF Passed
    <3> QED
      BY <1>1, <1>2, <2>1, <2>2, <3>1, <3>2, <3>3, Zenon DEF CallInv, ptr
  <2> QED
    BY <2>3, <2>4, <2>5, Zenon DEF IInv
<1> QED
  BY <1>3, <1>4, Zenon

\* malloc() goes on to the next block.
LEMMA MallocNextInv ==
  ASSUME IInv, MallocNext
  PROVE  IInv'
<1>1. /\ pc = "search" /\ size(p) < nunits
      /\ UNCHANGED <<hdr, freep, brk, nunits, bp, caller, used, core>>
      /\ IF p = freep
         THEN pc' = "morecore" /\ UNCHANGED <<p, prevp>>
         ELSE pc' = pc /\ prevp' = p /\ p' = ptr(p)
  BY Zenon DEF MallocNext
<1>2. FreeSet' = FreeSet
  BY <1>1, Zenon DEF FreeSet
<1>3. TypeOK'
  BY <1>1, Zenon DEF IInv, TypeOK
<1>4. freep # NULL
  BY <1>1, Zenon DEF IInv, ListStarted
<1>5. ListStarted' /\ BlocksApart' /\ ListOrdered'
  BY <1>1, <1>2, <1>4, ListFrame DEF IInv, TypeOK
<1>6. /\ freep \in FreeSet /\ base \in FreeSet /\ p \in FreeSet /\ nunits > 0
      /\ FreeSet \subseteq Nat
      /\ \A a \in FreeSet : Passed(a) => size(a) < nunits
  BY <1>1, <1>4, Zenon DEF IInv, ListStarted, CallInv, TypeOK, FreeSet
<1>7. CallInv'
  <2>1. CASE p = freep
    <3>1. \A a \in FreeSet : size(a) < nunits
      BY <1>1, <1>6, <2>1 DEF Passed
    <3> QED
      BY <1>1, <1>2, <1>6, <2>1, <3>1, Zenon DEF CallInv, size
  <2>2. CASE p # freep
    <3>1. Follows(FreeSet, p, ptr(p)) /\ size(p) \in Nat
      BY <1>6, HdrFacts, Zenon DEF IInv, ListOrdered, FreeSet
    <3>2. p' = ptr(p) /\ p' \in FreeSet /\ p' \in Nat
      BY <1>1, <1>6, <2>2, <3>1, Zenon DEF Follows
    <3>3. ASSUME NEW a \in FreeSet, Passed(a)' PROVE Passed(a) \/ a = p
      BY <1>1, <1>6, <2>2, <3>1, <3>2, <3>3 DEF Passed, Follows, base
    <3>4. \A a \in FreeSet : Passed(a)' => size(a) < nunits
      BY <1>1, <1>6, <3>3, Zenon
    <3> QED
      BY <1>1, <1>2, <1>6, <2>2, <3>2, <3>4, Zenon DEF CallInv, ptr, size
  <2> QED
    BY <2>1, <2>2, Zenon
<1> QED
  BY <1>3, <1>5, <1>7, Zenon DEF IInv

\* malloc() gives up, or the program calls sbrk().
LEMMA CoreFailInv ==
  ASSUME IInv, CoreFail
  PROVE  IInv'
<1>1. /\ pc = "morecore" /\ pc' = "program" /\ nunits' = 0
      /\ caller' = "program" /\ UNCHANGED <<hdr, freep, brk, used, core>>
  BY Zenon DEF CoreFail, NoCall
<1>2. FreeSet' = FreeSet
  BY <1>1, Zenon DEF FreeSet
<1>3. TypeOK' /\ CallInv'
  BY <1>1, Zenon DEF IInv, TypeOK, CallInv
<1>4. ListStarted' /\ BlocksApart' /\ ListOrdered'
  BY <1>1, <1>2, ListFrame DEF IInv, TypeOK
<1> QED
  BY <1>3, <1>4, Zenon DEF IInv

\* The program calls sbrk between two calls of the allocator.
LEMMA ProgramGrowInv ==
  ASSUME IInv, ProgramGrow
  PROVE  IInv'
<1>1. /\ pc = "program" /\ brk < LIMIT /\ brk' = brk + 1
      /\ UNCHANGED <<hdr, freep, pc, nunits, caller, used, core>>
  BY Zenon DEF ProgramGrow, locals
<1>2. FreeSet' = FreeSet
  BY <1>1, Zenon DEF FreeSet
<1>3. brk' \in HEAP..LIMIT /\ brk' >= brk
  BY <1>1, UmallocAssumption DEF IInv, TypeOK
<1>4. TypeOK' /\ CallInv'
  BY <1>1, <1>3, Zenon DEF IInv, TypeOK, CallInv
<1>5. ListStarted' /\ BlocksApart' /\ ListOrdered'
  BY <1>1, <1>2, <1>3, ListFrame, Zenon
<1> QED
  BY <1>4, <1>5, Zenon DEF IInv

\* free() begins with a block of the program.
LEMMA FreeInv ==
  ASSUME IInv, NEW a \in used, Free(a)
  PROVE  IInv'
<1>1. /\ pc = "program" /\ pc' = "place" /\ used' = used \ {a}
      /\ bp' = a /\ p' = freep /\ caller' = "program"
      /\ UNCHANGED <<hdr, freep, brk, nunits, core>>
  BY Zenon DEF Free
<1>2. a \in Blocks /\ freep # NULL
  BY Zenon DEF IInv, BlocksApart, ListStarted
<1>3. FreeSet' = FreeSet
  BY <1>1, FreeSetIs, Zenon
<1>4. TypeOK'
  BY <1>1, Zenon DEF IInv, TypeOK
<1>5. ListStarted'
  BY <1>1, <1>2, <1>3, Zenon DEF IInv, ListStarted, size
<1>6. BlocksApart'
  <2>1. /\ Blocks' = Blocks
        /\ \A b \in Blocks : size(b)' = size(b) /\ Units(b)' = Units(b)
    BY <1>1, Zenon DEF Blocks, size, Units
  <2>2. core' = UNION {Units(b)' : b \in Blocks}
    BY <1>1, <2>1, Zenon DEF IInv, BlocksApart
  <2> QED
    BY <1>1, <2>1, <2>2, Zenon DEF IInv, BlocksApart
<1>7. ListOrdered'
  BY <1>1, <1>3, Zenon DEF IInv, ListOrdered, Follows, ptr, size
<1>8. CallInv'
  <2>1. freep \in FreeSet
    BY <1>2, Zenon DEF IInv, ListStarted
  <2>2. Blocks' = Blocks
    BY <1>1, Zenon DEF Blocks
  <2> QED
    BY <1>1, <1>2, <1>3, <2>1, <2>2, Zenon DEF CallInv
<1> QED
  BY <1>4, <1>5, <1>6, <1>7, <1>8, Zenon DEF IInv

\* free() looks on for the place.
LEMMA FreeNextInv ==
  ASSUME IInv, FreeNext
  PROVE  IInv'
<1>1. /\ pc = "place" /\ p' = ptr(p)
      /\ UNCHANGED <<hdr, freep, brk, pc>>
      /\ UNCHANGED <<prevp, nunits, bp, caller, used, core>>
  BY Zenon DEF FreeNext
<1>2. FreeSet' = FreeSet
  BY <1>1, Zenon DEF FreeSet
<1>3. TypeOK'
  BY <1>1, Zenon DEF IInv, TypeOK
<1>4. freep # NULL
  BY <1>1, Zenon DEF IInv, ListStarted
<1>5. ListStarted' /\ BlocksApart' /\ ListOrdered'
  BY <1>1, <1>2, <1>4, ListFrame DEF IInv, TypeOK
<1>6. CallInv'
  <2>1. ptr(p) \in FreeSet /\ Blocks' = Blocks
    BY <1>1, Zenon DEF IInv, CallInv, ListOrdered, Follows, Blocks
  <2> QED
    BY <1>1, <1>2, <2>1, Zenon DEF IInv, CallInv
<1> QED
  BY <1>3, <1>5, <1>6, Zenon DEF IInv

\* What every list is like, where one has been made.
LEMMA ListFacts ==
  ASSUME IInv, freep # NULL
  PROVE  /\ FreeSet \subseteq DOMAIN hdr /\ FreeSet \subseteq Nat
         /\ DOMAIN hdr = Blocks \cup {base} /\ base \notin Blocks
         /\ base \in FreeSet /\ freep \in FreeSet /\ size(base) = 0
         /\ \A a \in DOMAIN hdr :
              a \in Nat /\ size(a) \in Nat /\ ptr(a) \in Int
         /\ \A a \in Blocks : HEAP <= a /\ size(a) > 0 /\ a + size(a) <= brk
         /\ \A a, b \in DOMAIN hdr : a < b => a + size(a) <= b
         /\ \A a \in FreeSet : Follows(FreeSet, a, ptr(a))
         /\ \A x : x \in core <=> \E a \in Blocks : x \in Units(a)
         /\ HEAP \in Nat /\ HEAP > 1 /\ brk \in Nat /\ brk >= HEAP
<1>1. /\ FreeSet \subseteq DOMAIN hdr /\ FreeSet \subseteq Nat
      /\ base \in FreeSet /\ freep \in FreeSet /\ size(base) = 0
      /\ DOMAIN hdr = Blocks \cup {base} /\ base \notin Blocks
  BY Zenon DEF IInv, ListStarted, TypeOK, FreeSet, Blocks
<1>2. \A a \in DOMAIN hdr : a \in Nat /\ size(a) \in Nat /\ ptr(a) \in Int
  BY HdrFacts, Zenon DEF IInv
<1>3. /\ \A a \in Blocks : HEAP <= a /\ size(a) > 0 /\ a + size(a) <= brk
      /\ \A a, b \in Blocks : a < b => a + size(a) <= b
  BY Zenon DEF IInv, BlocksApart
<1>4. \A a \in FreeSet : Follows(FreeSet, a, ptr(a))
  BY Zenon DEF IInv, ListOrdered
<1>5. \A x : x \in core <=> \E a \in Blocks : x \in Units(a)
  BY Zenon DEF IInv, BlocksApart
<1>6. HEAP \in Nat /\ HEAP > 1 /\ brk \in Nat /\ brk >= HEAP
  BY UmallocAssumption DEF IInv, TypeOK
<1>7. \A a, b \in DOMAIN hdr : a < b => a + size(a) <= b
  <2>1. ASSUME NEW a \in DOMAIN hdr, NEW b \in DOMAIN hdr, a < b
        PROVE  a + size(a) <= b
    <3>1. b \in Blocks
      BY <1>1, <1>2, <2>1 DEF base
    <3>2. CASE a = base
      BY <1>1, <1>2, <2>1, <3>2 DEF base
    <3>3. CASE a \in Blocks
      BY <1>3, <2>1, <3>1, <3>3, Zenon
    <3> QED
      BY <1>1, <3>2, <3>3, Zenon
  <2> QED
    BY <2>1, Zenon
<1> QED
  BY <1>1, <1>2, <1>3, <1>4, <1>5, <1>6, <1>7, Zenon

\* morecore() makes a block of new memory and frees it.
LEMMA CoreGrowInv ==
  ASSUME IInv, CoreGrow
  PROVE  IInv'
<1> DEFINE nu == IF nunits < MINCORE THEN MINCORE ELSE nunits
<1>1. /\ pc = "morecore" /\ pc' = "place" /\ bp' = brk /\ p' = freep
      /\ caller' = "morecore" /\ UNCHANGED <<freep, nunits, used>>
      /\ brk + nu <= LIMIT /\ brk' = brk + nu
      /\ hdr' = Put(hdr, brk, [ptr |-> NULL, size |-> nu])
      /\ core' = core \cup brk..brk + nu - 1
  BY Zenon DEF CoreGrow
<1>2. nu \in Nat /\ nu > 0 /\ nunits > 0
  BY <1>1, UmallocAssumption DEF IInv, TypeOK, CallInv
<1> HIDE DEF nu
<1>3. freep # NULL
  BY <1>1, Zenon DEF IInv, ListStarted
<1>4. PICK b \in Nat : b = brk /\ b \notin DOMAIN hdr /\ b # base
  BY <1>3, ListFacts DEF base
<1>5. /\ DOMAIN hdr' = DOMAIN hdr \cup {b}
      /\ hdr'[b] = [ptr |-> NULL, size |-> nu]
      /\ \A a \in DOMAIN hdr : hdr'[a] = hdr[a]
  BY <1>1, <1>4, Zenon DEF Put
<1>6. /\ Blocks' = Blocks \cup {b} /\ size(b)' = nu
      /\ \A a \in DOMAIN hdr : ptr(a)' = ptr(a) /\ size(a)' = size(a)
  BY <1>4, <1>5 DEF Blocks, size, ptr
<1>7. FreeSet' = FreeSet /\ b \notin used
  <2>1. used \subseteq DOMAIN hdr
    BY Zenon DEF IInv, BlocksApart, Blocks
  <2> QED
    BY <1>1, <1>4, <1>5, <2>1, FreeSetIs, Zenon
<1>8. TypeOK'
  <2>1. hdr' \in [DOMAIN hdr' -> Header]
    BY <1>1, <1>2, <1>4 DEF Put, IInv, TypeOK, Header, NULL
  <2>2. DOMAIN hdr' \subseteq Nat /\ brk' \in HEAP..LIMIT
    BY <1>1, <1>2, <1>5, UmallocAssumption DEF IInv, TypeOK
  <2> QED
    BY <1>1, <2>1, <2>2, Zenon DEF IInv, TypeOK
<1>9. ListStarted'
  BY <1>1, <1>3, <1>6, <1>7, ListFacts, Zenon DEF ListStarted
<1>10. BlocksApart'
  <2>1. used' \subseteq Blocks'
    BY <1>1, <1>6, Zenon DEF IInv, BlocksApart
  <2>2. \A a \in Blocks' : HEAP <= a /\ size(a)' > 0 /\ a + size(a)' <= brk'
    <3>1. \A a \in Blocks : /\ HEAP <= a /\ size(a)' > 0
                            /\ a + size(a)' <= brk'
      BY <1>1, <1>2, <1>3, <1>6, ListFacts
    <3>2. HEAP <= b /\ size(b)' > 0 /\ b + size(b)' <= brk'
      BY <1>1, <1>2, <1>3, <1>4, <1>6, ListFacts
    <3> QED
      BY <1>6, <3>1, <3>2, Zenon
  <2>3. ASSUME NEW a \in Blocks', NEW c \in Blocks', a < c
        PROVE  a + size(a)' <= c
    <3>1. a \in Blocks /\ a \in DOMAIN hdr
      BY <1>3, <1>4, <1>6, <2>3, ListFacts
    <3> QED
      BY <1>3, <1>4, <1>6, <2>3, <3>1, ListFacts, Zenon
  <2>4. core' = UNION {Units(a)' : a \in Blocks'}
    <3>1. \A x : x \in core' <=> \E a \in Blocks' : x \in a..a + size(a)' - 1
      <4>1. \A x : x \in core <=> \E a \in Blocks : x \in a..a + size(a) - 1
        BY <1>3, ListFacts, Zenon DEF Units
      <4>2. \A a \in Blocks : size(a)' = size(a)
        BY <1>3, <1>6, ListFacts, Zenon
      <4> QED
        BY <1>1, <1>4, <1>6, <4>1, <4>2, Zenon
    <3> QED
      BY <3>1, Zenon DEF Units
  <2> QED
    BY <2>1, <2>2, <2>3, <2>4, Zenon DEF BlocksApart
<1>11. ListOrdered'
  BY <1>3, <1>6, <1>7, ListFacts, Zenon DEF ListOrdered, Follows
<1>12. CallInv'
  BY <1>1, <1>2, <1>3, <1>4, <1>6, <1>7, ListFacts, Zenon DEF CallInv
<1> QED
  BY <1>8, <1>9, <1>10, <1>11, <1>12, Zenon DEF IInv

\* malloc() takes a whole block off the list.
LEMMA TakeWholeInv ==
  ASSUME IInv, MallocTake, size(p) = nunits
  PROVE  IInv'
<1>1. PICK a \in FreeSet, v \in FreeSet :
        /\ a = p /\ v = prevp /\ ptr(v) = a /\ pc = "search" /\ nunits > 0
        /\ freep # NULL
  BY Zenon DEF MallocTake, IInv, CallInv, ListStarted
<1>2. size(a) = nunits /\ nunits \in Nat
  BY <1>1, Zenon DEF IInv, TypeOK
<1>3. /\ a \in Blocks /\ v # a
      /\ \A x \in FreeSet : x <= v \/ a <= x
      /\ v + size(v) < a
  BY <1>1, <1>2, ListFacts DEF Follows, base
<1>4. /\ hdr' = Put([hdr EXCEPT ![v].ptr = ptr(a)], a,
                    [ptr |-> NULL, size |-> nunits])
      /\ used' = used \cup {a} /\ freep' = v
      /\ pc' = "program" /\ nunits' = 0 /\ caller' = "program"
      /\ UNCHANGED <<brk, core>>
  <2>1. size(p) - nunits = 0 /\ p + 0 = p
    BY <1>1, <1>2, ListFacts
  <2> QED
    BY <1>1, <2>1, Zenon DEF MallocTake, NoCall
<1>5. /\ DOMAIN hdr' = DOMAIN hdr
      /\ hdr'[a] = [ptr |-> NULL, size |-> nunits]
      /\ hdr'[v] = [ptr |-> ptr(a), size |-> size(v)]
      /\ \A b \in DOMAIN hdr \ {a, v} : hdr'[b] = hdr[b]
  <2>1. /\ a \in DOMAIN hdr
        /\ v \in DOMAIN hdr
        /\ hdr[v] = [ptr |-> ptr(v), size |-> size(v)]
    BY <1>1, ListFacts, HdrFacts, Zenon DEF IInv
  <2> QED
    BY <1>3, <1>4, <2>1 DEF Put
<1>6. /\ Blocks' = Blocks /\ \A b \in DOMAIN hdr : size(b)' = size(b)
      /\ ptr(v)' = ptr(a) /\ \A b \in DOMAIN hdr \ {a, v} : ptr(b)' = ptr(b)
  BY <1>2, <1>5 DEF Blocks, size, ptr
<1>7. FreeSet' = FreeSet \ {a}
  BY <1>1, <1>4, <1>5, FreeSetIs, Zenon
<1>8. TypeOK'
  <2>1. ptr(a) \in Int /\ nunits \in Nat /\ v \in Nat /\ size(v) \in Nat
    BY <1>1, <1>2, ListFacts, Zenon
  <2>2. \A b \in DOMAIN hdr : hdr'[b] \in Header
    BY <1>5, <2>1 DEF IInv, TypeOK, Header, NULL
  <2>3. hdr' \in [DOMAIN hdr' -> Header]
    BY <1>4, <1>5, <2>2, Zenon DEF Put
  <2> QED
    BY <1>4, <1>5, <2>1, <2>3, Zenon DEF IInv, TypeOK
<1>9. ListStarted'
  BY <1>1, <1>3, <1>4, <1>6, <1>7, ListFacts DEF ListStarted, NULL
<1>10. BlocksApart'
  <2>1. \A b \in Blocks : size(b)' = size(b) /\ Units(b)' = Units(b)
    BY <1>1, <1>6, ListFacts, Zenon DEF Units
  <2>2. core' = UNION {Units(b)' : b \in Blocks}
    BY <1>4, <2>1, Zenon DEF IInv, BlocksApart
  <2> QED
    BY <1>3, <1>4, <1>6, <2>1, <2>2, Zenon DEF IInv, BlocksApart
<1>11. ListOrdered'
  <2>1. Follows(FreeSet, v, ptr(v))'
    <3>1. Follows(FreeSet, a, ptr(a)) /\ ptr(a) # a
      BY <1>1, <1>2, <1>3, ListFacts DEF Follows
    <3>2. ptr(v)' = ptr(a) /\ size(v)' = size(v) /\ FreeSet \subseteq Nat
          /\ size(a) \in Nat /\ size(v) \in Nat /\ size(a) > 0
      BY <1>1, <1>2, <1>6, ListFacts, Zenon
    <3>3. \/ ptr(a) = base /\ \A b \in FreeSet \ {a} : b <= v
          \/ /\ ptr(a) > v + size(v)
             /\ \A b \in FreeSet \ {a} : b <= v \/ ptr(a) <= b
      <4>1. CASE ptr(a) = base /\ \A b \in FreeSet : b <= a
        <5>1. \A b \in FreeSet \ {a} : b <= v
          BY <1>3, <3>2, <4>1
        <5> QED
          BY <4>1, <5>1, Zenon
      <4>2. CASE /\ ptr(a) > a + size(a)
                 /\ \A b \in FreeSet : b <= a \/ ptr(a) <= b
        <5>1. ptr(a) > v + size(v)
          <6>1. ptr(a) \in Nat /\ a \in Nat /\ v \in Nat
            BY <3>1, <3>2, Zenon DEF Follows
          <6> QED
            BY <1>3, <3>2, <4>2, <6>1
        <5>2. \A b \in FreeSet \ {a} : b <= v \/ ptr(a) <= b
          BY <1>3, <3>2, <4>2
        <5> QED
          BY <5>1, <5>2, Zenon
      <4> QED
        BY <3>1, <4>1, <4>2, Zenon DEF Follows
    <3> QED
      BY <1>7, <3>1, <3>2, <3>3, Zenon DEF Follows
  <2>2. ASSUME NEW b \in FreeSet \ {a, v}
        PROVE  Follows(FreeSet, b, ptr(b))'
    <3>1. Follows(FreeSet, b, ptr(b)) /\ size(b)' = size(b) /\ ptr(b)' = ptr(b)
      BY <1>1, <1>6, ListFacts, Zenon
    <3>2. ptr(b) # a
      BY <1>1, <1>3, <3>1, ListFacts DEF Follows, base
    <3> QED
      BY <1>7, <3>1, <3>2, Zenon DEF Follows
  <2> QED
    BY <1>1, <1>3, <1>6, <1>7, <2>1, <2>2, Zenon DEF ListOrdered
<1>12. CallInv'
  BY <1>4, Zenon DEF CallInv
<1> QED
  BY <1>8, <1>9, <1>10, <1>11, <1>12, Zenon DEF IInv

\* malloc() takes the tail of a block.
LEMMA TakeTailInv ==
  ASSUME IInv, MallocTake, size(p) # nunits
  PROVE  IInv'
<1>1. PICK a \in FreeSet, v \in FreeSet :
        /\ a = p /\ v = prevp /\ pc = "search" /\ nunits > 0
        /\ freep # NULL /\ size(a) >= nunits /\ size(a) # nunits
  BY Zenon DEF MallocTake, IInv, CallInv, ListStarted
<1>2. PICK n \in Nat, m \in Nat : /\ n = nunits /\ m = size(a) - n
                                  /\ n > 0 /\ m > 0 /\ a \in Nat
  BY <1>1, ListFacts DEF IInv, TypeOK
<1>3. PICK c \in Nat : c = a + m
  BY <1>2
<1>4. /\ a \in Blocks /\ c \notin DOMAIN hdr /\ a < c /\ size(a) = m + n
      /\ \A b \in DOMAIN hdr : a < b => c + n <= b
      /\ c + n <= brk /\ HEAP <= a
  BY <1>1, <1>2, <1>3, ListFacts DEF base
<1>5. /\ hdr' = Put([hdr EXCEPT ![a].size = m], c, [ptr |-> NULL, size |-> n])
      /\ used' = used \cup {c} /\ freep' = v
      /\ pc' = "program" /\ nunits' = 0 /\ caller' = "program"
      /\ UNCHANGED <<brk, core>>
  BY <1>1, <1>2, <1>3 DEF MallocTake, NoCall
<1>6. /\ DOMAIN hdr' = DOMAIN hdr \cup {c}
      /\ hdr'[c] = [ptr |-> NULL, size |-> n]
      /\ hdr'[a] = [ptr |-> ptr(a), size |-> m]
      /\ \A b \in DOMAIN hdr \ {a} : hdr'[b] = hdr[b]
  <2>1. a \in DOMAIN hdr /\ hdr[a] = [ptr |-> ptr(a), size |-> size(a)]
    BY <1>1, ListFacts, HdrFacts, Zenon DEF IInv
  <2> QED
    BY <1>4, <1>5, <2>1 DEF Put
<1>7. /\ Blocks' = Blocks \cup {c} /\ size(c)' = n /\ size(a)' = m
      /\ \A b \in DOMAIN hdr \ {a} : size(b)' = size(b)
      /\ \A b \in DOMAIN hdr : ptr(b)' = ptr(b)
  <2>1. c # base
    BY <1>4, <1>1, ListFacts, Zenon
  <2> QED
    BY <1>6, <2>1 DEF Blocks, size, ptr
<1>8. FreeSet' = FreeSet
  <2>1. FreeSet = DOMAIN hdr \ used
    BY <1>1, FreeSetIs, Zenon
  <2>2. FreeSet' = (DOMAIN hdr \cup {c}) \ (used \cup {c})
    BY <1>5, <1>6, FreeSetIs, Zenon
  <2> QED
    BY <1>4, <2>1, <2>2, Zenon
<1>9. TypeOK'
  <2>1. ptr(a) \in Int /\ v \in Nat
    BY <1>1, ListFacts, Zenon
  <2>2. \A b \in DOMAIN hdr' : hdr'[b] \in Header
    BY <1>6, <2>1 DEF IInv, TypeOK, Header, NULL
  <2>3. hdr' \in [DOMAIN hdr' -> Header]
    BY <1>5, <1>6, <2>2, Zenon DEF Put
  <2> QED
    BY <1>5, <1>6, <2>1, <2>3, Zenon DEF IInv, TypeOK
<1>10. ListStarted'
  <2>1. size(base)' = 0
    BY <1>1, <1>4, <1>7, ListFacts, Zenon DEF base
  <2> QED
    BY <1>1, <1>5, <1>8, <2>1, ListFacts DEF ListStarted, NULL
<1>11. BlocksApart'
  <2>1. used' \subseteq Blocks'
    BY <1>5, <1>7, Zenon DEF IInv, BlocksApart
  <2>2. \A b \in Blocks' : HEAP <= b /\ size(b)' > 0 /\ b + size(b)' <= brk'
    <3>1. \A b \in Blocks \ {a} :
               HEAP <= b /\ size(b)' > 0 /\ b + size(b)' <= brk'
      BY <1>1, <1>5, <1>7, ListFacts, Zenon
    <3>2. /\ HEAP <= a /\ size(a)' > 0 /\ a + size(a)' <= brk'
          /\ HEAP <= c /\ size(c)' > 0 /\ c + size(c)' <= brk'
      BY <1>1, <1>2, <1>3, <1>4, <1>5, <1>7, ListFacts
    <3> QED
      BY <1>7, <3>1, <3>2, Zenon
  <2>3. ASSUME NEW b \in Blocks', NEW d \in Blocks', b < d
        PROVE  b + size(b)' <= d
    <3>1. \A x \in Blocks : x \in DOMAIN hdr /\ x \in Nat /\ size(x) \in Nat
      BY <1>1, ListFacts, Zenon
    <3>2. CASE b = c
      BY <1>1, <1>2, <1>3, <1>4, <1>7, <2>3, <3>1, <3>2
    <3>3. CASE b = a
      BY <1>1, <1>2, <1>3, <1>4, <1>7, <2>3, <3>1, <3>3
    <3>4. CASE b # c /\ b # a
      <4>1. b \in Blocks /\ size(b)' = size(b) /\ a \in DOMAIN hdr
        BY <1>1, <1>7, <3>1, <3>4, ListFacts, Zenon
      <4>2. CASE d = c
        BY <1>1, <1>2, <1>3, <1>4, <2>3, <3>1, <3>4, <4>1, <4>2, ListFacts
      <4>3. CASE d \in Blocks
        BY <1>1, <2>3, <3>1, <4>1, <4>3, ListFacts, Zenon
      <4> QED
        BY <1>7, <4>2, <4>3, Zenon
    <3> QED
      BY <3>2, <3>3, <3>4, Zenon
  <2>4. core' = UNION {Units(b)' : b \in Blocks'}
    <3>1. \A x : x \in core <=> \E b \in Blocks : x \in b..b + size(b) - 1
      BY <1>1, ListFacts, Zenon DEF Units
    <3>2. \A b \in Blocks \ {a} : size(b)' = size(b)
      BY <1>1, <1>7, ListFacts, Zenon
    <3>3. \A x : x \in a..a + size(a) - 1
                   <=> x \in a..a + m - 1 \/ x \in c..c + n - 1
      BY <1>2, <1>3, <1>4
    <3>4. \A x : x \in core <=> \E b \in Blocks' : x \in b..b + size(b)' - 1
      BY <1>4, <1>7, <3>1, <3>2, <3>3, Zenon
    <3> QED
      BY <1>5, <3>4, Zenon DEF Units
  <2> QED
    BY <2>1, <2>2, <2>3, <2>4, Zenon DEF BlocksApart
<1>12. ListOrdered'
  <2>1. ASSUME NEW b \in FreeSet PROVE Follows(FreeSet, b, ptr(b))'
    <3>1. /\ Follows(FreeSet, b, ptr(b)) /\ ptr(b)' = ptr(b) /\ b \in Nat
          /\ size(b)' \in Nat /\ size(b) \in Nat /\ size(b)' <= size(b)
          /\ ptr(b) \in Nat
      BY <1>1, <1>2, <1>4, <1>7, ListFacts DEF Follows
    <3> QED
      BY <1>8, <3>1 DEF Follows
  <2> QED
    BY <1>8, <2>1, Zenon DEF ListOrdered
<1>13. CallInv'
  BY <1>5, Zenon DEF CallInv
<1> QED
  BY <1>9, <1>10, <1>11, <1>12, <1>13, Zenon DEF IInv

\* Where free() puts its block b: behind a, and before n or at the end.
LEMMA PlaceFacts ==
  ASSUME IInv, pc = "place", Placed
  PROVE  /\ freep # NULL /\ p \in FreeSet /\ bp \in Blocks
         /\ bp \notin FreeSet
         /\ bp \notin used
         /\ FreeSet = DOMAIN hdr \ (used \cup {bp})
         /\ p < bp /\ p + size(p) <= bp
         /\ ptr(p) \in FreeSet
         /\ \/ ptr(p) = base /\ \A x \in FreeSet : x <= p
            \/ /\ bp + size(bp) <= ptr(p) /\ ptr(p) # base
               /\ \A x \in FreeSet : x <= p \/ ptr(p) <= x
<1>1. /\ freep # NULL /\ p \in FreeSet /\ bp \in Blocks /\ bp \notin used
      /\ FreeSet = DOMAIN hdr \ (used \cup {bp})
  BY FreeSetIs, Zenon DEF IInv, ListStarted, CallInv
<1>2. Follows(FreeSet, p, ptr(p)) /\ p \in DOMAIN hdr /\ bp \in DOMAIN hdr
  BY <1>1, ListFacts, Zenon
<1>3. /\ p \in Nat /\ bp \in Nat /\ size(p) \in Nat /\ size(bp) \in Nat
      /\ ptr(p) \in FreeSet /\ ptr(p) \in DOMAIN hdr /\ ptr(p) \in Nat
      /\ FreeSet \subseteq Nat
  BY <1>1, <1>2, ListFacts, Zenon DEF Follows
<1>4. CASE bp > p /\ bp < ptr(p)
  <2>1. ptr(p) # base /\ \A x \in FreeSet : x <= p \/ ptr(p) <= x
    BY <1>2, <1>3, <1>4 DEF Follows, base
  <2>2. bp + size(bp) <= ptr(p) /\ p + size(p) <= bp
    BY <1>1, <1>2, <1>3, <1>4, ListFacts, Zenon
  <2> QED
    BY <1>1, <1>3, <1>4, <2>1, <2>2, Zenon
<1>5. CASE p >= ptr(p) /\ (bp > p \/ bp < ptr(p))
  <2>1. ptr(p) = base /\ \A x \in FreeSet : x <= p
    BY <1>2, <1>3, <1>5 DEF Follows
  <2>2. p < bp
    BY <1>3, <1>5, <2>1 DEF base
  <2>3. p + size(p) <= bp
    BY <1>1, <1>2, <2>2, ListFacts, Zenon
  <2> QED
    BY <1>1, <1>3, <2>1, <2>2, <2>3, Zenon
<1> QED
  BY <1>4, <1>5, Zenon DEF Placed

\* The list without the block n that b may be joined to: N comes behind b,
\* which has z units now, and X is what is gone.
Shape(a, b, X, N, z) ==
  /\ a = p /\ b = bp /\ a \notin X /\ b \notin X
  /\ X \subseteq Blocks \cap FreeSet
  /\ \A y \in X : a < y /\ \A x \in FreeSet : x <= a \/ y <= x
  /\ z > 0 /\ b + z <= brk /\ N \notin X
  /\ \/ N = base /\ \A x \in FreeSet \ X : x <= a
     \/ N > b + z /\ \A x \in FreeSet \ X : x <= a \/ N <= x
  /\ \A x \in DOMAIN hdr \ X : b < x => b + z <= x
  /\ \A x : x \in b..b + z - 1
              <=> x \in Units(b) \/ \E y \in X : x \in Units(y)
  /\ IF a + size(a) = b
     THEN /\ DOMAIN Joined = DOMAIN hdr \ (X \cup {b})
          /\ Joined[a] = [ptr |-> N, size |-> size(a) + z]
          /\ \A x \in DOMAIN Joined \ {a} : Joined[x] = hdr[x]
     ELSE /\ DOMAIN Joined = DOMAIN hdr \ X
          /\ Joined[a] = [ptr |-> b, size |-> size(a)]
          /\ Joined[b] = [ptr |-> N, size |-> z]
          /\ \A x \in DOMAIN Joined \ {a, b} : Joined[x] = hdr[x]

\* The last part of Joined, for the headers u that its first part makes.
Ends(u, a, b) ==
  IF a + size(a) = b
  THEN Drop([u EXCEPT ![a] = [ptr |-> u[b].ptr,
                              size |-> size(a) + u[b].size]], b)
  ELSE [u EXCEPT ![a].ptr = b]

\* What Ends makes, header by header.
IsEnd(j, u, D, a, b) ==
  IF a + size(a) = b
  THEN /\ DOMAIN j = D \ {b}
       /\ j[a] = [ptr |-> u[b].ptr, size |-> size(a) + u[b].size]
       /\ \A x \in D \ {a, b} : j[x] = u[x]
  ELSE /\ DOMAIN j = D
       /\ j[a] = [ptr |-> b, size |-> size(a)]
       /\ \A x \in D \ {a} : j[x] = u[x]

\* The headers of the blocks that the last part leaves.
LEMMA EndsFacts ==
  ASSUME NEW u, NEW D, u \in [D -> Header], NEW a \in D, NEW b \in D, a # b,
         u[a].size = size(a)
  PROVE  IsEnd(Ends(u, a, b), u, D, a, b)
<1>1. DOMAIN u = D /\ u[a] = [ptr |-> u[a].ptr, size |-> u[a].size]
  BY Zenon DEF Header
<1>2. CASE a + size(a) = b
  BY <1>1, <1>2, Zenon DEF Ends, Drop, IsEnd
<1>3. CASE a + size(a) # b
  BY <1>1, <1>3, Zenon DEF Ends, IsEnd
<1> QED
  BY <1>2, <1>3, Zenon

\* The block does not touch the one behind it.
LEMMA JoinAlone ==
  ASSUME IInv, pc = "place", Placed, bp + size(bp) # ptr(p)
  PROVE  Shape(p, bp, {}, ptr(p), size(bp))
<1> DEFINE u == [hdr EXCEPT ![bp].ptr = ptr(p)]
<1>1. Joined = Ends(u, p, bp)
  BY DEF Joined, Ends
<1>2. /\ p \in DOMAIN hdr /\ bp \in DOMAIN hdr /\ p # bp /\ ptr(p) \in Int
      /\ bp \in Blocks
  BY PlaceFacts, ListFacts, Zenon
<1>3. u \in [DOMAIN hdr -> Header]
  BY <1>2, Zenon DEF IInv, TypeOK, Header
<1>4. /\ u[p].size = size(p) /\ u[bp] = [ptr |-> ptr(p), size |-> size(bp)]
      /\ \A x \in DOMAIN hdr \ {bp} : u[x] = hdr[x]
  <2>1. hdr[bp] = [ptr |-> ptr(bp), size |-> size(bp)]
    BY <1>2, HdrFacts, Zenon DEF IInv
  <2> QED
    BY <1>2, <2>1, Zenon DEF IInv, TypeOK, size
<1> HIDE DEF u
<1>5. IF p + size(p) = bp
      THEN /\ DOMAIN Joined = DOMAIN hdr \ ({} \cup {bp})
           /\ Joined[p] = [ptr |-> ptr(p), size |-> size(p) + size(bp)]
           /\ \A x \in DOMAIN Joined \ {p} : Joined[x] = hdr[x]
      ELSE /\ DOMAIN Joined = DOMAIN hdr \ {}
           /\ Joined[p] = [ptr |-> bp, size |-> size(p)]
           /\ Joined[bp] = [ptr |-> ptr(p), size |-> size(bp)]
           /\ \A x \in DOMAIN Joined \ {p, bp} : Joined[x] = hdr[x]
  <2>1. IsEnd(Joined, u, DOMAIN hdr, p, bp)
    BY <1>1, <1>2, <1>3, <1>4, EndsFacts, Zenon
  <2>2. u[bp].ptr = ptr(p) /\ u[bp].size = size(bp)
    BY <1>4
  <2> QED
    BY <1>2, <1>4, <2>1, <2>2, Zenon DEF IsEnd
<1>6. /\ size(bp) > 0 /\ bp + size(bp) <= brk
      /\ \A x \in DOMAIN hdr \ {} : bp < x => bp + size(bp) <= x
      /\ bp \in Nat /\ size(bp) \in Nat /\ ptr(p) \in Nat
  BY <1>2, PlaceFacts, ListFacts, Zenon
<1>7. \/ ptr(p) = base /\ \A x \in FreeSet \ {} : x <= p
      \/ /\ ptr(p) > bp + size(bp)
         /\ \A x \in FreeSet \ {} : x <= p \/ ptr(p) <= x
  BY <1>6, PlaceFacts
<1> QED
  BY <1>5, <1>6, <1>7, Zenon DEF Shape, Units

\* It touches the one behind it, and takes it in.
LEMMA JoinUp ==
  ASSUME IInv, pc = "place", Placed, bp + size(bp) = ptr(p)
  PROVE  Shape(p, bp, {ptr(p)}, ptr(ptr(p)), size(bp) + size(ptr(p)))
<1>1. PICK n \in FreeSet : n = ptr(p)
  BY PlaceFacts, Zenon
<1>2. /\ p \in DOMAIN hdr /\ bp \in Blocks /\ bp \in DOMAIN hdr
      /\ n \in DOMAIN hdr
      /\ p \in Nat /\ bp \in Nat /\ n \in Nat /\ ptr(n) \in Int
      /\ size(p) \in Nat /\ size(bp) \in Nat /\ size(n) \in Nat
      /\ size(bp) > 0 /\ p < bp /\ bp < n /\ FreeSet \subseteq Nat
  BY <1>1, PlaceFacts, ListFacts
<1>3. n \in Blocks /\ size(n) > 0 /\ n + size(n) <= brk
  BY <1>2, PlaceFacts, ListFacts DEF base
<1> DEFINE z == size(bp) + size(n)
           v == [hdr EXCEPT ![bp] = [ptr |-> ptr(n), size |-> z]]
           u == Drop(v, n)
           D == DOMAIN hdr \ {n}
<1>4. Joined = Ends(u, p, bp)
  BY <1>1, Zenon DEF Joined, Ends
<1>5. v \in [DOMAIN hdr -> Header]
  BY <1>2 DEF IInv, TypeOK, Header
<1>6. /\ u \in [D -> Header] /\ p \in D /\ bp \in D /\ p # bp
      /\ u[p].size = size(p) /\ u[bp] = [ptr |-> ptr(n), size |-> z]
      /\ \A x \in D \ {bp} : u[x] = hdr[x]
  <2>1. /\ v[bp] = [ptr |-> ptr(n), size |-> z]
        /\ \A x \in D \ {bp} : v[x] = hdr[x]
    BY <1>2, Zenon DEF IInv, TypeOK
  <2> HIDE DEF v
  <2>2. u = [x \in D |-> v[x]]
    BY <1>5, Zenon DEF Drop
  <2> QED
    BY <1>2, <1>5, <2>1, <2>2 DEF size
<1> HIDE DEF u, v
<1>7. IF p + size(p) = bp
      THEN /\ DOMAIN Joined = DOMAIN hdr \ ({n} \cup {bp})
           /\ Joined[p] = [ptr |-> ptr(n), size |-> size(p) + z]
           /\ \A x \in DOMAIN Joined \ {p} : Joined[x] = hdr[x]
      ELSE /\ DOMAIN Joined = DOMAIN hdr \ {n}
           /\ Joined[p] = [ptr |-> bp, size |-> size(p)]
           /\ Joined[bp] = [ptr |-> ptr(n), size |-> z]
           /\ \A x \in DOMAIN Joined \ {p, bp} : Joined[x] = hdr[x]
  <2>1. u[bp].ptr = ptr(n) /\ u[bp].size = z
    BY <1>6
  <2> HIDE DEF z, D
  <2>2. IsEnd(Joined, u, D, p, bp)
    BY <1>4, <1>6, EndsFacts, Zenon
  <2>3. IF p + size(p) = bp
        THEN /\ DOMAIN Joined = D \ {bp}
             /\ Joined[p] = [ptr |-> ptr(n), size |-> size(p) + z]
             /\ \A x \in D \ {p, bp} : Joined[x] = hdr[x]
        ELSE /\ DOMAIN Joined = D
             /\ Joined[p] = [ptr |-> bp, size |-> size(p)]
             /\ Joined[bp] = [ptr |-> ptr(n), size |-> z]
             /\ \A x \in D \ {p, bp} : Joined[x] = hdr[x]
    BY <1>6, <2>1, <2>2, Zenon DEF IsEnd
  <2> USE DEF D
  <2> QED
    BY <1>2, <2>3, Zenon
<1>8. bp + z = n + size(n) /\ z > 0 /\ z \in Nat
  BY <1>1, <1>2
<1>9. \A x \in DOMAIN hdr \ {n} : bp < x => bp + z <= x
  <2>1. ASSUME NEW x \in DOMAIN hdr \ {n}, bp < x PROVE n + size(n) <= x
    <3>1. bp + size(bp) <= x /\ x \in Nat
      BY <1>2, <2>1, PlaceFacts, ListFacts, Zenon
    <3>2. n < x
      BY <1>1, <1>2, <2>1, <3>1
    <3> QED
      BY <1>2, <3>2, PlaceFacts, ListFacts, Zenon
  <2> QED
    BY <1>8, <2>1, Zenon
<1>10. /\ ptr(n) # n
       /\ \/ ptr(n) = base /\ \A x \in FreeSet \ {n} : x <= p
          \/ /\ ptr(n) > bp + z
             /\ \A x \in FreeSet \ {n} : x <= p \/ ptr(n) <= x
  <2>1. Follows(FreeSet, n, ptr(n)) /\ ptr(n) \in Nat
    BY PlaceFacts, ListFacts, Zenon DEF Follows
  <2>2. \A x \in FreeSet : x <= p \/ n <= x
    BY <1>1, <1>3, PlaceFacts, ListFacts, Zenon
  <2>3. CASE ptr(n) = base /\ \A x \in FreeSet : x <= n
    BY <1>2, <2>2, <2>3 DEF base
  <2>4. CASE ptr(n) > n + size(n) /\ \A x \in FreeSet : x <= n \/ ptr(n) <= x
    <3>1. ptr(n) # n /\ ptr(n) > bp + z
      BY <1>2, <1>8, <2>1, <2>4
    <3>2. \A x \in FreeSet \ {n} : x <= p \/ ptr(n) <= x
      BY <1>2, <2>2, <2>4
    <3> QED
      BY <3>1, <3>2, Zenon
  <2> QED
    BY <2>1, <2>3, <2>4, Zenon DEF Follows
<1>11. \A x : x \in bp..bp + z - 1
                <=> x \in Units(bp) \/ \E y \in {n} : x \in Units(y)
  BY <1>1, <1>2, <1>8 DEF Units
<1>12. Shape(p, bp, {n}, ptr(n), z)
  <2>1. \A y \in {n} : p < y /\ \A x \in FreeSet : x <= p \/ y <= x
    BY <1>1, <1>2, <1>3, PlaceFacts, ListFacts
  <2> HIDE DEF z
  <2> QED
    BY <1>2, <1>3, <1>7, <1>8, <1>9, <1>10, <1>11, <2>1 DEF Shape
<1> QED
  BY <1>1, <1>12, Zenon

\* What is the same however the block is joined.
LEMMA JoinCommon ==
  ASSUME IInv, FreeJoin
  PROVE  /\ pc = "place" /\ Placed /\ hdr' = Joined /\ freep' = p
         /\ hdr' = [x \in DOMAIN hdr' |-> hdr'[x]]
         /\ UNCHANGED <<brk, used, core>>
         /\ \/ /\ pc' = "search" /\ prevp' = p /\ p' = hdr'[p].ptr
               /\ nunits' = nunits /\ nunits > 0 /\ caller' = "morecore"
            \/ pc' = "program" /\ nunits' = 0 /\ caller' = "program"
<1>1. /\ pc = "place" /\ Placed /\ hdr' = Joined /\ freep' = p
      /\ UNCHANGED <<brk, used, core>>
  BY Zenon DEF FreeJoin
<1>2. \/ /\ pc' = "search" /\ prevp' = p /\ p' = hdr'[p].ptr
         /\ nunits' = nunits /\ caller = "morecore" /\ caller' = "morecore"
      \/ pc' = "program" /\ nunits' = 0 /\ caller' = "program"
  BY Zenon DEF FreeJoin, NoCall
<1>3. caller = "morecore" => nunits > 0
  BY <1>1, Zenon DEF IInv, CallInv
<1>4. Joined = [x \in DOMAIN Joined |-> Joined[x]]
  BY Zenon DEF Joined, Drop
<1> QED
  BY <1>1, <1>2, <1>3, <1>4, Zenon

\* The search of malloc() begins again behind the block that free() left.
LEMMA JoinCall ==
  ASSUME IInv, FreeJoin, TypeOK', freep' \in FreeSet', base \in FreeSet',
         Follows(FreeSet, freep, ptr(freep))'
  PROVE  CallInv'
<1>1. /\ FreeSet' \subseteq Nat
      /\ size(freep)' \in Nat
      /\ ptr(freep)' \in FreeSet'
  BY Zenon DEF TypeOK, FreeSet, Header, size, Follows
<1>2. CASE pc' = "search"
  <2>1. prevp' = freep' /\ p' = ptr(freep)' /\ nunits' > 0
    BY <1>2, JoinCommon, Zenon DEF ptr, IInv, TypeOK
  <2>2. \A x \in FreeSet' : ~Passed(x)'
    <3>1. freep' \in Nat /\ p' \in Nat
      BY <1>1, <2>1, Zenon
    <3>2. \/ p' = 0 /\ \A x \in FreeSet' : x <= freep'
          \/ /\ p' > freep' + size(freep)'
             /\ \A x \in FreeSet' : x <= freep' \/ p' <= x
      BY <2>1, Zenon DEF Follows, base
    <3>3. ASSUME NEW x \in FreeSet' PROVE ~Passed(x)'
      <4>1. x \in Nat
        BY <1>1, Zenon
      <4> QED
        BY <1>1, <3>1, <3>2, <4>1 DEF Passed
    <3> QED
      BY <3>3, Zenon
  <2> QED
    BY <1>1, <1>2, <2>1, <2>2, Zenon DEF CallInv
<1>3. CASE pc' = "program"
  BY <1>3, Zenon DEF CallInv
<1> QED
  BY <1>2, <1>3, JoinCommon, Zenon

\* Only a is followed by a block that is gone.
LEMMA ShapeNext ==
  ASSUME IInv, freep # NULL, NEW a \in FreeSet, NEW b, NEW X, NEW N, NEW z,
         Shape(a, b, X, N, z), NEW x \in FreeSet \ {a}
  PROVE  ptr(x) \notin X
<1>1. SUFFICES ASSUME ptr(x) \in X PROVE FALSE
  BY Zenon
<1>2. /\ Follows(FreeSet, x, ptr(x)) /\ ptr(x) # base /\ a < ptr(x)
      /\ x <= a \/ ptr(x) <= x
      /\ ptr(x) \in Nat /\ x \in Nat /\ a \in Nat /\ size(x) \in Nat
  BY <1>1, ListFacts, Zenon DEF Shape, Blocks, Follows
<1> QED
  BY <1>2 DEF Follows

\* The block is joined to the one before it.
LEMMA JoinDownInv ==
  ASSUME IInv, FreeJoin, NEW a \in FreeSet, NEW b \in Blocks, NEW X,
         NEW N \in FreeSet, NEW z \in Nat, Shape(a, b, X, N, z),
         a + size(a) = b
  PROVE  IInv'
<1>1. /\ a = p /\ b = bp /\ a \notin X /\ b \notin X
      /\ X \subseteq Blocks \cap FreeSet
      /\ z > 0 /\ b + z <= brk /\ N \notin X
      /\ \/ N = base /\ \A x \in FreeSet \ X : x <= a
         \/ N > b + z /\ \A x \in FreeSet \ X : x <= a \/ N <= x
      /\ \A x \in DOMAIN hdr \ X : b < x => b + z <= x
      /\ \A x : x \in b..b + z - 1
                  <=> x \in Units(b) \/ \E y \in X : x \in Units(y)
  BY Zenon DEF Shape
<1>2. /\ DOMAIN hdr' = DOMAIN hdr \ (X \cup {b})
      /\ hdr'[a] = [ptr |-> N, size |-> size(a) + z]
      /\ \A x \in DOMAIN hdr' \ {a} : hdr'[x] = hdr[x]
  BY JoinCommon, Zenon DEF Shape
<1>3. /\ freep # NULL /\ b \notin FreeSet /\ b \notin used /\ a < b
      /\ FreeSet = DOMAIN hdr \ (used \cup {b})
      /\ a \in Nat /\ b \in Nat /\ N \in Nat /\ size(a) \in Nat
      /\ a \in DOMAIN hdr
  BY <1>1, JoinCommon, PlaceFacts, ListFacts, Zenon
<1>4. a \in Blocks /\ base \notin X /\ base # b /\ base # a
  BY <1>1, <1>3, ListFacts DEF base, Blocks
<1>5. /\ Blocks' = Blocks \ (X \cup {b})
      /\ size(a)' = size(a) + z /\ ptr(a)' = N
      /\ \A x \in DOMAIN hdr' \ {a} : size(x)' = size(x) /\ ptr(x)' = ptr(x)
  BY <1>2 DEF Blocks, size, ptr
<1>6. FreeSet' = FreeSet \ X
  <2>1. FreeSet' = DOMAIN hdr' \ used
    BY JoinCommon, FreeSetIs, Zenon
  <2> QED
    BY <1>2, <1>3, <2>1, Zenon
<1>7. TypeOK'
  <2>1. \A x \in DOMAIN hdr' : hdr'[x] \in Header
    BY <1>2, <1>3 DEF IInv, TypeOK, Header
  <2>2. hdr' \in [DOMAIN hdr' -> Header]
    BY <2>1, JoinCommon, Zenon
  <2> QED
    BY <1>1, <1>2, <1>3, <2>2, JoinCommon DEF IInv, TypeOK
<1>8. ListStarted'
  <2>1. base \in FreeSet' /\ base \in DOMAIN hdr' \ {a} /\ size(base) = 0
    BY <1>2, <1>3, <1>4, <1>6, ListFacts, Zenon
  <2>2. freep' = a /\ a \in FreeSet' /\ a # NULL
    BY <1>1, <1>3, <1>6, JoinCommon DEF NULL
  <2> QED
    BY <1>5, <2>1, <2>2, Zenon DEF ListStarted
<1>9. BlocksApart'
  <2>1. used' \subseteq Blocks'
    <3>1. used \cap X = {}
      BY <1>1, <1>3, Zenon
    <3> QED
      BY <1>3, <1>5, <3>1, JoinCommon, Zenon DEF IInv, BlocksApart
  <2>2. \A x \in Blocks' \ {a} :
             x \in Blocks /\ x \in DOMAIN hdr' /\ size(x)' = size(x)
    BY <1>5, Zenon DEF Blocks
  <2>3. \A x \in Blocks' : HEAP <= x /\ size(x)' > 0 /\ x + size(x)' <= brk'
    <3>1. \A x \in Blocks' \ {a} :
               HEAP <= x /\ size(x)' > 0 /\ x + size(x)' <= brk'
      BY <1>3, <2>2, ListFacts, JoinCommon, Zenon
    <3>2. HEAP <= a /\ size(a)' > 0 /\ a + size(a)' <= brk'
      BY <1>1, <1>3, <1>4, <1>5, ListFacts, JoinCommon
    <3> QED
      BY <3>1, <3>2, Zenon
  <2>4. ASSUME NEW x \in Blocks', NEW y \in Blocks', x < y
        PROVE  x + size(x)' <= y
    <3>1. /\ x \in DOMAIN hdr /\ y \in DOMAIN hdr \ X /\ y # b
          /\ x \in Nat /\ y \in Nat
      BY <1>3, <1>5, ListFacts, Zenon
    <3>2. CASE x = a
      <4>1. b <= y
        BY <1>3, <2>4, <3>1, <3>2, ListFacts, Zenon
      <4>2. b + z <= y
        BY <1>1, <1>3, <3>1, <4>1
      <4> QED
        BY <1>3, <1>5, <3>2, <4>2
    <3>3. CASE x # a
      BY <1>3, <2>2, <2>4, <3>1, <3>3, ListFacts, Zenon
    <3> QED
      BY <3>2, <3>3, Zenon
  <2>5. core' = UNION {Units(x)' : x \in Blocks'}
    <3>1. \A w : w \in core <=> \E x \in Blocks : w \in Units(x)
      BY <1>3, ListFacts, Zenon
    <3>2. \A x \in Blocks' \ {a} : Units(x)' = Units(x)
      BY <2>2, Zenon DEF Units
    <3>3. \A w : w \in Units(a)' <=> w \in Units(a) \/ w \in b..b + z - 1
      BY <1>1, <1>3, <1>5 DEF Units
    <3>4. \A w : w \in Units(a)'
                   <=> \E x \in X \cup {a, b} : w \in Units(x)
      BY <1>1, <3>3, Zenon
    <3>5. Blocks = (Blocks' \ {a}) \cup (X \cup {a, b}) /\ a \in Blocks'
      BY <1>1, <1>3, <1>4, <1>5, Zenon
    <3>6. \A w : w \in core <=> \E x \in Blocks' : w \in Units(x)'
      BY <3>1, <3>2, <3>4, <3>5
    <3> QED
      BY <3>6, JoinCommon, Zenon
  <2> QED
    BY <2>1, <2>3, <2>4, <2>5, Zenon DEF BlocksApart
<1>10. Follows(FreeSet, a, ptr(a))'
  BY <1>1, <1>3, <1>5, <1>6 DEF Follows
<1>11. ListOrdered'
  <2>1. ASSUME NEW x \in FreeSet \ (X \cup {a})
        PROVE  Follows(FreeSet, x, ptr(x))'
    <3>1. /\ Follows(FreeSet, x, ptr(x))
          /\ ptr(x)' = ptr(x)
          /\ size(x)' = size(x)
          /\ ptr(x) \notin X
      BY <1>2, <1>3, <1>5, ListFacts, ShapeNext, Zenon
    <3> QED
      BY <1>6, <3>1, Zenon DEF Follows
  <2> QED
    BY <1>6, <1>10, <2>1, Zenon DEF ListOrdered
<1>12. CallInv'
  <2>1. freep' = a /\ a \in FreeSet' /\ base \in FreeSet'
    BY <1>1, <1>3, <1>4, <1>6, ListFacts, JoinCommon, Zenon
  <2>2. Follows(FreeSet, freep, ptr(freep))'
    BY <1>10, <2>1, Zenon DEF Follows, ptr, size
  <2> QED
    BY <1>7, <2>1, <2>2, JoinCall, Zenon
<1> QED
  BY <1>7, <1>8, <1>9, <1>11, <1>12, Zenon DEF IInv

\* The block is not joined to the one before it.
LEMMA JoinApartInv ==
  ASSUME IInv, FreeJoin, NEW a \in FreeSet, NEW b \in Blocks, NEW X,
         NEW N \in FreeSet, NEW z \in Nat, Shape(a, b, X, N, z),
         a + size(a) # b
  PROVE  IInv'
<1>1. /\ a = p /\ b = bp /\ a \notin X /\ b \notin X
      /\ X \subseteq Blocks \cap FreeSet
      /\ z > 0 /\ b + z <= brk /\ N \notin X
      /\ \/ N = base /\ \A x \in FreeSet \ X : x <= a
         \/ N > b + z /\ \A x \in FreeSet \ X : x <= a \/ N <= x
      /\ \A x \in DOMAIN hdr \ X : b < x => b + z <= x
      /\ \A x : x \in b..b + z - 1
                  <=> x \in Units(b) \/ \E y \in X : x \in Units(y)
  BY Zenon DEF Shape
<1>2. /\ DOMAIN hdr' = DOMAIN hdr \ X
      /\ hdr'[a] = [ptr |-> b, size |-> size(a)]
      /\ hdr'[b] = [ptr |-> N, size |-> z]
      /\ \A x \in DOMAIN hdr' \ {a, b} : hdr'[x] = hdr[x]
  BY JoinCommon, Zenon DEF Shape
<1>3. /\ freep # NULL /\ b \notin FreeSet /\ b \notin used /\ a < b
      /\ FreeSet = DOMAIN hdr \ (used \cup {b}) /\ FreeSet \subseteq Nat
      /\ a \in Nat /\ b \in Nat /\ N \in Nat /\ size(a) \in Nat
      /\ a \in DOMAIN hdr /\ b \in DOMAIN hdr /\ a + size(a) < b
  BY <1>1, JoinCommon, PlaceFacts, ListFacts
<1>4. base \notin X /\ base # b
  BY <1>1, <1>3, ListFacts, Zenon DEF base, Blocks
<1>5. /\ Blocks' = Blocks \ X
      /\ size(b)' = z /\ ptr(b)' = N /\ ptr(a)' = b
      /\ \A x \in DOMAIN hdr' \ {b} : size(x)' = size(x)
      /\ \A x \in DOMAIN hdr' \ {a, b} : ptr(x)' = ptr(x)
  BY <1>2 DEF Blocks, size, ptr
<1>6. FreeSet' = (FreeSet \ X) \cup {b}
  <2>1. FreeSet' = DOMAIN hdr' \ used
    BY JoinCommon, FreeSetIs, Zenon
  <2> QED
    BY <1>1, <1>2, <1>3, <2>1, Zenon
<1>7. TypeOK'
  <2>1. \A x \in DOMAIN hdr' : hdr'[x] \in Header
    BY <1>2, <1>3 DEF IInv, TypeOK, Header
  <2>2. hdr' \in [DOMAIN hdr' -> Header]
    BY <2>1, JoinCommon, Zenon
  <2> QED
    BY <1>1, <1>2, <1>3, <2>2, JoinCommon DEF IInv, TypeOK
<1>8. ListStarted'
  <2>1. base \in FreeSet' /\ base \in DOMAIN hdr' \ {b} /\ size(base) = 0
    BY <1>2, <1>3, <1>4, <1>6, ListFacts, Zenon
  <2>2. freep' = a /\ a \in FreeSet' /\ a # NULL
    BY <1>1, <1>3, <1>6, JoinCommon DEF NULL
  <2> QED
    BY <1>5, <2>1, <2>2, Zenon DEF ListStarted
<1>9. BlocksApart'
  <2>1. used' \subseteq Blocks'
    <3>1. used \cap X = {}
      BY <1>1, <1>3, Zenon
    <3> QED
      BY <1>5, <3>1, JoinCommon, Zenon DEF IInv, BlocksApart
  <2>2. \A x \in Blocks' \ {b} : x \in Blocks /\ size(x)' = size(x)
    BY <1>2, <1>5, Zenon DEF Blocks
  <2>3. \A x \in Blocks' : HEAP <= x /\ size(x)' > 0 /\ x + size(x)' <= brk'
    <3>1. \A x \in Blocks' \ {b} :
               HEAP <= x /\ size(x)' > 0 /\ x + size(x)' <= brk'
      BY <1>3, <2>2, ListFacts, JoinCommon, Zenon
    <3>2. HEAP <= b /\ size(b)' > 0 /\ b + size(b)' <= brk'
      BY <1>1, <1>3, <1>5, ListFacts, JoinCommon
    <3> QED
      BY <3>1, <3>2, Zenon
  <2>4. ASSUME NEW x \in Blocks', NEW y \in Blocks', x < y
        PROVE  x + size(x)' <= y
    <3>1. /\ x \in DOMAIN hdr /\ y \in DOMAIN hdr \ X
          /\ x \in Nat /\ y \in Nat
      BY <1>3, <1>5, ListFacts, Zenon
    <3>2. CASE x = b
      BY <1>1, <1>5, <2>4, <3>1, <3>2, Zenon
    <3>3. CASE x # b
      BY <1>3, <2>2, <2>4, <3>1, <3>3, ListFacts, Zenon
    <3> QED
      BY <3>2, <3>3, Zenon
  <2>5. core' = UNION {Units(x)' : x \in Blocks'}
    <3>1. \A w : w \in core <=> \E x \in Blocks : w \in Units(x)
      BY <1>3, ListFacts, Zenon
    <3>2. \A x \in Blocks' \ {b} : Units(x)' = Units(x)
      BY <2>2, Zenon DEF Units
    <3>3. \A w : w \in Units(b)' <=> w \in b..b + z - 1
      BY <1>5, Zenon DEF Units
    <3>4. \A w : w \in Units(b)' <=> \E x \in X \cup {b} : w \in Units(x)
      BY <1>1, <3>3, Zenon
    <3>5. Blocks = (Blocks' \ {b}) \cup (X \cup {b}) /\ b \in Blocks'
      BY <1>1, <1>5, Zenon
    <3>6. \A w : w \in core <=> \E x \in Blocks' : w \in Units(x)'
      BY <3>1, <3>2, <3>4, <3>5, Zenon
    <3> QED
      BY <3>6, JoinCommon, Zenon
  <2> QED
    BY <2>1, <2>3, <2>4, <2>5, Zenon DEF BlocksApart
<1>10. Follows(FreeSet, a, ptr(a))'
  <2>1. a \in DOMAIN hdr' \ {b}
    BY <1>1, <1>2, <1>3, Zenon
  <2>2. size(a)' = size(a) /\ ptr(a)' = b /\ b \in FreeSet'
    BY <1>5, <1>6, <2>1, Zenon
  <2>3. \A x \in FreeSet' : x <= a \/ b <= x
    BY <1>1, <1>3, <1>6
  <2> QED
    BY <1>3, <2>2, <2>3, Zenon DEF Follows
<1>11. Follows(FreeSet, b, ptr(b))'
  BY <1>1, <1>3, <1>5, <1>6 DEF Follows
<1>12. ListOrdered'
  <2>1. ASSUME NEW x \in FreeSet \ (X \cup {a})
        PROVE  Follows(FreeSet, x, ptr(x))'
    <3>1. /\ Follows(FreeSet, x, ptr(x))
          /\ ptr(x)' = ptr(x)
          /\ size(x)' = size(x)
          /\ ptr(x) \notin X /\ x # b
      BY <1>2, <1>3, <1>5, ListFacts, ShapeNext, Zenon
    <3>2. /\ ptr(x) \in FreeSet'
          /\ ptr(x) \in Nat
          /\ x \in Nat
          /\ size(x) \in Nat
          /\ x <= a \/ b < x
      BY <1>1, <1>3, <1>6, <3>1, ListFacts DEF Follows
    <3>3. CASE ptr(x) = base /\ \A y \in FreeSet : y <= x
      <4>1. b < x
        BY <1>3, <3>2, <3>3
      <4> QED
        BY <1>3, <1>6, <3>1, <3>2, <3>3, <4>1 DEF Follows
    <3>4. CASE ptr(x) > x + size(x) /\ \A y \in FreeSet : y <= x \/ ptr(x) <= y
      <4>1. b <= x \/ ptr(x) <= b
        BY <1>3, <3>2, <3>4
      <4> QED
        BY <1>6, <3>1, <3>2, <3>4, <4>1, Zenon DEF Follows
    <3> QED
      BY <3>1, <3>3, <3>4, Zenon DEF Follows
  <2> QED
    BY <1>6, <1>10, <1>11, <2>1, Zenon DEF ListOrdered
<1>13. CallInv'
  <2>1. freep' = a /\ a \in FreeSet' /\ base \in FreeSet'
    BY <1>1, <1>3, <1>4, <1>6, ListFacts, JoinCommon, Zenon
  <2>2. Follows(FreeSet, freep, ptr(freep))'
    BY <1>10, <2>1, Zenon DEF Follows, ptr, size
  <2> QED
    BY <1>7, <2>1, <2>2, JoinCall, Zenon
<1> QED
  BY <1>7, <1>8, <1>9, <1>12, <1>13, Zenon DEF IInv

\* The end of free().
LEMMA FreeJoinInv ==
  ASSUME IInv, FreeJoin
  PROVE  IInv'
<1>1. pc = "place" /\ Placed
  BY JoinCommon, Zenon
<1>2. \E a \in FreeSet, b \in Blocks, X \in SUBSET Blocks,
         N \in FreeSet, z \in Nat :
        Shape(a, b, X, N, z)
  <2>1. CASE bp + size(bp) = ptr(p)
    <3>1. /\ p \in FreeSet /\ bp \in Blocks /\ ptr(p) \in FreeSet
          /\ ptr(ptr(p)) \in FreeSet /\ size(bp) + size(ptr(p)) \in Nat
      BY <1>1, PlaceFacts, ListFacts DEF Follows
    <3>2. Shape(p, bp, {ptr(p)}, ptr(ptr(p)), size(bp) + size(ptr(p)))
      BY <1>1, <2>1, JoinUp, Zenon
    <3>3. {ptr(p)} \in SUBSET Blocks
      BY <3>2, Zenon DEF Shape
    <3> QED
      BY <3>1, <3>2, <3>3, Zenon
  <2>2. CASE bp + size(bp) # ptr(p)
    <3>1. /\ p \in FreeSet
          /\ bp \in Blocks
          /\ ptr(p) \in FreeSet
          /\ size(bp) \in Nat
      BY <1>1, PlaceFacts, ListFacts, Zenon
    <3>2. Shape(p, bp, {}, ptr(p), size(bp))
      BY <1>1, <2>2, JoinAlone, Zenon
    <3> QED
      BY <3>1, <3>2, Zenon
  <2> QED
    BY <2>1, <2>2, Zenon
<1>3. PICK a \in FreeSet, b \in Blocks, X \in SUBSET Blocks,
           N \in FreeSet, z \in Nat :
        Shape(a, b, X, N, z)
  BY <1>2, Zenon
<1>4. CASE a + size(a) = b
  BY <1>3, <1>4, JoinDownInv, Zenon
<1>5. CASE a + size(a) # b
  BY <1>3, <1>5, JoinApartInv, Zenon
<1> QED
  BY <1>4, <1>5, Zenon

-----------------------------------------------------------------------------
\* The empty heap.
LEMMA InitInv ==
  ASSUME Init
  PROVE  IInv
<1>1. /\ DOMAIN hdr = {} /\ freep = NULL /\ brk = HEAP /\ pc = "program"
      /\ nunits = 0 /\ caller = "program" /\ used = {} /\ core = {}
  BY DEF Init
<1>2. FreeSet = {} /\ Blocks = {}
  BY <1>1, Zenon DEF FreeSet, Blocks
<1>3. hdr \in [{} -> Header]
  BY DEF Init
<1>4. TypeOK
  BY <1>1, <1>3, UmallocAssumption DEF TypeOK
<1>5. ListStarted
  BY <1>1, Zenon DEF ListStarted
<1>6. BlocksApart
  BY <1>1, <1>2, Zenon DEF BlocksApart
<1>7. ListOrdered
  BY <1>2, Zenon DEF ListOrdered
<1>8. CallInv
  BY <1>1, Zenon DEF CallInv
<1> QED
  BY <1>4, <1>5, <1>6, <1>7, <1>8, Zenon DEF IInv

\* A step of the rest of the system.
LEMMA StutterInv ==
  ASSUME IInv, UNCHANGED vars
  PROVE  IInv'
<1>1. /\ UNCHANGED <<hdr, freep, brk, pc, p, prevp, nunits, bp>>
      /\ UNCHANGED <<caller, used, core>>
  BY Zenon DEF vars, locals
<1>2. FreeSet' = FreeSet
  BY <1>1, Zenon DEF FreeSet
<1>3. TypeOK'
  BY <1>1, Zenon DEF IInv, TypeOK
<1>4. ListStarted' /\ BlocksApart' /\ ListOrdered'
  <2>1. freep = NULL => pc' = "program"
    BY <1>1, Zenon DEF IInv, ListStarted
  <2>2. brk' \in HEAP..LIMIT /\ brk' >= brk
    BY <1>1, UmallocAssumption DEF IInv, TypeOK
  <2> QED
    BY <1>1, <1>2, <2>1, <2>2, ListFrame, Zenon
<1>5. CallInv'
  BY <1>1, <1>2, Zenon DEF IInv, CallInv, Passed, size, ptr, Blocks
<1> QED
  BY <1>3, <1>4, <1>5, Zenon DEF IInv

\* Every step of the allocator and of its program.
LEMMA NextInv ==
  ASSUME IInv, [Next]_vars
  PROVE  IInv'
<1>1. CASE MallocTake
  BY <1>1, TakeWholeInv, TakeTailInv, Zenon
<1>2. CASE MallocNext
  BY <1>2, MallocNextInv, Zenon
<1>3. CASE CoreFail
  BY <1>3, CoreFailInv, Zenon
<1>4. CASE CoreGrow
  BY <1>4, CoreGrowInv, Zenon
<1>5. CASE FreeNext
  BY <1>5, FreeNextInv, Zenon
<1>6. CASE FreeJoin
  BY <1>6, FreeJoinInv, Zenon
<1>7. CASE ProgramGrow
  BY <1>7, ProgramGrowInv, Zenon
<1>8. ASSUME NEW nbytes \in Requests, Malloc(nbytes) PROVE IInv'
  BY <1>8, MallocInv, Zenon
<1>9. ASSUME NEW a \in used, Free(a) PROVE IInv'
  BY <1>9, FreeInv, Zenon
<1>10. CASE UNCHANGED vars
  BY <1>10, StutterInv, Zenon
<1> QED
  BY <1>1, <1>2, <1>3, <1>4, <1>5, <1>6, <1>7, <1>8, <1>9, <1>10, Zenon
     DEF Next, Step

\* IInv holds in every reachable state.
LEMMA Invariance == Spec => []IInv
<1>1. Init => IInv
  BY InitInv, Zenon
<1>2. IInv /\ [Next]_vars => IInv'
  BY NextInv, Zenon
<1> QED
  BY <1>1, <1>2, PTL DEF Spec

-----------------------------------------------------------------------------
\* A set of numbers that is not empty has a least element.
LEMMA LeastElement ==
  ASSUME NEW S \in SUBSET Nat, S # {}
  PROVE  \E x \in S : \A y \in S : x <= y
<1> DEFINE Less == {ss \in Nat \X Nat : ss[1] < ss[2]}
<1>1. OpToRel(<, Nat) = Less
  BY Zenon DEF OpToRel
<1>2. IsWellFoundedOn(Less, Nat)
  BY <1>1, NatLessThanWellFounded, Zenon
<1> HIDE DEF Less
<1>3. PICK x \in S : \A y \in S : ~(<<y, x>> \in Less)
  BY <1>2, WFMin, Zenon
<1>4. ASSUME NEW y \in S, ~(x <= y) PROVE FALSE
  <2>1. <<y, x>> \in Nat \X Nat
    BY Zenon
  <2>2. <<y, x>>[1] < <<y, x>>[2]
    BY <1>4
  <2>3. <<y, x>> \in Less
    BY <2>1, <2>2, Zenon DEF Less
  <2> QED
    BY <1>3, <2>3, Zenon
<1> QED
  BY <1>4, Zenon

\* g is the first n links of the list in h that begins at x.
Links(h, x, n, g) ==
  g = [i \in 0..n |-> IF i = 0 THEN x ELSE h[g[i - 1]].ptr]

\* A list can be followed for any number of links.
LEMMA LinksExist ==
  ASSUME NEW h, NEW x, NEW n \in Nat
  PROVE  \E g : Links(h, x, n, g)
<1> DEFINE S == {m \in Nat : ~\E g : Links(h, x, m, g)}
<1> SUFFICES ASSUME S # {} PROVE FALSE
  BY Zenon
<1>1. PICK m \in S : \A y \in S : m <= y
  <2>1. S \in SUBSET Nat
    BY Zenon
  <2> HIDE DEF S
  <2> QED
    BY <2>1, LeastElement, Zenon
<1>2. CASE m = 0
  <2> DEFINE g == [i \in 0..0 |-> x]
  <2>1. g = [i \in 0..0 |-> IF i = 0 THEN x ELSE h[g[i - 1]].ptr]
    OBVIOUS
  <2>2. Links(h, x, 0, g)
    BY <2>1, Zenon DEF Links
  <2> QED
    BY <1>2, <2>2, Zenon
<1>3. CASE m # 0
  <2>1. m \in Nat /\ m - 1 \in Nat /\ m - 1 \notin S
    BY <1>1, <1>3
  <2>2. PICK g : g = [i \in 0..m - 1 |->
                        IF i = 0 THEN x ELSE h[g[i - 1]].ptr]
    BY <2>1, Zenon DEF Links
  <2> DEFINE f == [i \in 0..m |-> IF i = 0 THEN x ELSE h[g[i - 1]].ptr]
  <2>3. \A i \in 0..m - 1 : f[i] = g[i]
    BY <2>1, <2>2
  <2>4. ASSUME NEW i \in 0..m, i # 0 PROVE f[i] = h[f[i - 1]].ptr
    <3>1. i - 1 \in 0..m - 1
      BY <2>4, <2>1
    <3> QED
      BY <2>3, <2>4, <3>1, Zenon
  <2>5. f[0] = x /\ f = [i \in 0..m |-> f[i]]
    BY <2>1
  <2> HIDE DEF f
  <2>6. f = [i \in 0..m |-> IF i = 0 THEN x ELSE h[f[i - 1]].ptr]
    BY <2>4, <2>5, Zenon
  <2>7. Links(h, x, m, f)
    BY <2>6, Zenon DEF Links
  <2> QED
    BY <2>7, Zenon
<1> QED
  BY <1>2, <1>3, Zenon

\* walk is the list from freep on.
LEMMA WalkFacts ==
  /\ walk[0] = freep
  /\ \A i \in 1..LIMIT : walk[i] = ptr(walk[i - 1])
<1>1. PICK g : Links(hdr, freep, LIMIT, g)
  BY LinksExist, UmallocAssumption, Zenon
<1>2. walk = [i \in 0..LIMIT |-> IF i = 0 THEN freep ELSE ptr(walk[i - 1])]
  BY <1>1, Zenon DEF walk, ptr, Links
<1>3. 0 \in 0..LIMIT /\ \A i \in 1..LIMIT : i \in 0..LIMIT /\ i # 0
  BY UmallocAssumption
<1> HIDE DEF walk
<1> QED
  BY <1>2, <1>3, Zenon

\* The walk stays on the list.
LEMMA WalkStays ==
  ASSUME IInv, freep # NULL, NEW n \in 0..LIMIT
  PROVE  walk[n] \in FreeSet
<1> DEFINE S == {i \in 0..LIMIT : walk[i] \notin FreeSet}
<1> SUFFICES ASSUME S # {} PROVE FALSE
  BY Zenon
<1>1. PICK i \in S : \A y \in S : i <= y
  <2>1. S \in SUBSET Nat
    OBVIOUS
  <2> HIDE DEF S
  <2> QED
    BY <2>1, LeastElement, Zenon
<1>2. i \in 1..LIMIT
  BY WalkFacts, ListFacts
<1>3. i - 1 \in 0..LIMIT /\ i - 1 \notin S
  BY <1>1, <1>2, UmallocAssumption
<1>4. walk[i - 1] \in FreeSet
  BY <1>3, Zenon
<1>5. walk[i] = ptr(walk[i - 1])
  BY <1>2, WalkFacts, Zenon
<1> QED
  BY <1>4, <1>5, ListFacts, Zenon DEF Follows

\* The walk comes by every block above the one it is at.
LEMMA WalkUp ==
  ASSUME IInv, freep # NULL, NEW k \in 0..LIMIT, NEW x \in FreeSet,
         walk[k] <= x, k + (x - walk[k]) <= LIMIT
  PROVE  \E i \in k..k + (x - walk[k]) : walk[i] = x
<1>1. PICK a \in FreeSet : a = walk[k]
  BY WalkStays, Zenon
<1>2. a \in Nat /\ x \in Nat /\ k \in Nat /\ LIMIT \in Nat /\ a <= x
      /\ k + (x - a) <= LIMIT
  BY <1>1, ListFacts, UmallocAssumption
<1> DEFINE At(i, n) == /\ walk[i] + n = x /\ a <= walk[i]
                       /\ i - k <= walk[i] - a
           S == {n \in Nat : \E i \in k..LIMIT : At(i, n)}
<1>3. x - a \in S
  <2>1. k \in k..LIMIT /\ At(k, x - a) /\ x - a \in Nat
    BY <1>1, <1>2
  <2> QED
    BY <2>1, Zenon
<1>4. PICK n \in S : \A y \in S : n <= y
  <2>1. S \in SUBSET Nat /\ S # {}
    BY <1>3, Zenon
  <2> HIDE DEF S
  <2> QED
    BY <2>1, LeastElement, Zenon
<1>5. PICK i \in k..LIMIT : At(i, n)
  BY <1>4, Zenon
<1>6. PICK y \in FreeSet : y = walk[i]
  <2>1. i \in 0..LIMIT
    BY <1>2
  <2> QED
    BY <2>1, WalkStays, Zenon
<1>7. /\ y \in Nat /\ n \in Nat /\ i \in Nat
      /\ y + n = x /\ a <= y /\ i - k <= y - a
  BY <1>4, <1>5, <1>6, ListFacts
<1>8. CASE n = 0
  BY <1>1, <1>2, <1>6, <1>7, <1>8
<1>9. CASE n # 0
  <2>1. Follows(FreeSet, y, ptr(y)) /\ size(y) \in Nat /\ y < x
    BY <1>2, <1>7, <1>9, ListFacts
  <2>2. ptr(y) > y + size(y) /\ ptr(y) <= x /\ ptr(y) \in Nat
    BY <1>2, <1>7, <2>1, ListFacts DEF Follows
  <2>3. i + 1 \in k..LIMIT /\ i + 1 \in 1..LIMIT
    BY <1>2, <1>7, <2>1
  <2>4. walk[i + 1] = ptr(y)
    BY <1>6, <1>7, <2>3, WalkFacts
  <2>5. PICK z \in Nat : z = ptr(y)
    BY <2>2, Zenon
  <2>6. At(i + 1, x - z) /\ x - z \in Nat /\ x - z < n
    BY <1>2, <1>7, <2>1, <2>2, <2>4, <2>5
  <2>7. x - z \in S
    BY <2>3, <2>6, Zenon
  <2> QED
    BY <1>4, <1>7, <2>2, <2>5, <2>6, <2>7, <1>2
<1> QED
  BY <1>8, <1>9, Zenon

\* The last block of the list, which ends below LIMIT.
LEMMA LastBlock ==
  ASSUME IInv, freep # NULL
  PROVE  \E m \in FreeSet : /\ \A y \in FreeSet : y <= m
                            /\ m < LIMIT /\ ptr(m) = base
<1>1. \A y \in FreeSet : y \in Nat /\ y < LIMIT
  <2>1. ASSUME NEW y \in FreeSet PROVE y \in Nat /\ y < LIMIT
    <3>1. CASE y = base
      BY <3>1, UmallocAssumption DEF base
    <3>2. CASE y # base
      <4>1. /\ y \in Nat /\ size(y) \in Nat /\ size(y) > 0
            /\ y + size(y) <= brk /\ brk <= LIMIT /\ brk \in Nat
        BY <3>2, ListFacts, UmallocAssumption DEF IInv, TypeOK
      <4> QED
        BY <4>1, UmallocAssumption
    <3> QED
      BY <3>1, <3>2, Zenon
  <2> QED
    BY <2>1, Zenon
<1> DEFINE S == {LIMIT - y : y \in FreeSet}
<1>2. PICK n \in S : \A y \in S : n <= y
  <2>1. S \in SUBSET Nat /\ S # {}
    BY <1>1, ListFacts, UmallocAssumption
  <2> HIDE DEF S
  <2> QED
    BY <2>1, LeastElement, Zenon
<1>3. PICK m \in FreeSet : n = LIMIT - m
  BY <1>2, Zenon
<1>4. ASSUME NEW y \in FreeSet PROVE y <= m
  <2>1. LIMIT - m <= LIMIT - y
    BY <1>2, <1>3, Zenon
  <2>2. y \in Nat /\ m \in Nat /\ LIMIT \in Nat
    BY <1>1, UmallocAssumption, Zenon
  <2> QED
    BY <2>1, <2>2
<1>5. Follows(FreeSet, m, ptr(m)) /\ size(m) \in Nat /\ ptr(m) \in Nat
  BY ListFacts, Zenon DEF Follows
<1>6. ptr(m) = base
  BY <1>1, <1>4, <1>5 DEF Follows
<1> QED
  BY <1>1, <1>4, <1>6, Zenon

\* The walk from freep comes by every free block: the list is FreeSet.
LEMMA ListIsFreeSet ==
  ASSUME IInv
  PROVE  FreeList = FreeSet
<1>1. CASE freep = NULL
  BY <1>1, Zenon DEF FreeList, IInv, ListStarted, FreeSet
<1>2. CASE freep # NULL
  <2>1. FreeList = {walk[i] : i \in 0..LIMIT}
    BY <1>2, Zenon DEF FreeList
  <2>2. FreeList \subseteq FreeSet
    BY <1>2, <2>1, WalkStays, Zenon
  <2>3. PICK m \in FreeSet : /\ \A y \in FreeSet : y <= m
                             /\ m < LIMIT /\ ptr(m) = base
    BY <1>2, LastBlock, Zenon
  <2>4. PICK f \in FreeSet : f = freep
    BY <1>2, ListFacts, Zenon
  <2>5. walk[0] = f /\ f \in Nat /\ m \in Nat /\ LIMIT \in Nat /\ f <= m
    BY <1>2, <2>3, <2>4, WalkFacts, ListFacts, UmallocAssumption, Zenon
  <2>6. ASSUME NEW x \in FreeSet, f <= x
        PROVE  \E i \in 0..x - f : walk[i] = x
    <3>0. x \in Nat /\ x <= m /\ m < LIMIT /\ walk[0] = f /\ f <= x
          /\ f \in Nat /\ m \in Nat /\ LIMIT \in Nat
      BY <1>2, <2>3, <2>5, <2>6, ListFacts, Zenon
    <3>1. /\ 0 \in 0..LIMIT /\ x \in Nat /\ walk[0] <= x
          /\ 0 + (x - walk[0]) <= LIMIT
      BY <3>0
    <3>2. \E i \in 0..0 + (x - walk[0]) : walk[i] = x
      BY <1>2, <3>1, WalkUp, Zenon
    <3> QED
      BY <2>5, <3>1, <3>2
  <2>7. PICK k \in 0..m - f : walk[k] = m
    BY <2>5, <2>6, Zenon
  <2>8. k + 1 \in 1..LIMIT /\ k + 1 \in 0..LIMIT /\ k \in Nat /\ k <= m - f
    BY <2>3, <2>5, <2>7
  <2>9. walk[k + 1] = base
    BY <2>3, <2>7, <2>8, WalkFacts
  <2>10. ASSUME NEW x \in FreeSet PROVE x \in FreeList
    <3>1. x \in Nat
      BY <1>2, ListFacts, Zenon
    <3>2. CASE f <= x
      <4>1. PICK i \in 0..x - f : walk[i] = x
        BY <2>6, <3>2, Zenon
      <4>2. i \in 0..LIMIT
        BY <2>3, <2>5, <3>1, <4>1
      <4> QED
        BY <2>1, <4>1, <4>2, Zenon
    <3>3. CASE x < f
      <4>1. walk[k + 1] <= x /\ (k + 1) + (x - walk[k + 1]) <= LIMIT
        BY <2>3, <2>5, <2>8, <2>9, <3>1, <3>3 DEF base
      <4>2. PICK i \in (k + 1)..(k + 1) + (x - walk[k + 1]) : walk[i] = x
        BY <1>2, <2>8, <4>1, WalkUp, Zenon
      <4>3. i \in 0..LIMIT
        BY <2>5, <2>8, <2>9, <3>1, <4>1, <4>2 DEF base
      <4> QED
        BY <2>1, <4>2, <4>3, Zenon
    <3> QED
      BY <2>5, <3>1, <3>2, <3>3
  <2> QED
    BY <2>2, <2>10, Zenon
<1> QED
  BY <1>1, <1>2, Zenon

-----------------------------------------------------------------------------
\* malloc() and free() never lose a unit of the heap, never give one out
\* twice and never lead the free list through a block of the program.
THEOREM HeapIsAccounted == Spec => []HeapAccounted
<1>1. ASSUME IInv PROVE HeapAccounted
  <2> SUFFICES ASSUME pc = "program" PROVE HeapAccounted
    BY Zenon DEF HeapAccounted
  <2> DEFINE blocks == (FreeList \ {base}) \cup used
  <2>1. FreeList = DOMAIN hdr \ used
    BY <1>1, ListIsFreeSet, FreeSetIs, Zenon
  <2>2. blocks = Blocks
    BY <1>1, <2>1, Zenon DEF Blocks, IInv, BlocksApart
  <2>3. UNION {Units(a) : a \in Blocks} = core
    BY <1>1, Zenon DEF IInv, BlocksApart
  <2>4. ASSUME NEW a \in Blocks, NEW b \in Blocks, a # b
        PROVE  Units(a) \cap Units(b) = {}
    <3>1. a \in Nat /\ b \in Nat /\ size(a) \in Nat /\ size(b) \in Nat
      BY <1>1, HdrFacts, Zenon DEF Blocks, IInv
    <3>2. a + size(a) <= b \/ b + size(b) <= a
      BY <1>1, <2>4, <3>1 DEF IInv, BlocksApart
    <3> QED
      BY <3>1, <3>2 DEF Units
  <2>5. used \cap FreeList = {}
    BY <2>1, Zenon
  <2> HIDE DEF blocks
  <2>6. /\ UNION {Units(a) : a \in blocks} = core
        /\ \A a, b \in blocks : a # b => Units(a) \cap Units(b) = {}
    BY <2>2, <2>3, <2>4, Zenon
  <2> USE DEF blocks
  <2> QED
    BY <2>5, <2>6, Zenon DEF HeapAccounted
<1> QED
  BY <1>1, Invariance, PTL

\* free() keeps the free list one cycle in the order of the addresses, in
\* which no two blocks touch.
THEOREM ListIsJoined == Spec => []ListJoined
<1>1. ASSUME IInv PROVE ListJoined
  <2> SUFFICES ASSUME NEW a \in FreeList
               PROVE  /\ ptr(a) = base \/ ptr(a) > a + size(a)
                      /\ \A b \in FreeList :
                           b > a => ptr(a) # base /\ b >= ptr(a)
    BY Zenon DEF ListJoined
  <2>1. FreeList = FreeSet
    BY <1>1, ListIsFreeSet, Zenon
  <2>2. Follows(FreeSet, a, ptr(a)) /\ FreeSet \subseteq Nat
    BY <1>1, <2>1, Zenon DEF IInv, ListOrdered, FreeSet, TypeOK
  <2>3. size(a) \in Nat /\ a \in Nat /\ ptr(a) \in Nat
    BY <1>1, <2>1, <2>2, HdrFacts, Zenon DEF FreeSet, IInv, Follows
  <2>4. CASE ptr(a) = base /\ \A b \in FreeSet : b <= a
    BY <2>1, <2>2, <2>3, <2>4
  <2>5. CASE ptr(a) > a + size(a) /\ \A b \in FreeSet : b <= a \/ ptr(a) <= b
    BY <2>1, <2>2, <2>3, <2>5 DEF base
  <2> QED
    BY <2>2, <2>4, <2>5, Zenon DEF Follows
<1> QED
  BY <1>1, Invariance, PTL

\* malloc() calls morecore only when every free block is too small.
THEOREM GrowsOnlyWhenNeeded == Spec => []GrowsWhenNeeded
<1>1. ASSUME IInv PROVE GrowsWhenNeeded
  BY <1>1, ListIsFreeSet, Zenon DEF GrowsWhenNeeded, IInv, CallInv
<1> QED
  BY <1>1, Invariance, PTL
=============

------------------------------ MODULE Umalloc -------------------------------
(***************************************************************************)
(* The allocator of user programs, umalloc.c: malloc, free and morecore on  *)
(* a circular list of free blocks, one step per turn of their loops.        *)
(*                                                                          *)
(* Addresses are in units of sizeof(Header).  base, in the data segment, is *)
(* at address 0; the heap is above it and ends at brk, which sbrk moves.    *)
(* Memory is a function on the addresses that hold a header in use; what is *)
(* elsewhere belongs to the program or is left over, and is not represented.*)
(***************************************************************************)
EXTENDS Integers

CONSTANTS
  HEAP,       \* where the heap begins
  LIMIT,      \* the highest address the heap can grow to
  HSIZE,      \* sizeof(Header)
  MINCORE,    \* 4096: the fewest units morecore asks for
  Requests    \* the arguments of malloc

ASSUME UmallocAssumption ==
  /\ HEAP \in Nat /\ LIMIT \in Nat /\ 1 < HEAP /\ HEAP <= LIMIT
  /\ HSIZE \in Nat \ {0} /\ MINCORE \in Nat \ {0}
  /\ Requests \subseteq Nat

NULL == -1
base == 0

VARIABLES
  hdr,                    \* the headers of free blocks and of blocks in use
  freep, brk,
  pc,
  p, prevp, nunits, bp,   \* locals of malloc and free
  caller,                 \* who called free: the program or morecore
  used,                   \* the blocks that the program has
  core                    \* the units that sbrk has given to morecore

locals == <<p, prevp, nunits, bp, caller>>
vars == <<hdr, freep, brk, pc, locals, used, core>>

ptr(a) == hdr[a].ptr
size(a) == hdr[a].size
Put(h, a, x) == [b \in DOMAIN h \cup {a} |-> IF b = a THEN x ELSE h[b]]
Drop(h, a) == [b \in DOMAIN h \ {a} |-> h[b]]

\* The locals when no call is in progress.
NoCall ==
  /\ p' = NULL /\ prevp' = NULL /\ nunits' = 0 /\ bp' = NULL
  /\ caller' = "program"
  /\ pc' = "program"

Init ==
  /\ hdr = <<>>
  /\ freep = NULL /\ brk = HEAP
  /\ pc = "program"
  /\ p = NULL /\ prevp = NULL /\ nunits = 0 /\ bp = NULL
  /\ caller = "program"
  /\ used = {} /\ core = {}

-----------------------------------------------------------------------------
\* malloc(): the size in units, header included; the first call makes a list
\* of base alone; the search begins behind freep.
Malloc(nbytes) ==
  /\ pc = "program"
  /\ nunits' = (nbytes + HSIZE - 1) \div HSIZE + 1
  /\ IF freep = NULL
     THEN /\ hdr' = Put(hdr, base, [ptr |-> base, size |-> 0])
          /\ freep' = base
     ELSE UNCHANGED <<hdr, freep>>
  /\ prevp' = freep' /\ p' = hdr'[freep'].ptr
  /\ pc' = "search"
  /\ UNCHANGED <<brk, bp, caller, used, core>>

\* Variant of MallocTake that leaves the size of a block it takes the tail of.
MallocTakeKeepsSize ==
  /\ pc = "search" /\ size(p) >= nunits
  /\ LET rest == size(p) - nunits
         left == IF rest = 0 THEN [hdr EXCEPT ![prevp].ptr = ptr(p)] ELSE hdr
     IN /\ hdr' = Put(left, p + rest, [ptr |-> NULL, size |-> nunits])
        /\ used' = used \cup {p + rest}
  /\ freep' = prevp
  /\ NoCall
  /\ UNCHANGED <<brk, core>>

\* malloc(): the block at p is large enough; all of it, or its tail, is taken.
\* The ptr of a block in use is not looked at.
MallocTake ==
  /\ pc = "search" /\ size(p) >= nunits
  /\ LET rest == size(p) - nunits
         left == IF rest = 0 THEN [hdr EXCEPT ![prevp].ptr = ptr(p)]
                 ELSE [hdr EXCEPT ![p].size = rest]
     IN /\ hdr' = Put(left, p + rest, [ptr |-> NULL, size |-> nunits])
        /\ used' = used \cup {p + rest}
  /\ freep' = prevp
  /\ NoCall
  /\ UNCHANGED <<brk, core>>

\* Variant of MallocNext that gives up one block early.
MallocNextEarly ==
  /\ pc = "search" /\ size(p) < nunits
  /\ IF ptr(p) = freep \/ p = freep
     THEN pc' = "morecore" /\ UNCHANGED <<p, prevp>>
     ELSE pc' = pc /\ prevp' = p /\ p' = ptr(p)
  /\ UNCHANGED <<hdr, freep, brk, nunits, bp, caller, used, core>>

\* Variant of MallocNext that looks for base, which freep need not be at.
MallocNextPastEnd ==
  /\ pc = "search" /\ size(p) < nunits
  /\ IF p = freep /\ freep = base
     THEN pc' = "morecore" /\ UNCHANGED <<p, prevp>>
     ELSE pc' = pc /\ prevp' = p /\ p' = ptr(p)
  /\ UNCHANGED <<hdr, freep, brk, nunits, bp, caller, used, core>>

\* malloc(): on to the next block, or to morecore after a whole turn.
MallocNext ==
  /\ pc = "search" /\ size(p) < nunits
  /\ IF p = freep
     THEN pc' = "morecore" /\ UNCHANGED <<p, prevp>>
     ELSE pc' = pc /\ prevp' = p /\ p' = ptr(p)
  /\ UNCHANGED <<hdr, freep, brk, nunits, bp, caller, used, core>>

\* morecore(): sbrk fails, and so does malloc.
CoreFail ==
  /\ pc = "morecore"
  /\ NoCall
  /\ UNCHANGED <<hdr, freep, brk, used, core>>

\* morecore(): sbrk gives new memory, which is freed.
CoreGrow ==
  /\ pc = "morecore"
  /\ LET nu == IF nunits < MINCORE THEN MINCORE ELSE nunits
     IN /\ brk + nu <= LIMIT
        /\ brk' = brk + nu
        /\ hdr' = Put(hdr, brk, [ptr |-> NULL, size |-> nu])
        /\ core' = core \cup brk..brk + nu - 1
  /\ bp' = brk /\ p' = freep
  /\ caller' = "morecore"
  /\ pc' = "place"
  /\ UNCHANGED <<freep, prevp, nunits, used>>

\* The program calls sbrk itself.
ProgramGrow ==
  /\ pc = "program" /\ brk < LIMIT
  /\ brk' = brk + 1
  /\ UNCHANGED <<hdr, freep, pc, locals, used, core>>

-----------------------------------------------------------------------------
\* free(): the program gives a block back.
Free(a) ==
  /\ pc = "program" /\ a \in used
  /\ used' = used \ {a}
  /\ bp' = a /\ p' = freep
  /\ caller' = "program"
  /\ pc' = "place"
  /\ UNCHANGED <<hdr, freep, brk, prevp, nunits, core>>

\* The place of bp in the list: between p and the next block, or at the end
\* of the list, where the next block is the lowest one.
Placed ==
  \/ bp > p /\ bp < ptr(p)
  \/ p >= ptr(p) /\ (bp > p \/ bp < ptr(p))

FreeNext ==
  /\ pc = "place" /\ ~Placed
  /\ p' = ptr(p)
  /\ UNCHANGED <<hdr, freep, brk, pc, prevp, nunits, bp, caller, used, core>>

\* Variant of Joined that does not join bp to the block before it.
JoinedAfterOnly ==
  LET nxt == ptr(p)
      up == IF bp + size(bp) = nxt
            THEN Drop([hdr EXCEPT ![bp] = [ptr |-> ptr(nxt),
                                           size |-> size(bp) + size(nxt)]], nxt)
            ELSE [hdr EXCEPT ![bp].ptr = nxt]
  IN [up EXCEPT ![p].ptr = bp]

\* The headers once bp is in its place, joined to the block behind it, the
\* block before it, or both.
Joined ==
  LET nxt == ptr(p)
      up == IF bp + size(bp) = nxt
            THEN Drop([hdr EXCEPT ![bp] = [ptr |-> ptr(nxt),
                                           size |-> size(bp) + size(nxt)]], nxt)
            ELSE [hdr EXCEPT ![bp].ptr = nxt]
  IN IF p + size(p) = bp
     THEN Drop([up EXCEPT ![p] = [ptr |-> up[bp].ptr,
                                  size |-> size(p) + up[bp].size]], bp)
     ELSE [up EXCEPT ![p].ptr = bp]

\* The end of free(); malloc goes on at freep, and first with the block after.
FreeJoin ==
  /\ pc = "place" /\ Placed
  /\ hdr' = Joined
  /\ freep' = p
  /\ IF caller = "morecore"
     THEN /\ pc' = "search" /\ prevp' = p /\ p' = hdr'[p].ptr
          /\ UNCHANGED <<nunits, bp, caller>>
     ELSE NoCall
  /\ UNCHANGED <<brk, used, core>>

-----------------------------------------------------------------------------
\* The steps of a call in progress.
Step ==
  \/ MallocTake \/ MallocNext \/ CoreFail \/ CoreGrow \/ FreeNext \/ FreeJoin

Next ==
  \/ Step \/ ProgramGrow
  \/ \E nbytes \in Requests : Malloc(nbytes)
  \/ \E a \in used : Free(a)

\* The process keeps running.
Spec == Init /\ [][Next]_vars /\ WF_vars(Step)

-----------------------------------------------------------------------------
\* The i-th block of the free list behind freep.
walk[i \in 0..LIMIT] == IF i = 0 THEN freep ELSE ptr(walk[i - 1])
FreeList == IF freep = NULL THEN {} ELSE {walk[i] : i \in 0..LIMIT}
Units(a) == a..a + size(a) - 1

\* Between calls every unit that sbrk gave belongs to exactly one block, on
\* the free list or in the program's hands: nothing is lost, nothing is given
\* out twice, and the list never runs into the program's data.
HeapAccounted ==
  pc = "program" =>
    LET blocks == (FreeList \ {base}) \cup used
    IN /\ UNION {Units(a) : a \in blocks} = core
       /\ used \cap FreeList = {}
       /\ \A a, b \in blocks : a # b => Units(a) \cap Units(b) = {}

\* Between calls the free list is one cycle through base in the order of the
\* addresses, and no two free blocks touch: free() has joined them.
ListJoined ==
  pc = "program" =>
    \A a \in FreeList :
      /\ ptr(a) = base \/ ptr(a) > a + size(a)
      /\ \A b \in FreeList : b > a => ptr(a) # base /\ b >= ptr(a)

\* malloc() asks for more memory only when no free block is large enough,
\* wherever its search began.
GrowsWhenNeeded ==
  pc = "morecore" => \A a \in FreeList : size(a) < nunits

\* Every call of malloc() and free() returns: the search comes round.
CallsReturn == pc # "program" ~> pc = "program"
=============================================================================

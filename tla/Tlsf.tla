-------------------------------- MODULE Tlsf --------------------------------
(***************************************************************************)
(* The loader's heap: TLSF 2.4.6 (tlsf.c) behind malloc, free and realloc  *)
(* (malloc.c), with one pool, no locks and no way to grow.                 *)
(*                                                                         *)
(* The pool is tiled by blocks.  A block has a header of two words, which  *)
(* holds its size, the two state bits and the address of the block before  *)
(* it, and a payload; the first two words of a free block's payload link   *)
(* it into the list of its size class.  A two-level bitmap says which      *)
(* lists are not empty.  Each operation edits all three structures, and    *)
(* the next one trusts what it finds in them.                              *)
(*                                                                         *)
(* Sizes and addresses are in words of four bytes.                         *)
(***************************************************************************)
EXTENDS Integers, Sequences

CONSTANTS
    Buffers,    \* the buffers the client may have at a time
    Requests,   \* the sizes it asks for
    Log2Sli,    \* MAX_LOG2_SLI; SMALL_BLOCK is MAX_SLI words
    Levels,     \* REAL_FLI
    AreaSize    \* words of the pool behind tlsf_t

NULL      == 0
Align     == 2   \* BLOCK_ALIGN
Overhead  == 2   \* BHDR_OVERHEAD
MinBlock  == 2   \* MIN_BLOCK_SIZE
Header    == 4   \* sizeof(bhdr_t)
AreaInfo  == 2   \* sizeof(area_info_t)

\* Powers of two, as far as the number of words in memory.
Pow2[k \in 0 .. 30] == IF k = 0 THEN 1 ELSE 2 * Pow2[k - 1]

MaxSli == Pow2[Log2Sli]

\* The area begins behind tlsf_t: a used block with the area_info_t, then
\* the first free block, and the sentinel.
Area      == 2
First     == Area + Overhead + AreaInfo
FirstSize == ((AreaSize - 3 * Overhead - AreaInfo) \div Align) * Align
Last      == First + Overhead + FirstSize

\* The pool has room for a block, and the matrix a list for every size that
\* a block of the pool can have.  No request comes near half of memory.
ASSUME TlsfAssumption ==
    /\ Log2Sli \in Nat \ {0} /\ Levels \in Nat \ {0} /\ AreaSize \in Nat
    /\ Levels - 1 + Log2Sli <= 29
    /\ MinBlock <= FirstSize /\ FirstSize < Pow2[Levels - 1 + Log2Sli]
    /\ Requests \subseteq 0 .. (Pow2[29] - 2)

Spots   == Area .. Last
Cells   == (First + Overhead) .. (Last - 1)
Pointer == Spots \cup {NULL}
Class   == (0 .. (Levels - 1)) \X (0 .. (MaxSli - 1))

\* bhdr_t.
Block == [size : Nat, free : BOOLEAN, prevFree : BOOLEAN, prev_hdr : Pointer,
          prev : Pointer, next : Pointer]

\* No header is at this address: the cells belong to some block's payload.
Dead == [size |-> 0, free |-> FALSE, prevFree |-> FALSE, prev_hdr |-> NULL,
         prev |-> NULL, next |-> NULL]

VARIABLES
    tlsf,     \* tlsf_t and the headers
    ptr,      \* the client's pointers
    asked,    \* the size it asked for last
    word      \* who wrote each cell, as far as a client cares

vars == <<tlsf, ptr, asked, word>>

-----------------------------------------------------------------------------
(* The size classes.                                                       *)

\* ms_bit.
MsBit(r) == CHOOSE k \in 0 .. 29 : Pow2[k] <= r /\ r < Pow2[k + 1]

RoundUp(r) == ((r + Align - 1) \div Align) * Align

\* The size of a block that serves a request of n words.
Rounded(n) == IF n < MinBlock THEN MinBlock ELSE RoundUp(n)

\* MAPPING_INSERT: the class that blocks of size r are listed in.
MappingInsert(r) ==
    IF r < MaxSli THEN <<0, r>>
    ELSE LET k == MsBit(r)
         IN  <<k - Log2Sli + 1, (r \div Pow2[k - Log2Sli]) - MaxSli>>

\* Mutant: r is not raised to the next class.
MappingSearchDown(r) == [size |-> r, class |-> MappingInsert(r)]

\* MAPPING_SEARCH: the first class whose blocks all serve a request for r,
\* and the request raised to the least size in that class.
MappingSearch(r) ==
    IF r < MaxSli THEN [size |-> r, class |-> <<0, r>>]
    ELSE LET step == Pow2[MsBit(r) - Log2Sli]
         IN  [size  |-> ((r + step - 1) \div step) * step,
              class |-> MappingInsert(r + step - 1)]

-----------------------------------------------------------------------------
(* The lists and the bitmaps.  tlsf is a record: hdr, the headers by        *)
(* address; matrix, the heads; sl, the classes whose bit is set; fl, the    *)
(* levels whose bit is set.                                                *)

NextBlock(t, b) == b + Overhead + t.hdr[b].size

\* FIND_SUITABLE_BLOCK: a set of at most one class, the first one at or
\* above the class searched for whose bit is set.
Suitable(t, class) ==
    LET here  == {c \in t.sl : c[1] = class[1] /\ c[2] >= class[2]}
        above == {f \in t.fl : f > class[1]}
        level == {c \in t.sl : c[1] \in above /\ \A f \in above : c[1] <= f}
        rows  == IF here # {} THEN here ELSE level
    IN  {c \in rows : \A d \in rows : c[2] <= d[2]}

\* Mutant: the level's bit stays.
ClearBitsLow(t, c) == [t EXCEPT !.sl = @ \ {c}]

\* The bit of list c is cleared, and that of its level with the last one.
ClearBits(t, c) ==
    LET left == t.sl \ {c}
    IN  [t EXCEPT !.sl = left,
                  !.fl = IF \E d \in left : d[1] = c[1] THEN @ ELSE @ \ {c[1]}]

\* EXTRACT_BLOCK_HDR: the head of list c leaves it.
ExtractHead(t, c) ==
    LET b == t.matrix[c]
        n == t.hdr[b].next
        u == [t EXCEPT !.matrix[c] = n,
                       !.hdr = [x \in Spots |->
                           IF x = b THEN [t.hdr[x] EXCEPT !.prev = NULL,
                                                          !.next = NULL]
                           ELSE IF x = n THEN [t.hdr[x] EXCEPT !.prev = NULL]
                           ELSE t.hdr[x]]]
    IN  IF n = NULL THEN ClearBits(u, c) ELSE u

\* EXTRACT_BLOCK: b leaves the list of its class, wherever it is in it.
Extract(t, b) ==
    LET h == t.hdr[b]
        c == MappingInsert(h.size)
        head == t.matrix[c] = b
        u == [t EXCEPT !.matrix[c] = IF head THEN h.next ELSE @,
                       !.hdr = [x \in Spots |->
                           IF x = b THEN [h EXCEPT !.prev = NULL,
                                                   !.next = NULL]
                           ELSE IF x = h.next
                                THEN [t.hdr[x] EXCEPT !.prev = h.prev]
                           ELSE IF x = h.prev
                                THEN [t.hdr[x] EXCEPT !.next = h.next]
                           ELSE t.hdr[x]]]
    IN  IF head /\ h.next = NULL THEN ClearBits(u, c) ELSE u

\* Mutant: the level's bit is that of the next level.
InsertNextLevel(t, b) ==
    LET c == MappingInsert(t.hdr[b].size)
        n == t.matrix[c]
    IN  [hdr    |-> [x \in Spots |->
                        IF x = b THEN [t.hdr[x] EXCEPT !.prev = NULL, !.next = n]
                        ELSE IF x = n THEN [t.hdr[x] EXCEPT !.prev = b]
                        ELSE t.hdr[x]],
         matrix |-> [t.matrix EXCEPT ![c] = b],
         sl     |-> t.sl \cup {c},
         fl     |-> t.fl \cup {c[1] + 1}]

\* INSERT_BLOCK: b becomes the head of the list of its class.
Insert(t, b) ==
    LET c == MappingInsert(t.hdr[b].size)
        n == t.matrix[c]
    IN  [hdr    |-> [x \in Spots |->
                        IF x = b THEN [t.hdr[x] EXCEPT !.prev = NULL, !.next = n]
                        ELSE IF x = n THEN [t.hdr[x] EXCEPT !.prev = b]
                        ELSE t.hdr[x]],
         matrix |-> [t.matrix EXCEPT ![c] = b],
         sl     |-> t.sl \cup {c},
         fl     |-> t.fl \cup {c[1]}]

-----------------------------------------------------------------------------
(* The boundary tags.                                                      *)

\* Mutant: the header that is no longer needed is lost.
AbsorbNoHeader(t, b, n) ==
    [t EXCEPT !.hdr[b].size = @ + t.hdr[n].size, !.hdr[n] = Dead]

\* Block n, which follows b and is in no list, becomes part of b.
Absorb(t, b, n) ==
    [t EXCEPT !.hdr[b].size = @ + t.hdr[n].size + Overhead, !.hdr[n] = Dead]

\* Mutant: the new block's size counts its own header.
CutNoHeader(t, b, size, rest, next) ==
    LET c == b + Overhead + size
    IN  Insert([t EXCEPT !.hdr[b].size = size, !.hdr[b].free = FALSE,
                         !.hdr[c] = [Dead EXCEPT !.size = rest, !.free = TRUE],
                         !.hdr[next].prev_hdr = c], c)

\* b keeps size words and is used; the rest words behind them, which reach
\* up to the block next, become a free block.
Cut(t, b, size, rest, next) ==
    LET c == b + Overhead + size
    IN  Insert([t EXCEPT !.hdr[b].size = size, !.hdr[b].free = FALSE,
                         !.hdr[c] = [Dead EXCEPT !.size = rest - Overhead,
                                                 !.free = TRUE],
                         !.hdr[next].prev_hdr = c], c)

\* malloc_ex.
MallocEx(t, n) ==
    LET s == MappingSearch(Rounded(n))
        found == Suitable(t, s.class)
    IN  IF found = {} THEN [tlsf |-> t, ptr |-> NULL]
        ELSE LET c == CHOOSE d \in found : TRUE
                 b == t.matrix[c]
                 next == NextBlock(t, b)
                 rest == t.hdr[b].size - s.size
                 u == ExtractHead(t, c)
             IN  [tlsf |-> IF rest >= Header THEN Cut(u, b, s.size, rest, next)
                           ELSE [u EXCEPT !.hdr[next].prevFree = FALSE,
                                          !.hdr[b].free = FALSE],
                  ptr  |-> b + Overhead]

\* Mutant: the block behind is not told where the free block begins.
TellNextBitOnly(t, b) == [t EXCEPT !.hdr[NextBlock(t, b)].prevFree = TRUE]

\* The end of free_ex: the block behind b learns that b is free.
TellNext(t, b) ==
    [t EXCEPT !.hdr[NextBlock(t, b)].prevFree = TRUE,
              !.hdr[NextBlock(t, b)].prev_hdr = b]

\* free_ex on a pointer that is not null.
FreeEx(t, p) ==
    LET b  == p - Overhead
        t1 == [t EXCEPT !.hdr[b].free = TRUE,
                        !.hdr[b].prev = NULL, !.hdr[b].next = NULL]
        n  == NextBlock(t1, b)
        t2 == IF t1.hdr[n].free THEN Absorb(Extract(t1, n), b, n) ELSE t1
        m  == IF t2.hdr[b].prevFree THEN t2.hdr[b].prev_hdr ELSE b
        t3 == IF m = b THEN t2 ELSE Absorb(Extract(t2, m), m, b)
    IN  TellNext(Insert(t3, m), m)

\* realloc_ex when the block is already large enough: what is left behind n
\* words, with the next block if that is free, is cut off.  (The code
\* relies on the remainder being large enough when it took the next block.)
Shrink(t, b, n) ==
    LET after == NextBlock(t, b)
        joined == t.hdr[after].free
        u == IF joined THEN [Extract(t, after) EXCEPT !.hdr[after] = Dead]
             ELSE t
        total == t.hdr[b].size + IF joined THEN t.hdr[after].size + Overhead
                                           ELSE 0
        next == b + Overhead + total
    IN  IF total - n >= Header
        THEN [Cut(u, b, n, total - n, next) EXCEPT !.hdr[next].prevFree = TRUE]
        ELSE u

\* realloc_ex when the free block behind makes up for what is missing.
Grow(t, b, n) ==
    LET after == NextBlock(t, b)
        u == Absorb(Extract(t, after), b, after)
        next == NextBlock(u, b)
        rest == u.hdr[b].size - n
        v == [u EXCEPT !.hdr[next].prev_hdr = b, !.hdr[next].prevFree = FALSE]
    IN  IF rest >= Header
        THEN [Cut(v, b, n, rest, next) EXCEPT !.hdr[next].prevFree = TRUE]
        ELSE v

\* Mutant: a whole free header more than there is.
CanGrowWide(t, b, n) ==
    /\ t.hdr[NextBlock(t, b)].free
    /\ n <= t.hdr[b].size + t.hdr[NextBlock(t, b)].size + Header

\* The two blocks' payloads have n words; the header between them would add
\* two more, which the code does not count.
CanGrow(t, b, n) ==
    /\ t.hdr[NextBlock(t, b)].free
    /\ n <= t.hdr[b].size + t.hdr[NextBlock(t, b)].size

-----------------------------------------------------------------------------
(* The cells.  A client fills the cells it asked for with its name.  What  *)
(* the allocator writes, a header or a pair of links, belongs to nobody.   *)

Nobody == "nobody"

\* The cells whose contents differ between two states of the allocator.
Written(t, u) ==
    LET headers == {y \in Spots : [t.hdr[y] EXCEPT !.prev = NULL, !.next = NULL]
                                    # [u.hdr[y] EXCEPT !.prev = NULL, !.next = NULL]}
        links   == {y \in Spots : <<t.hdr[y].prev, t.hdr[y].next>>
                                    # <<u.hdr[y].prev, u.hdr[y].next>>}
    IN  (UNION {{y, y + 1} : y \in headers}) \cup (UNION {{y + 2, y + 3} : y \in links})

Scratch(w, t, u) ==
    [x \in Cells |-> IF x \in Written(t, u) THEN Nobody ELSE w[x]]

\* Mutant: one cell too few.
CopyShort(w, from, to, n) ==
    [x \in Cells |-> IF x \in to .. (to + n - 2) THEN w[x - to + from]
                                                 ELSE w[x]]

\* memcpy of n cells.
Copy(w, from, to, n) ==
    [x \in Cells |-> IF x \in to .. (to + n - 1) THEN w[x - to + from]
                                                 ELSE w[x]]

\* The client writes b to the cells from number k on of its buffer.
Fill(w, b, k) ==
    [x \in Cells |-> IF x \in (ptr'[b] + k) .. (ptr'[b] + asked'[b] - 1)
                     THEN b ELSE w[x]]

\* Cells that are no part of a buffer any more: nobody cares.
Settled(w) ==
    [x \in Cells |->
        IF \E b \in Buffers : /\ ptr'[b] # NULL
                              /\ x \in ptr'[b] .. (ptr'[b] + asked'[b] - 1)
        THEN w[x] ELSE Nobody]

-----------------------------------------------------------------------------

\* process_area, and the pool before its first block is freed.
EmptyPool ==
    [hdr |-> [x \in Spots |->
                 CASE x = Area  -> [Dead EXCEPT !.size = AreaInfo]
                   [] x = First -> [Dead EXCEPT !.size = FirstSize]
                   [] x = Last  -> [Dead EXCEPT !.prevFree = TRUE,
                                                !.prev_hdr = First]
                   [] OTHER     -> Dead],
     matrix |-> [c \in Class |-> NULL],
     sl |-> {},
     fl |-> {}]

InitialPool == FreeEx(EmptyPool, First + Overhead)

\* init_memory_pool on memory without a signature.
Init ==
    /\ tlsf = InitialPool
    /\ ptr = [b \in Buffers |-> NULL]
    /\ asked = [b \in Buffers |-> 0]
    /\ word = [x \in Cells |-> Nobody]

\* malloc, also by way of realloc with a null pointer.
Malloc(b, n) ==
    LET got == MallocEx(tlsf, n) IN
    /\ ptr[b] = NULL
    /\ tlsf' = got.tlsf
    /\ ptr' = [ptr EXCEPT ![b] = got.ptr]
    /\ asked' = [asked EXCEPT ![b] = IF got.ptr = NULL THEN 0 ELSE n]
    /\ word' = Settled(Fill(Scratch(word, tlsf, tlsf'), b, 0))

\* free, and realloc to no size.  (Releasing a null pointer does nothing.)
Free(b) ==
    /\ ptr[b] # NULL
    /\ tlsf' = FreeEx(tlsf, ptr[b])
    /\ ptr' = [ptr EXCEPT ![b] = NULL]
    /\ asked' = [asked EXCEPT ![b] = 0]
    /\ word' = Settled(Scratch(word, tlsf, tlsf'))

\* realloc within the block and what follows it.
ReallocInPlace(b, n) ==
    LET h == ptr[b] - Overhead
        size == Rounded(n)
    IN  /\ ptr[b] # NULL
        /\ n > 0
        /\ \/ /\ size <= tlsf.hdr[h].size
              /\ tlsf' = Shrink(tlsf, h, size)
           \/ /\ size > tlsf.hdr[h].size
              /\ CanGrow(tlsf, h, size)
              /\ tlsf' = Grow(tlsf, h, size)
        /\ asked' = [asked EXCEPT ![b] = n]
        /\ UNCHANGED ptr
        /\ word' = Settled(Fill(Scratch(word, tlsf, tlsf'), b, asked[b]))

\* realloc to another block; when there is none, the buffer stays.
ReallocMove(b, n) ==
    LET h == ptr[b] - Overhead
        size == Rounded(n)
        got == MallocEx(tlsf, size)
        copied == IF tlsf.hdr[h].size > size THEN size ELSE tlsf.hdr[h].size
    IN  /\ ptr[b] # NULL
        /\ n > 0
        /\ size > tlsf.hdr[h].size
        /\ ~CanGrow(tlsf, h, size)
        /\ IF got.ptr = NULL
           THEN UNCHANGED vars
           ELSE /\ tlsf' = FreeEx(got.tlsf, ptr[b])
                /\ ptr' = [ptr EXCEPT ![b] = got.ptr]
                /\ asked' = [asked EXCEPT ![b] = n]
                /\ LET before == Scratch(word, tlsf, got.tlsf)
                       moved  == Copy(before, ptr[b], got.ptr, copied)
                       after  == Scratch(moved, got.tlsf, tlsf')
                   IN  word' = Settled(Fill(after, b, asked[b]))

Next ==
    \E b \in Buffers :
        \/ Free(b)
        \/ \E n \in Requests :
              Malloc(b, n) \/ ReallocInPlace(b, n) \/ ReallocMove(b, n)

Spec == Init /\ [][Next]_vars
-----------------------------------------------------------------------------
(* Properties.                                                             *)

\* The types of the variables.
TypeOK ==
    /\ tlsf \in [hdr : [Spots -> Block], matrix : [Class -> Pointer],
                 sl : SUBSET Class, fl : SUBSET (0 .. (Levels - 1))]
    /\ ptr \in [Buffers -> Pointer]
    /\ asked \in [Buffers -> Nat]
    /\ word \in [Cells -> Buffers \cup {Nobody}]

Heads == {x \in Spots : tlsf.hdr[x] # Dead}

FreeBlocks == {x \in Spots : tlsf.hdr[x].free}

\* The blocks tile the pool: from the area's first header, each block ends
\* where the next one begins, up to the sentinel.
Tiled ==
    /\ {Area, First, Last} \subseteq Heads
    /\ \A b \in Heads \ {Last} :
          /\ NextBlock(tlsf, b) \in Heads
          /\ \A c \in Heads : c <= b \/ c >= NextBlock(tlsf, b)

\* The state bits and prev_hdr of a block agree with the block before it, on
\* which free relies to find it, and no two free blocks are left adjacent.
BoundaryTags ==
    \A b \in Heads \ {Last} :
        LET n == NextBlock(tlsf, b) IN
        /\ tlsf.hdr[n].prevFree = tlsf.hdr[b].free
        /\ tlsf.hdr[b].free => /\ tlsf.hdr[n].prev_hdr = b
                               /\ ~tlsf.hdr[n].free

\* The blocks met on the way along the list of class c.
Listed(c) ==
    LET at[k \in Nat] == IF k = 0 THEN tlsf.matrix[c]
                         ELSE IF at[k - 1] = NULL THEN NULL
                         ELSE tlsf.hdr[at[k - 1]].next
    IN  {at[k] : k \in 0 .. (Last - Area)} \ {NULL}

\* A free block is in the list of its class and no other block is in any;
\* the lists' links are each other's inverse; and the bits are set of the
\* classes and the levels that have a block.
ListsExact ==
    /\ \A c \in Class :
          Listed(c) = {b \in FreeBlocks : MappingInsert(tlsf.hdr[b].size) = c}
    /\ \A b \in FreeBlocks :
          LET h == tlsf.hdr[b] IN
          /\ h.next # NULL => tlsf.hdr[h.next].prev = b
          /\ h.prev = NULL <=> b \in {tlsf.matrix[c] : c \in Class}
    /\ tlsf.sl = {c \in Class : tlsf.matrix[c] # NULL}
    /\ tlsf.fl = {c[1] : c \in tlsf.sl}

\* A block is in use exactly as long as a client has a pointer to it, and it
\* is as large as the client was told.
Owned ==
    LET held == {b \in Buffers : ptr[b] # NULL} IN
    /\ {b \in Heads \ {Area, Last} : ~tlsf.hdr[b].free}
          = {ptr[b] - Overhead : b \in held}
    /\ \A b \in held : tlsf.hdr[ptr[b] - Overhead].size >= asked[b]

\* When everything has been released, the pool is as it was at first.
NothingLeaks == (\A b \in Buffers : ptr[b] = NULL) => tlsf = InitialPool

\* malloc finds a block exactly when one reaches the request raised to its
\* class, and what it finds is large enough.
GoodFit ==
    \A n \in Requests :
        LET s == MappingSearch(Rounded(n))
            p == MallocEx(tlsf, n).ptr
        IN  /\ p # NULL <=> \E b \in FreeBlocks : tlsf.hdr[b].size >= s.size
            /\ p # NULL => tlsf.hdr[p - Overhead].size >= Rounded(n)

\* The heap keeps the promise of Heap.
H == INSTANCE Heap WITH
        contents <- [b \in Buffers |->
                        [k \in 1 .. asked[b] |-> word[ptr[b] + k - 1]]]

HeapSpec == H!Spec
=============================================================================

----------------------------- MODULE BlockMove -----------------------------
(***************************************************************************)
(* How bcopy (bcopy.S) and bzero (bzero.S) do what Memory says they do.    *)
(* Both pick a path by length, alignment and overlap, and move bytes, half *)
(* words, words or blocks of registers; the low bits of a count, put in    *)
(* the processor's flags, select the pieces of less than a block.          *)
(*                                                                         *)
(* An action is what happens between two branches.  Its loads come before  *)
(* its stores, as in the code.  The MMU is off (start.S), so a word that   *)
(* is not aligned cannot be accessed: each action notes its accesses.      *)
(* r0, r1, r2 are destination, source and what is left of the length; the  *)
(* filling routines keep theirs in r12 and r1, but mean the same.          *)
(***************************************************************************)
EXTENDS Integers, Sequences

CONSTANTS
    MemSize,     \* number of addresses
    Before,      \* the bytes in memory when the routine is called
    Filler,      \* the byte that memset is given; bzero's is 0
    Requests     \* the calls: [fill, src, dst, len]

Addr == 0 .. (MemSize - 1)

\* Both ranges lie in memory, with a word to spare below the destination,
\* which the shifting paths may read.
Request == {q \in [fill : BOOLEAN, src : Addr, dst : Addr, len : 0 .. MemSize] :
               /\ q.dst >= 3
               /\ q.dst + q.len <= MemSize
               /\ q.src + q.len <= MemSize}

ASSUME BlockAssumption ==
    /\ MemSize \in Nat
    /\ Before \in [Addr -> Nat]
    /\ Filler \in Nat
    /\ Requests \subseteq Request

VARIABLES
    pc,          \* the label the processor is at
    call,        \* the request
    mem,
    r0, r1, r2,  \* where to, where from, how much is left
    r4,          \* bytes that were loaded and are still to be stored
    r12,         \* the count in the flags, or the words still to be shifted
    loads,       \* the accesses of the last step: <<address, width>>
    stores

vars == <<pc, call, mem, r0, r1, r2, r4, r12, loads, stores>>

-----------------------------------------------------------------------------
(* Pieces of a range of k bytes: <<offset, width>>.                        *)

Bytes(k) == {<<o, 1>> : o \in 0 .. (k - 1)}
Words(k) == {<<4 * i, 4>> : i \in 0 .. (k \div 4 - 1)}

\* The pieces that the flags V, C, Z, N select for a count k < 16.  Eight
\* bytes are two registers.
Flags(k) == {w \in {1, 2, 4, 8} : (k \div w) % 2 = 1}

\* Smallest first, from the bottom up; the same from the top down; largest
\* first from the bottom up.
Rising(k)  == {<<k % w, w>> : w \in Flags(k)}
FromTop(k) == {<<k - (k % w) - w, w>> : w \in Flags(k)}

\* Mutant: the smallest piece first.
FallingSmallFirst(k) == Rising(k)

Falling(k) == {<<k - (k % (2 * w)), w>> : w \in Flags(k)}

In(x, pieces) == \E p \in pieces : x \in p[1] .. (p[1] + p[2] - 1)

At(base, pieces) == {<<base + p[1], p[2]>> : p \in pieces}

\* The pieces are loaded from r1 on and then stored from r0 on.
Forward(k, pieces) ==
    /\ mem' = [x \in Addr |-> IF In(x - r0, pieces) THEN mem[x - r0 + r1]
                                                    ELSE mem[x]]
    /\ r0' = r0 + k
    /\ r1' = r1 + k
    /\ r2' = r2 - k
    /\ loads' = At(r1, pieces)
    /\ stores' = At(r0, pieces)
    /\ UNCHANGED <<call, r4>>

\* The same with pointers that are decremented first.
Backward(k, pieces) ==
    /\ mem' = [x \in Addr |-> IF In(x - (r0 - k), pieces)
                              THEN mem[x - r0 + r1] ELSE mem[x]]
    /\ r0' = r0 - k
    /\ r1' = r1 - k
    /\ r2' = r2 - k
    /\ loads' = At(r1 - k, pieces)
    /\ stores' = At(r0 - k, pieces)
    /\ UNCHANGED <<call, r4>>

\* The pieces are stored from the register that was filled.
Store(k, pieces) ==
    /\ mem' = [x \in Addr |-> IF In(x - r0, pieces) THEN Filler ELSE mem[x]]
    /\ r0' = r0 + k
    /\ r2' = r2 - k
    /\ loads' = {}
    /\ stores' = At(r0, pieces)
    /\ UNCHANGED <<call, r1, r4, r12>>

Branch(label) ==
    /\ pc' = label
    /\ loads' = {} /\ stores' = {}
    /\ UNCHANGED <<call, mem, r0, r1, r2, r4, r12>>

-----------------------------------------------------------------------------
(* memcpy, memmove, bcopy.                                                 *)

Init ==
    /\ call \in Requests
    /\ pc = IF call.fill THEN "bzero" ELSE "memmove"
    /\ mem = Before
    /\ r0 = call.dst /\ r1 = call.src /\ r2 = call.len
    /\ r4 = <<>> /\ r12 = 0
    /\ loads = {} /\ stores = {}

Distance == IF r0 >= r1 THEN r0 - r1 ELSE r1 - r0

\* Source and destination are aligned to words in the same way.
Similar == r0 % 4 = r1 % 4

\* Mutant: a distance of one is taken for no overlap.
OverlapsWide == Distance + 1 < r2

Overlaps == Distance < r2

\* The path that moves forward: Lnormalforwardcopy.
Normal ==
    IF ~Similar THEN IF r2 < 8 THEN "Lbytewise2" ELSE "Lwordalignloop2"
    ELSE IF r2 < 4 THEN "Lbytewise2"
    ELSE IF r2 < 64 THEN "Lwordalignloop"
    ELSE IF r0 % 16 # 0 THEN "Lsimilarlyunaligned"
    ELSE "Lunaligned_32"

\* Loverlap with the destination below the source.
DestLower ==
    IF Distance >= 64 THEN Normal
    ELSE IF Distance >= 2 THEN "Lbytewise2" ELSE "Lbytewise"

Memmove ==
    /\ pc = "memmove"
    /\ Branch(IF r2 = 0 \/ r0 = r1 THEN "Lexit"
              ELSE IF ~Overlaps THEN Normal
              ELSE IF r0 > r1 THEN "Loverlap_srclower" ELSE DestLower)

\* Up to a destination on 16 bytes, in two moves ...
Similarlyunaligned ==
    /\ pc = "Lsimilarlyunaligned"
    /\ LET k == (16 - (r0 % 16)) % 16 IN
       /\ Forward(k % 8, Rising(k % 8))
       /\ r12' = k - (k % 8)
    /\ pc' = "Lsimilarlyunaligned_8"

Similarlyunaligned_8 ==
    /\ pc = "Lsimilarlyunaligned_8"
    /\ Forward(r12, Rising(r12))
    /\ pc' = IF r2' = 0 THEN "Lexit" ELSE "Lunaligned_32"
    /\ UNCHANGED r12

\* ... then on 32.
Unaligned_32 ==
    /\ pc = "Lunaligned_32"
    /\ Forward(r0 % 32, Words(r0 % 32))
    /\ pc' = IF r2' >= 64 THEN "L64loop" ELSE "Llessthan64_aligned"
    /\ UNCHANGED r12

After64 ==
    IF r2' >= 64 THEN "L64loop"
    ELSE IF r2' = 0 THEN "Lexit" ELSE "Llessthan64_aligned"

\* A turn moves twice 32 bytes.
L64loop ==
    /\ pc \in {"L64loop", "L64loop_second"}
    /\ Forward(32, Words(32))
    /\ pc' = IF pc = "L64loop" THEN "L64loop_second" ELSE After64
    /\ UNCHANGED r12

Lessthan64_aligned ==
    /\ pc = "Llessthan64_aligned"
    /\ IF r2 >= 16
       THEN /\ Forward(16, Words(16))
            /\ pc' = IF r2' = 0 THEN "Lexit" ELSE pc
       ELSE /\ Forward(r2, Falling(r2))
            /\ pc' = "Lexit"
    /\ UNCHANGED r12

Bytewise2 ==
    /\ pc = "Lbytewise2"
    /\ LET k == IF r2 >= 2 THEN 2 ELSE 1 IN Forward(k, Bytes(k))
    /\ pc' = IF r2 > 2 THEN pc ELSE "Lexit"
    /\ UNCHANGED r12

Bytewise ==
    /\ pc = "Lbytewise"
    /\ Forward(1, Bytes(1))
    /\ pc' = IF r2 > 1 THEN pc ELSE "Lexit"
    /\ UNCHANGED r12

\* Bytewise until the source is aligned to a word.
Wordalignloop ==
    /\ pc = "Lwordalignloop"
    /\ IF r1 % 4 = 0 THEN Branch("Llessthan64_aligned")
       ELSE Forward(1, Bytes(1)) /\ UNCHANGED <<pc, r12>>

-----------------------------------------------------------------------------
(* Source and destination in different places of their words: words are    *)
(* loaded, and stored together with what was left of the word before.      *)

\* The shift is 1, 2 or 3 bytes, for which the code has a loop each.  The
\* bytes of the destination's first word that come before it are loaded,
\* a byte, a half word or a word, to be stored again.
Align_forward ==
    /\ pc = "Lwordalignloop2"
    /\ IF r1 % 4 # 0 THEN Forward(1, Bytes(1)) /\ UNCHANGED <<pc, r12>>
       ELSE LET shift == r0 % 4 IN
            /\ r12' = r2 \div 4
            /\ r0' = r0 - shift
            /\ r4' = [i \in 1 .. shift |-> mem[r0 - shift + i - 1]]
            /\ loads' = {<<r0 - shift, IF shift = 3 THEN 4 ELSE shift>>}
            /\ stores' = {}
            /\ pc' = "Lalign_forward_loop"
            /\ UNCHANGED <<call, mem, r1, r2>>

LeftOver(shift) == [i \in 1 .. shift |-> mem[r1 + 4 - shift + i - 1]]

Align_forward_loop ==
    /\ pc = "Lalign_forward_loop"
    /\ LET shift == Len(r4) IN
       /\ mem' = [x \in Addr |->
                    IF x - r0 \in 0 .. (shift - 1) THEN r4[x - r0 + 1]
                    ELSE IF x - r0 \in shift .. 3 THEN mem[r1 + (x - r0 - shift)]
                    ELSE mem[x]]
       /\ r4' = LeftOver(shift)
    /\ r0' = r0 + 4
    /\ r1' = r1 + 4
    /\ r12' = r12 - 1
    /\ loads' = {<<r1, 4>>}
    /\ stores' = {<<r0, 4>>}
    /\ pc' = IF r12' = 0 THEN "Lalign_forward_end" ELSE pc
    /\ UNCHANGED <<call, r2>>

\* What is left over is stored, a half word first if there is one.
Align_forward_end ==
    /\ pc = "Lalign_forward_end"
    /\ LET shift == Len(r4) IN
       /\ mem' = [x \in Addr |-> IF x - r0 \in 0 .. (shift - 1)
                                 THEN r4[x - r0 + 1] ELSE mem[x]]
       /\ r0' = r0 + shift
       /\ stores' = At(r0, Falling(shift))
    /\ r4' = <<>>
    /\ r2' = r2 % 4
    /\ loads' = {}
    /\ pc' = IF r2' = 0 THEN "Lexit" ELSE "Lbytewise2"
    /\ UNCHANGED <<call, r1, r12>>

-----------------------------------------------------------------------------
(* Overlapping ranges with the source below: downwards, from their ends.   *)

Overlap_srclower ==
    /\ pc = "Loverlap_srclower"
    /\ r0' = r0 + r2
    /\ r1' = r1 + r2
    /\ pc' = IF \/ r2 < 64
                \/ r2 > 64 /\ Distance < 64
                \/ ~Similar'
             THEN "Lbytewise_reverse"
             ELSE IF r0' % 16 # 0 THEN "Lunaligned_reverse_similarly"
             ELSE "Lunaligned_32_reverse_similarly"
    /\ loads' = {} /\ stores' = {}
    /\ UNCHANGED <<call, mem, r2, r4, r12>>

Unaligned_reverse ==
    /\ pc = "Lunaligned_reverse_similarly"
    /\ LET k == r0 % 16 IN
       /\ Backward(k % 8, FromTop(k % 8))
       /\ r12' = k - (k % 8)
    /\ pc' = "Lunaligned_reverse_8"

Unaligned_reverse_8 ==
    /\ pc = "Lunaligned_reverse_8"
    /\ Backward(r12, FromTop(r12))
    /\ pc' = IF r2' = 0 THEN "Lexit" ELSE "Lunaligned_32_reverse_similarly"
    /\ UNCHANGED r12

Unaligned_32_reverse ==
    /\ pc = "Lunaligned_32_reverse_similarly"
    /\ Backward(r0 % 32, Words(r0 % 32))
    /\ pc' = IF r2' >= 64 THEN "L64loop_reverse" ELSE "Lbytewise_reverse"
    /\ UNCHANGED r12

L64loop_reverse ==
    /\ pc \in {"L64loop_reverse", "L64loop_reverse_second"}
    /\ Backward(32, Words(32))
    /\ pc' = IF pc = "L64loop_reverse" THEN "L64loop_reverse_second"
             ELSE IF r2' >= 64 THEN "L64loop_reverse"
             ELSE IF r2' = 0 THEN "Lexit" ELSE "Lbytewise_reverse"
    /\ UNCHANGED r12

Bytewise_reverse ==
    /\ pc = "Lbytewise_reverse"
    /\ Backward(1, Bytes(1))
    /\ pc' = IF r2 > 1 THEN pc ELSE "Lexit"
    /\ UNCHANGED r12

-----------------------------------------------------------------------------
(* bzero and memset.                                                       *)

Bzero ==
    /\ pc = "bzero"
    /\ Branch(IF r2 = 0 THEN "Lexit"
              ELSE IF r2 < 32 THEN "L_bytewise"
              ELSE IF r0 % 32 # 0 THEN "L_unaligned"
              ELSE IF r2 >= 64 THEN "L_64loop" ELSE "L_lessthan64aligned")

BzeroUnaligned ==
    /\ pc = "L_unaligned"
    /\ LET k == (16 - (r0 % 16)) % 16 IN Store(k, Rising(k))
    /\ pc' = IF r2' = 0 THEN "Lexit" ELSE "L_unaligned_32"

BzeroUnaligned_32 ==
    /\ pc = "L_unaligned_32"
    /\ Store(r0 % 32, Words(r0 % 32))
    /\ pc' = IF r2' >= 64 THEN "L_64loop" ELSE "L_lessthan64aligned"

Bzero64loop ==
    /\ pc = "L_64loop"
    /\ Store(64, Words(64))
    /\ pc' = IF r2' >= 64 THEN pc
             ELSE IF r2' = 0 THEN "Lexit" ELSE "L_lessthan64aligned"

BzeroLessthan64 ==
    /\ pc = "L_lessthan64aligned"
    /\ IF r2 >= 16
       THEN /\ Store(16, Words(16))
            /\ pc' = IF r2' = 0 THEN "Lexit" ELSE pc
       ELSE /\ Store(r2, Falling(r2))
            /\ pc' = "Lexit"

BzeroBytewise ==
    /\ pc = "L_bytewise"
    /\ LET k == IF r2 >= 2 THEN 2 ELSE 1 IN Store(k, Bytes(k))
    /\ pc' = IF r2 > 2 THEN pc ELSE "Lexit"

-----------------------------------------------------------------------------

Next ==
    \/ Memmove
    \/ Similarlyunaligned \/ Similarlyunaligned_8 \/ Unaligned_32
    \/ L64loop \/ Lessthan64_aligned
    \/ Bytewise2 \/ Bytewise \/ Wordalignloop
    \/ Align_forward \/ Align_forward_loop \/ Align_forward_end
    \/ Overlap_srclower
    \/ Unaligned_reverse \/ Unaligned_reverse_8 \/ Unaligned_32_reverse
    \/ L64loop_reverse \/ Bytewise_reverse
    \/ Bzero \/ BzeroUnaligned \/ BzeroUnaligned_32
    \/ Bzero64loop \/ BzeroLessthan64 \/ BzeroBytewise

Spec == Init /\ [][Next]_vars

-----------------------------------------------------------------------------
(* Properties.                                                             *)

M == INSTANCE Memory WITH Word <- MemSize

\* When the routine returns, memory is what Memory's bcopy and bzero, of
\* which the other modules make use, say: the length asked for has been
\* moved from where it was before, whatever path it took and however source
\* and destination overlap, and nothing else has changed.
Moved ==
    pc = "Lexit" =>
        mem = IF call.fill
              THEN [x \in Addr |-> IF M!Within(x, call.dst, call.len)
                                   THEN Filler ELSE Before[x]]
              ELSE M!Bcopy(Before, call.src, call.dst, call.len)

\* What a range covers, widened to whole words.
Hull(from, k) == (from - (from % 4)) .. (4 * ((from + k + 3) \div 4) - 1)

Cover(a) == a[1] .. (a[1] + a[2] - 1)

\* Every access is aligned to its width, to words for register blocks, and
\* none is made outside the words of the two ranges: the shifting loops do
\* read, and store again, bytes next to the destination.
AccessesSound ==
    /\ \A a \in loads \cup stores :
          a[1] % (IF a[2] = 8 THEN 4 ELSE a[2]) = 0
    /\ \A a \in stores : Cover(a) \subseteq Hull(call.dst, call.len)
    /\ \A a \in loads : Cover(a) \subseteq Hull(call.dst, call.len)
                                       \cup (call.src .. (call.src + call.len - 1))
=============================================================================

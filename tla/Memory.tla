------------------------------- MODULE Memory -------------------------------
(***************************************************************************)
(* The machine's flat memory and the address arithmetic the boot loader    *)
(* does on it.  Addresses and sizes are unsigned machine words: Word is    *)
(* the number of addresses (2^32 on the hardware, a small multiple of      *)
(* every alignment in the model), and all arithmetic wraps.  A cell holds  *)
(* where its contents came from, not a byte: <<"img", 3>> is the fourth    *)
(* cell of the images linked behind the loader.                            *)
(***************************************************************************)
EXTENDS Integers, Sequences

CONSTANT Word

ASSUME WordAssumption == Word \in Nat \ {0}

Addr == 0 .. (Word - 1)

Kinds == {"zero", "ram", "tag", "boot", "img", "pool", "node", "dt", "args"}

Cell == Kinds \X Nat

Zero == <<"zero", 0>>

\* Unsigned addition and subtraction: add_ptr2 and the vtophys macro.
Plus(a, n)  == (a + n) % Word
Minus(a, b) == (a - b) % Word

\* Address x lies among the n cells from a on, which may wrap.
Within(x, a, n) == Minus(x, a) < n

\* align_down and align_up; s is a power of two, so clearing the low bits is
\* rounding down to a multiple, and the addition before it wraps.
AlignDown(p, s) == p - (p % s)

\* Mutant: rounds down.
AlignUpDown(p, s) == AlignDown(p, s)

AlignUp(p, s)   == AlignDown(Plus(p, s - 1), s)

\* Mutants: the start rounded down; the cursor not wrapped, or advanced from
\* where it was before the alignment.
ReserveStartDown(pos, align) == IF align # 0 THEN AlignDown(pos, align) ELSE pos
ReservePosWide(pos, size, align) == pos + size
ReservePosUnaligned(pos, size, align) == Plus(pos, size)

\* memory_region_reserve: where a reservation starts, and the cursor after it.
ReserveStart(pos, align) == IF align # 0 THEN AlignUp(pos, align) ELSE pos
ReservePos(pos, size, align) == Plus(ReserveStart(pos, align), size)

\* The arithmetic of that reservation stays below the top of the word.
ReserveFits(pos, size, align) ==
    /\ pos + align <= Word
    /\ ReserveStart(pos, align) + size < Word

\* bzero, and bcopy, which moves overlapping ranges as if through a buffer.
Bzero(m, a, n) == [x \in Addr |-> IF Within(x, a, n) THEN Zero ELSE m[x]]

\* Mutants: one cell too few, or too many.
BcopyShort(m, src, dst, n) ==
    [x \in Addr |-> IF Within(x, dst, n - 1)
                    THEN m[Plus(src, Minus(x, dst))] ELSE m[x]]
BcopyLong(m, src, dst, n) ==
    [x \in Addr |-> IF Within(x, dst, n + 1)
                    THEN m[Plus(src, Minus(x, dst))] ELSE m[x]]

Bcopy(m, src, dst, n) ==
    [x \in Addr |-> IF Within(x, dst, n) THEN m[Plus(src, Minus(x, dst))]
                                         ELSE m[x]]

\* A structure of n cells of the given kind is written at a.
Write(m, a, n, kind) ==
    [x \in Addr |-> IF Within(x, a, n) THEN <<kind, Minus(x, a)>> ELSE m[x]]

\* The n cells from a on still hold what Write put there.
Holds(m, a, n, kind) == \A i \in 0 .. (n - 1) : m[Plus(a, i)] = <<kind, i>>
=============================================================================

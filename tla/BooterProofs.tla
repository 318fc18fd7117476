---------------------------- MODULE BooterProofs ----------------------------
(***************************************************************************)
(* What holds of the boot sequence for every memory size, every layout and *)
(* every environment.  First types and reservations; then what the kernel  *)
(* is told; then, of a boot with all it needs, what is in memory.          *)
(***************************************************************************)
EXTENDS Booter, Induction

LEMMA AddrIsNat == \A x \in Addr : x \in Nat /\ x \in Int
  BY WordAssumption DEF Addr

\* Word arithmetic yields addresses.
LEMMA PlusType == \A a, n \in Int : Plus(a, n) \in Addr
  BY WordAssumption DEF Plus, Addr

LEMMA MinusType == \A a, b \in Int : Minus(a, b) \in Addr
  BY WordAssumption DEF Minus, Addr

\* The same for addresses, with the offset by one that pointers to the next
\* or the previous cell need.
LEMMA AddrArithmetic ==
  \A a, b \in Addr : /\ Plus(a, b) \in Addr /\ Minus(a, b) \in Addr
                     /\ Plus(a, b - 1) \in Addr
                     /\ Plus(a, 1) \in Addr
<1> TAKE a, b \in Addr
<1>1. a \in Int /\ b \in Int /\ b - 1 \in Int /\ 1 \in Int
  BY AddrIsNat
<1> QED
  BY <1>1, PlusType, MinusType

\* Both wrap at most once.
LEMMA WrapOnce ==
  ASSUME NEW a \in Addr, NEW b \in Addr
  PROVE  /\ Plus(a, b) = IF a + b < Word THEN a + b ELSE a + b - Word
         /\ Minus(a, b) = IF b <= a THEN a - b ELSE a - b + Word
<1>1. a \in Nat /\ b \in Nat /\ a < Word /\ b < Word /\ Word \in Nat \ {0}
  BY WordAssumption DEF Addr
<1>2. Plus(a, b) = IF a + b < Word THEN a + b ELSE a + b - Word
  BY <1>1 DEF Plus
<1>3. Minus(a, b) = IF b <= a THEN a - b ELSE a - b + Word
  BY <1>1 DEF Minus
<1> QED
  BY <1>2, <1>3

\* n cells at distance d from a lie among the k cells from a on when d + n
\* is at most k.
LEMMA WithinShift ==
  ASSUME NEW x \in Addr, NEW a \in Addr, NEW d \in Nat, NEW n \in Nat,
         NEW k \in Addr, d + n <= k, Within(x, Plus(a, d), n)
  PROVE  Within(x, a, k)
<1>1. /\ x \in Nat /\ a \in Nat /\ k \in Nat /\ k < Word /\ x < Word /\ a < Word
      /\ Word \in Nat \ {0}
  BY WordAssumption DEF Addr
<1>2. d \in Addr
  BY <1>1 DEF Addr
<1> DEFINE b == Plus(a, d)
<1>3. b \in Addr /\ b \in Nat /\ b = IF a + d < Word THEN a + d ELSE a + d - Word
  BY <1>2, WrapOnce, AddrArithmetic, AddrIsNat
<1>4. Minus(x, b) = IF b <= x THEN x - b ELSE x - b + Word
  <2> HIDE DEF b
  <2> QED
    BY <1>3, WrapOnce
<1>5. Minus(x, a) = IF a <= x THEN x - a ELSE x - a + Word
  BY WrapOnce
<1>6. Minus(x, b) < n
  BY DEF Within
<1> HIDE DEF b
<1> QED
  BY <1>1, <1>3, <1>4, <1>5, <1>6 DEF Within

\* Rounding an address down to a multiple of a positive number yields an
\* address that is not above it, and less than that number below it.
LEMMA AlignDownBound ==
  ASSUME NEW p \in Addr, NEW s \in Nat \ {0}
  PROVE  /\ AlignDown(p, s) \in Addr
         /\ AlignDown(p, s) <= p
         /\ p < AlignDown(p, s) + s
<1>1. p % s \in 0 .. (s - 1)
  BY DEF Addr
<1>2. p = s * (p \div s) + (p % s) /\ p \div s \in Nat
  BY DEF Addr
<1>3. s * (p \div s) \in Nat
  BY <1>2
<1> QED
  BY <1>1, <1>2, <1>3, WordAssumption DEF AlignDown, Addr

LEMMA AlignUpType ==
  ASSUME NEW p \in Addr, NEW s \in Addr \ {0}
  PROVE  AlignUp(p, s) \in Addr
<1>1. Plus(p, s - 1) \in Addr
  BY PlusType, AddrIsNat
<1> QED
  BY <1>1, AlignDownBound, AddrIsNat DEF AlignUp

\* A reservation starts and ends at addresses.
LEMMA ReserveType ==
  ASSUME NEW pos \in Addr, NEW size \in Addr, NEW align \in Addr
  PROVE  /\ ReserveStart(pos, align) \in Addr
         /\ ReservePos(pos, size, align) \in Addr
         /\ ReserveFits(pos, size, align) \in BOOLEAN
<1>1. ReserveStart(pos, align) \in Addr
  BY AlignUpType DEF ReserveStart
<1>2. ReservePos(pos, size, align) \in Addr
  BY <1>1, PlusType, AddrIsNat DEF ReservePos
<1> QED
  BY <1>1, <1>2 DEF ReserveFits

LEMMA ReserveStepType ==
  ASSUME TypeOK, NEW size \in Addr, NEW align \in Addr, Reserve(size, align)
  PROVE  /\ region' \in [base : Addr, pos : Addr]
         /\ reserved' \in Seq(Reservation)
<1>1. region.pos \in Addr /\ region.base \in Addr
  BY DEF TypeOK
<1>2. region' \in [base : Addr, pos : Addr]
  BY <1>1, ReserveType DEF Reserve, TypeOK
<1>3. [start |-> ReserveStart(region.pos, align), size |-> size,
       fits |-> ReserveFits(region.pos, size, align)] \in Reservation
  BY <1>1, ReserveType DEF Reservation
<1> QED
  BY <1>2, <1>3 DEF Reserve, TypeOK

\* The operations on memory keep it a function from addresses to cells.
LEMMA CopyType ==
  ASSUME NEW m \in [Addr -> Cell], NEW src \in Int, NEW dst \in Int, NEW n \in Int
  PROVE  Bcopy(m, src, dst, n) \in [Addr -> Cell]
<1>1. \A x \in Addr : Plus(src, Minus(x, dst)) \in Addr
  BY PlusType, MinusType, AddrIsNat
<1> QED
  BY <1>1 DEF Bcopy

LEMMA ClearType ==
  ASSUME NEW m \in [Addr -> Cell], NEW a \in Int, NEW n \in Int
  PROVE  Bzero(m, a, n) \in [Addr -> Cell]
<1>1. Zero \in Cell
  BY DEF Zero, Cell, Kinds
<1> QED
  BY <1>1 DEF Bzero

LEMMA WriteType ==
  ASSUME NEW m \in [Addr -> Cell], NEW a \in Int, NEW n \in Int,
         NEW kind \in Kinds
  PROVE  Write(m, a, n, kind) \in [Addr -> Cell]
<1>1. \A x \in Addr : Minus(x, a) \in Nat
  BY MinusType, AddrIsNat
<1> QED
  BY <1>1 DEF Write, Cell

LEMMA InitType == Init => TypeOK
<1> SUFFICES ASSUME Init PROVE TypeOK
  OBVIOUS
<1>1. env \in EnvType
  BY EnvAssumption DEF Init
<1>2. /\ env.bootAt \in Addr /\ env.tagsAt \in Addr /\ ImagesAt(env) \in Int
  <2>1. env.bootAt \in Addr /\ env.tagsAt \in Addr
    BY <1>1 DEF EnvType
  <2>2. env.bootAt \in Int /\ BootSize \in Int
    BY <2>1, SizeAssumption, AddrIsNat
  <2> QED
    BY <2>1, <2>2 DEF ImagesAt
<1>3. \A x \in Addr : /\ Minus(x, env.bootAt) \in Nat
                      /\ Minus(x, env.tagsAt) \in Nat
                      /\ Minus(x, ImagesAt(env)) \in Nat
  BY <1>2, MinusType, AddrIsNat
<1>4. InitialMemory(env) \in [Addr -> Cell]
  <2>1. \A x \in Addr : InitialMemory(env)[x] \in Cell
    BY <1>3 DEF InitialMemory, Cell, Kinds, Addr
  <2> QED
    BY <2>1 DEF InitialMemory
<1>5. 0 \in Addr
  BY WordAssumption DEF Addr
<1> QED
  BY <1>1, <1>4, <1>5 DEF Init, TypeOK, Running, Terminal, EmptyBootArgs,
                          BootArgs, Range0

\* The facts about constants, tags, load commands and images that typing the
\* steps takes.
LEMMA EnvFacts ==
  ASSUME TypeOK
  PROVE  /\ \A i \in DOMAIN env.tags :
               /\ i \in Nat
               /\ env.tags[i] \in Tag
         /\ \A i \in DOMAIN env.commands : env.commands[i] \in LoadCommand
         /\ \A i \in DOMAIN env.images :
               /\ env.images[i] \in Image
               /\ DataAt(env, i) \in Addr
         /\ env.dtLength \in Addr
         /\ DOMAIN env.tags = 1 .. Len(env.tags)
         /\ DOMAIN env.commands = 1 .. Len(env.commands)
<1>1. /\ env.tags \in Seq(Tag) /\ env.commands \in Seq(LoadCommand)
      /\ env.images \in Seq(Image) /\ env.dtLength \in Addr
  BY DEF TypeOK, EnvType
<1>2. \A i \in DOMAIN env.images : env.images[i] \in Image
  BY <1>1
<1>3. \A i \in DOMAIN env.images : DataAt(env, i) \in Addr
  BY <1>2, AddrArithmetic DEF DataAt, Image
<1> QED
  BY <1>1, <1>2, <1>3

LEMMA TagFacts ==
  ASSUME TypeOK, NEW kind \in TagKind, AtTag(kind)
  PROVE  /\ cursor' \in Nat \ {0}
         /\ Current \in Tag /\ Current.start \in Addr /\ Current.size \in Addr
<1>1. cursor \in Nat \ {0}
  BY DEF TypeOK
<1>2. cursor \in DOMAIN env.tags
  BY <1>1, EnvFacts DEF AtTag
<1>3. Current \in Tag
  BY <1>2, EnvFacts DEF Current
<1> QED
  BY <1>1, <1>3 DEF AtTag, Tag

LEMMA CommandFacts ==
  ASSUME TypeOK, cursor <= Len(env.commands)
  PROVE  Command \in LoadCommand /\ cursor + 1 \in Nat \ {0}
<1>1. cursor \in Nat \ {0}
  BY DEF TypeOK
<1>2. cursor \in DOMAIN env.commands
  BY <1>1, EnvFacts DEF TypeOK, EnvType
<1> QED
  BY <1>1, <1>2, EnvFacts DEF Command

LEMMA ConstantTypes ==
  /\ ZeroSize \in Addr /\ HeapSize \in Addr \ {0} /\ HeapUse \in Addr
  /\ PageOffset \in Addr /\ BootArgsSize \in Addr /\ VirtBase \in Addr
  /\ KernelVMAddr \in Addr /\ BootArgsAlign \in Addr \ {0}
  /\ RamdiskAlign \in Addr \ {0} /\ TopAlign \in Addr \ {0}
  /\ 0 \in Addr
  BY SizeAssumption, WordAssumption DEF Addr

LEMMA StepType == TypeOK /\ [Next]_vars => TypeOK'
<1> SUFFICES ASSUME TypeOK, [Next]_vars PROVE TypeOK'
  OBVIOUS
<1> USE DEF Running, Terminal
<1>1. CASE Start
  BY <1>1 DEF Start, TypeOK, found, placement, handoff
<1>2. CASE CheckMachine
  BY <1>2, ConstantTypes
  DEF CheckMachine, TypeOK, found, placement, handoff, EmptyBootArgs, BootArgs
<1>3. CASE PopulateMemory
  <2>1. /\ Current \in Tag /\ cursor' \in Nat \ {0}
        /\ Current.start \in Addr /\ Current.size \in Addr
    BY <1>3, TagFacts DEF PopulateMemory, TagKind
  <2> DEFINE base == Minus(Plus(Current.start, Current.size), HeapSize)
  <2>2. base \in Addr /\ Plus(base, HeapSize - 1) \in Addr
    BY <2>1, AddrArithmetic, ConstantTypes
  <2>3. <<"pool", 0>> \in Cell /\ <<"pool", HeapSize - 1>> \in Cell
    <3>1. HeapSize - 1 \in Nat
      BY ConstantTypes, AddrIsNat
    <3> QED
      BY <3>1 DEF Cell, Kinds
  <2>4. mem' \in [Addr -> Cell]
    BY <1>3, <2>2, <2>3 DEF PopulateMemory, TypeOK
  <2>5. gBootArgs' \in BootArgs
    BY <1>3, <2>1 DEF PopulateMemory, TypeOK, BootArgs
  <2>6. heap' \in Addr \cup {Word} /\ flags' \in SUBSET Flags
    BY <1>3, <2>2 DEF PopulateMemory, TypeOK, Flags
  <2> QED
    BY <1>3, <2>1, <2>4, <2>5, <2>6
    DEF PopulateMemory, AtTag, TypeOK, placement, handoff
<1>4. CASE PopulateCommandLine
  <2>1. Current \in Tag /\ cursor' \in Nat \ {0} /\ Current.size \in Addr
    BY <1>4, TagFacts DEF PopulateCommandLine, TagKind
  <2>2. gBootArgs' \in BootArgs
    <3>1. CASE Current.size = 0
      BY <1>4, <3>1 DEF PopulateCommandLine, TypeOK
    <3>2. CASE Current.size # 0
      <4> DEFINE fits == Current.size < BootLineLength
      <4>1. fits \in BOOLEAN /\ cursor \in Nat
        BY DEF TypeOK
      <4>2. gBootArgs' = [gBootArgs EXCEPT !.commandLine = cursor,
                                           !.terminated = fits]
        BY <1>4, <3>2 DEF PopulateCommandLine
      <4> HIDE DEF fits
      <4> QED
        BY <4>1, <4>2 DEF TypeOK, BootArgs
    <3> QED
      BY <3>1, <3>2
  <2>3. flags' \in SUBSET Flags
    BY <1>4 DEF PopulateCommandLine, TypeOK
  <2> QED
    BY <1>4, <2>1, <2>2, <2>3
    DEF PopulateCommandLine, AtTag, TypeOK, placement, handoff
<1>5. CASE PopulateRamdisk
  <2>1. /\ Current \in Tag /\ cursor' \in Nat \ {0}
        /\ Current.size \in Addr /\ Current.start \in Addr
    BY <1>5, TagFacts DEF PopulateRamdisk, TagKind
  <2>2. flags' \in SUBSET Flags /\ ramdisk' \in Range0
    <3>1. CASE Seen("is_first_ramdisk")
      BY <1>5, <3>1 DEF PopulateRamdisk, TypeOK
    <3>2. CASE ~Seen("is_first_ramdisk")
      <4>1. /\ flags' = flags \cup {"is_first_ramdisk"}
            /\ ramdisk' = [base |-> Current.start, size |-> Current.size]
        BY <1>5, <3>2 DEF PopulateRamdisk
      <4>2. flags' \in SUBSET Flags
        BY <4>1 DEF TypeOK, Flags
      <4> QED
        BY <2>1, <4>1, <4>2 DEF Range0
    <3> QED
      BY <3>1, <3>2
  <2> QED
    BY <1>5, <2>1, <2>2
    DEF PopulateRamdisk, AtTag, TypeOK, placement, handoff
<1>6. CASE SkipTag
  <2>1. Current \in Tag /\ cursor' \in Nat \ {0}
    BY <1>6, TagFacts DEF SkipTag, TagKind
  <2> QED
    BY <1>6, <2>1 DEF SkipTag, AtTag, TypeOK, found, placement, handoff
<1>7. CASE LastTag
  BY <1>7 DEF LastTag, TypeOK, found, placement, handoff
<1>8. CASE StartDarwin
  <2>1. gBootArgs.physBase \in Addr
    BY DEF TypeOK, BootArgs
  <2>2. Plus(gBootArgs.physBase, PageOffset) \in Addr
    BY <2>1, PlusType, AddrIsNat, ConstantTypes
  <2>3. mem' \in [Addr -> Cell]
    BY <1>8, <2>1, ClearType, AddrIsNat, ConstantTypes DEF StartDarwin, TypeOK
  <2>4. gBootArgs' \in BootArgs
    BY <1>8, ConstantTypes DEF StartDarwin, TypeOK, BootArgs
  <2> QED
    BY <1>8, <2>2, <2>3, <2>4 DEF StartDarwin, TypeOK, found, handoff
<1>9. CASE PrepareKernel
  BY <1>9, ConstantTypes DEF PrepareKernel, TypeOK, found, handoff
<1>10. CASE NoKernel
  BY <1>10 DEF NoKernel, TypeOK, found, placement, handoff
<1>11. CASE MeasureCommand
  <2>1. Command \in LoadCommand /\ cursor' \in Nat \ {0}
    BY <1>11, CommandFacts DEF MeasureCommand
  <2>2. kernelSize' \in Addr
    BY <1>11, <2>1, PlusType, AddrIsNat DEF MeasureCommand, LoadCommand, TypeOK
  <2> QED
    BY <1>11, <2>1, <2>2 DEF MeasureCommand, TypeOK, found, handoff
<1>12. CASE ReserveKernel
  <2>1. /\ region' \in [base : Addr, pos : Addr]
        /\ reserved' \in Seq(Reservation)
    BY <1>12, ReserveStepType, ConstantTypes DEF ReserveKernel, TypeOK
  <2>2. kernelBase' \in Addr
    BY <1>12, ReserveType, ConstantTypes DEF ReserveKernel, TypeOK
  <2> QED
    BY <1>12, <2>1, <2>2 DEF ReserveKernel, TypeOK, found, handoff
<1>13. CASE MapSegment
  <2>1. Command \in LoadCommand /\ cursor' \in Nat \ {0}
    BY <1>13, CommandFacts DEF MapSegment
  <2>2. LoadAddr(Command) \in Addr
    BY <2>1, PlusType, MinusType, AddrIsNat, ConstantTypes
    DEF LoadAddr, LoadCommand, TypeOK
  <2>3. \A i \in DOMAIN env.images :
           Plus(DataAt(env, i), Command.fileoff) \in Addr
    BY <2>1, EnvFacts, PlusType, AddrIsNat DEF LoadCommand
  <2>4. mem' \in [Addr -> Cell]
    <3>1. PICK i \in GetImage3("krnl") :
            mem' = Bcopy(mem, Plus(DataAt(env, i), Command.fileoff),
                         LoadAddr(Command), Command.filesize)
      BY <1>13 DEF MapSegment
    <3>2. Plus(DataAt(env, i), Command.fileoff) \in Int
      BY <2>3, AddrIsNat DEF GetImage3
    <3>3. LoadAddr(Command) \in Int /\ Command.filesize \in Int
      BY <2>1, <2>2, AddrIsNat DEF LoadCommand
    <3> QED
      BY <3>1, <3>2, <3>3, CopyType DEF TypeOK
  <2> QED
    BY <1>13, <2>1, <2>4 DEF MapSegment, TypeOK, found, placement, handoff
<1>14. CASE MapThread
  <2>1. Command \in LoadCommand /\ cursor' \in Nat \ {0}
    BY <1>14, CommandFacts DEF MapThread
  <2> QED
    BY <1>14, <2>1 DEF MapThread, TypeOK, found, placement, LoadCommand
<1>15. CASE MapOther
  BY <1>15 DEF MapOther, TypeOK, found, placement, handoff
<1>16. CASE MapDone
  <2>1. entry' \in Addr \cup {Word}
    BY <1>16, PlusType, MinusType, AddrIsNat, ConstantTypes
    DEF MapDone, VToPhys, TypeOK
  <2> QED
    BY <1>16, <2>1 DEF MapDone, TypeOK, found, placement
<1>17. CASE PrepareDeviceTree
  <2>1. Plus(heap, 1) \in Int
    <3>1. heap \in Int
      BY AddrIsNat, WordAssumption DEF TypeOK
    <3> QED
      BY <3>1, PlusType, AddrIsNat
  <2>2. mem' \in [Addr -> Cell]
    <3>1. HeapUse \in Int /\ "node" \in Kinds
      BY AddrIsNat, ConstantTypes DEF Kinds
    <3>2. mem \in [Addr -> Cell]
      BY DEF TypeOK
    <3>3. Write(mem, Plus(heap, 1), HeapUse, "node") \in [Addr -> Cell]
      BY <2>1, <3>1, <3>2, WriteType
    <3> QED
      BY <1>17, <3>2, <3>3 DEF PrepareDeviceTree
  <2> QED
    BY <1>17, <2>2 DEF PrepareDeviceTree, TypeOK, found, placement, handoff
<1>18. CASE PrepareRamdisk
  <2>1. PICK i \in GetImage3("rdsk") :
          LET source == IF env.images[i].data
                        THEN [base |-> DataAt(env, i),
                              size |-> env.images[i].size]
                        ELSE ramdisk
              start == ReserveStart(region.pos, RamdiskAlign)
          IN  /\ ramdisk' = source
              /\ IF source.base = 0
                 THEN UNCHANGED <<mem, rangeRAMDisk, region, reserved>>
                 ELSE /\ Reserve(source.size, RamdiskAlign)
                      /\ mem' = Bcopy(mem, source.base, start, source.size)
                      /\ rangeRAMDisk' = {[base |-> start,
                                           size |-> source.size]}
              /\ pc' = "flatten"
    BY <1>18 DEF PrepareRamdisk
  <2> DEFINE source == IF env.images[i].data
                       THEN [base |-> DataAt(env, i),
                             size |-> env.images[i].size]
                       ELSE ramdisk
             start == ReserveStart(region.pos, RamdiskAlign)
  <2>2. source \in Range0
    BY <2>1, EnvFacts DEF GetImage3, Image, Range0, TypeOK
  <2>3. source.base \in Addr /\ source.size \in Addr
    BY <2>2 DEF Range0
  <2>4. start \in Addr
    BY ReserveType, ConstantTypes DEF TypeOK
  <2>5. CASE source.base = 0
    BY <2>1, <2>2, <2>5, <1>18 DEF PrepareRamdisk, TypeOK
  <2>6. CASE source.base # 0
    <3>1. /\ region' \in [base : Addr, pos : Addr]
          /\ reserved' \in Seq(Reservation)
      BY <2>1, <2>3, <2>6, ReserveStepType, ConstantTypes
    <3>2. mem' \in [Addr -> Cell]
      <4>1. mem' = Bcopy(mem, source.base, start, source.size)
        BY <2>1, <2>6
      <4>2. /\ mem \in [Addr -> Cell]
            /\ source.base \in Int /\ start \in Int /\ source.size \in Int
        BY <2>3, <2>4, AddrIsNat DEF TypeOK
      <4> HIDE DEF source, start
      <4> QED
        BY <4>1, <4>2, CopyType
    <3>3. rangeRAMDisk' \in SUBSET Range0
      BY <2>1, <2>3, <2>4, <2>6 DEF Range0
    <3> QED
      BY <2>1, <2>2, <3>1, <3>2, <3>3, <1>18 DEF PrepareRamdisk, TypeOK
  <2> QED
    BY <2>5, <2>6
<1>19. CASE NoRamdisk
  BY <1>19 DEF NoRamdisk, TypeOK, found, placement, handoff
<1>20. CASE FlattenDeviceTree
  <2> DEFINE length == DeviceTreeLength(env, rangeRAMDisk)
             start  == ReserveStart(region.pos, 0)
  <2>1. length \in Addr
    BY EnvFacts, AddrArithmetic DEF DeviceTreeLength
  <2>2. start \in Addr
    BY ReserveType, ConstantTypes DEF TypeOK
  <2>3. /\ region' \in [base : Addr, pos : Addr]
        /\ reserved' \in Seq(Reservation)
    BY <1>20, <2>1, ReserveStepType, ConstantTypes DEF FlattenDeviceTree
  <2>4. mem' \in [Addr -> Cell]
    BY <1>20, <2>1, <2>2, WriteType, AddrIsNat
    DEF FlattenDeviceTree, TypeOK, Kinds
  <2>5. Plus(Minus(start, gBootArgs.physBase), gBootArgs.virtBase) \in Addr
    BY <2>2, PlusType, MinusType, AddrIsNat DEF TypeOK, BootArgs
  <2>6. gBootArgs' \in BootArgs
    BY <1>20, <2>1, <2>5 DEF FlattenDeviceTree, TypeOK, BootArgs
  <2> QED
    BY <1>20, <2>3, <2>4, <2>6 DEF FlattenDeviceTree, TypeOK, found, handoff
<1>21. CASE FinalizeBootArgs
  <2> DEFINE start == ReserveStart(region.pos, BootArgsAlign)
  <2>1. start \in Addr /\ AlignUp(region.pos, TopAlign) \in Addr
    BY ReserveType, AlignUpType, ConstantTypes DEF TypeOK
  <2>2. /\ region' \in [base : Addr, pos : Addr]
        /\ reserved' \in Seq(Reservation)
    BY <1>21, ReserveStepType, ConstantTypes DEF FinalizeBootArgs
  <2>3. mem' \in [Addr -> Cell]
    BY <1>21, <2>1, WriteType, AddrIsNat, ConstantTypes
    DEF FinalizeBootArgs, TypeOK, Kinds
  <2>4. gBootArgs' \in BootArgs
    BY <1>21, <2>1 DEF FinalizeBootArgs, TypeOK, BootArgs
  <2> QED
    BY <1>21, <2>1, <2>2, <2>3, <2>4 DEF FinalizeBootArgs, TypeOK, found
<1>22. CASE Jump
  BY <1>22 DEF Jump, TypeOK, found, placement, handoff
<1>23. CASE LoseControl \/ SearchAstray
  BY <1>23 DEF LoseControl, SearchAstray, Searching, TypeOK, found, placement, handoff
<1>24. CASE UNCHANGED vars
  BY <1>24 DEF vars, TypeOK
<1> QED
  BY <1>1, <1>2, <1>3, <1>4, <1>5, <1>6, <1>7, <1>8, <1>9, <1>10, <1>11,
     <1>12, <1>13, <1>14, <1>15, <1>16, <1>17, <1>18, <1>19, <1>20, <1>21,
     <1>22, <1>23, <1>24 DEF Next

\* Whatever the environment, every variable of the boot sequence keeps its
\* type: all addresses it computes are machine words, and no copy or
\* clearing takes memory out of its domain.
THEOREM TypeCorrect == Spec => []TypeOK
  BY InitType, StepType, PTL DEF Spec

-----------------------------------------------------------------------------
(* The kernel's memory region.                                             *)

\* No reservation is made before start_darwin sets the region up, and none
\* after the boot arguments have theirs.
Stages ==
    /\ pc \in {"start", "core", "atags", "darwin"} => reserved = <<>>
    /\ args # Word => pc \in {"jump"} \cup Terminal

RegionInv ==
    TypeOK /\ Stages /\ ReservationsDisjoint /\ PayloadBelowTop

\* Rounding up yields an address at or above the one given, or it wraps to 0.
LEMMA AlignUpBound ==
  ASSUME NEW p \in Addr, NEW s \in Addr \ {0}
  PROVE  /\ p <= AlignUp(p, s) \/ AlignUp(p, s) = 0
         /\ p + s <= Word => p <= AlignUp(p, s)
<1>1. /\ p \in Nat /\ s \in Nat \ {0} /\ Word \in Nat \ {0}
      /\ p < Word /\ s < Word
  BY WordAssumption DEF Addr
<1> DEFINE q == Plus(p, s - 1)
<1>2. q \in Addr /\ q \in Nat
  <2>1. s - 1 \in Nat /\ p + (s - 1) \in Int
    BY <1>1
  <2>2. q \in 0 .. (Word - 1)
    BY <1>1, <2>1 DEF Plus
  <2> QED
    BY <1>1, <2>2 DEF Addr
<1>3. CASE p + s <= Word
  <2>1. q = p + s - 1
    BY <1>1, <1>3 DEF Plus
  <2>2. q < AlignDown(q, s) + s /\ AlignDown(q, s) \in Nat
    BY <1>1, <1>2, AlignDownBound, AddrIsNat
  <2> QED
    BY <1>1, <2>1, <2>2 DEF AlignUp
<1>4. CASE p + s > Word
  <2>1. q = p + s - 1 - Word
    BY <1>1, <1>4 DEF Plus
  <2>2. q < s
    BY <1>1, <2>1
  <2>3. q % s = q
    BY <1>1, <1>2, <2>2
  <2> QED
    BY <1>1, <1>2, <1>4, <2>3 DEF AlignUp, AlignDown
<1> QED
  BY <1>1, <1>3, <1>4

\* A reservation that fits starts at the cursor or after it, and moves the
\* cursor to its own end.
LEMMA ReserveBound ==
  ASSUME NEW pos \in Addr, NEW size \in Addr, NEW align \in Addr,
         ReserveFits(pos, size, align)
  PROVE  /\ pos <= ReserveStart(pos, align)
         /\ ReservePos(pos, size, align) = ReserveStart(pos, align) + size
<1>1. ReserveStart(pos, align) \in Addr
  BY ReserveType
<1>2. pos <= ReserveStart(pos, align)
  BY AlignUpBound, AddrIsNat DEF ReserveStart, ReserveFits
<1>3. ReserveStart(pos, align) + size < Word
  BY DEF ReserveFits
<1>4. Plus(ReserveStart(pos, align), size) = ReserveStart(pos, align) + size
  BY <1>1, <1>3, AddrIsNat, WordAssumption DEF Plus
<1> QED
  BY <1>2, <1>4 DEF ReservePos

LEMMA ReserveKeepsDisjoint ==
  ASSUME TypeOK, ReservationsDisjoint,
         NEW size \in Addr, NEW align \in Addr, Reserve(size, align)
  PROVE  ReservationsDisjoint'
<1> DEFINE r == [start |-> ReserveStart(region.pos, align), size |-> size,
                 fits |-> ReserveFits(region.pos, size, align)]
           n == Len(reserved)
<1>1. /\ reserved \in Seq(Reservation)
      /\ region.pos \in Addr
      /\ n \in Nat
  BY DEF TypeOK
<1>2. /\ reserved' = Append(reserved, r)
      /\ region'.pos = ReservePos(region.pos, size, align)
  BY DEF Reserve, TypeOK
<1>3. r.start \in Nat /\ r.size \in Nat /\ region.pos \in Nat
  BY <1>1, ReserveType, AddrIsNat
<1>4. /\ DOMAIN reserved = 1 .. n
      /\ DOMAIN reserved' = 1 .. (n + 1)
      /\ \A i \in 1 .. n : reserved'[i] = reserved[i]
      /\ reserved'[n + 1] = r
  <2> HIDE DEF r
  <2> QED
    BY <1>1, <1>2, ReserveStepType DEF Reservation
<1>5. SUFFICES ASSUME ReservationsFit'
               PROVE  \A i \in DOMAIN reserved' :
                         /\ reserved'[i].start + reserved'[i].size
                              <= region'.pos
                         /\ \A j \in DOMAIN reserved' :
                              i < j => reserved'[i].start + reserved'[i].size
                                         <= reserved'[j].start
  BY DEF ReservationsDisjoint
<1>6. r.fits
  BY <1>4, <1>5 DEF ReservationsFit
<1>7. region.pos <= r.start /\ region'.pos = r.start + r.size
  BY <1>1, <1>2, <1>6, ReserveBound
<1>8. ReservationsFit
  BY <1>4, <1>5 DEF ReservationsFit
<1>9. \A i \in 1 .. n :
         /\ reserved[i].start \in Nat /\ reserved[i].size \in Nat
         /\ reserved[i].start + reserved[i].size <= region.pos
         /\ \A j \in 1 .. n : i < j => reserved[i].start + reserved[i].size
                                          <= reserved[j].start
  <2>1. \A i \in 1 .. n : reserved[i] \in Reservation
    BY <1>1, <1>4
  <2>2. \A i \in 1 .. n : /\ reserved[i].start \in Nat
                            /\ reserved[i].size \in Nat
    BY <2>1, AddrIsNat DEF Reservation
  <2>3. \A i \in 1 .. n :
           /\ reserved[i].start + reserved[i].size <= region.pos
           /\ \A j \in 1 .. n : i < j => reserved[i].start + reserved[i].size
                                            <= reserved[j].start
    BY <1>4, <1>8 DEF ReservationsDisjoint
  <2> QED
    BY <2>2, <2>3
<1> HIDE DEF r
<1>10. TAKE i \in DOMAIN reserved'
<1>11. CASE i = n + 1
  BY <1>1, <1>3, <1>4, <1>7, <1>11
<1>12. CASE i \in 1 .. n
  <2>1. reserved'[i].start + reserved'[i].size <= region.pos
    BY <1>4, <1>9, <1>12
  <2>2. reserved'[i].start + reserved'[i].size <= region'.pos
    BY <1>3, <1>4, <1>7, <1>9, <1>12, <2>1
  <2>3. ASSUME NEW j \in DOMAIN reserved', i < j
        PROVE  reserved'[i].start + reserved'[i].size <= reserved'[j].start
    <3>1. CASE j = n + 1
      BY <1>3, <1>4, <1>7, <1>9, <1>12, <2>1, <3>1
    <3>2. CASE j \in 1 .. n
      BY <1>4, <1>9, <1>12, <2>3, <3>2
    <3> QED
      BY <1>1, <1>4, <2>3, <3>1, <3>2
  <2> QED
    BY <2>2, <2>3
<1> QED
  BY <1>1, <1>4, <1>10, <1>11, <1>12

LEMMA RegionInit == Init => RegionInv
<1> SUFFICES ASSUME Init PROVE RegionInv
  OBVIOUS
<1>1. TypeOK
  BY InitType
<1>2. reserved = <<>> /\ args = Word /\ pc = "start"
  BY DEF Init
<1>3. ReservationsDisjoint
  BY <1>2 DEF ReservationsDisjoint
<1> QED
  BY <1>1, <1>2, <1>3 DEF RegionInv, Stages, PayloadBelowTop

\* Every step but those that reserve, set the region up, or finish the boot
\* arguments leaves alone what the invariant is about.
LEMMA QuietStep ==
  ASSUME RegionInv, [Next]_vars, TypeOK',
         UNCHANGED <<region, reserved, args>>,
         gBootArgs'.topOfKernelData = gBootArgs.topOfKernelData \/ args = Word,
         pc' \in {"start", "core", "atags", "darwin"} => reserved = <<>>,
         args # Word => pc' \in {"jump"} \cup Terminal
  PROVE  RegionInv'
<1>1. ReservationsDisjoint'
  BY DEF RegionInv, ReservationsDisjoint, ReservationsFit
<1>2. PayloadBelowTop'
  BY DEF RegionInv, PayloadBelowTop, ReservationsFit
<1>3. Stages'
  BY DEF Stages
<1> QED
  BY <1>1, <1>2, <1>3 DEF RegionInv

LEMMA RegionStep == RegionInv /\ [Next]_vars => RegionInv'
<1> SUFFICES ASSUME RegionInv, [Next]_vars PROVE RegionInv'
  OBVIOUS
<1>0. TypeOK'
  BY StepType DEF RegionInv
<1>a. TypeOK /\ Stages /\ ReservationsDisjoint /\ PayloadBelowTop
  BY DEF RegionInv
<1> USE DEF Running, Terminal
<1>1. CASE \/ Start \/ CheckMachine \/ PopulateMemory \/ PopulateCommandLine
           \/ PopulateRamdisk \/ SkipTag \/ LastTag
  <2>1. /\ pc \in {"start", "core", "atags"}
        /\ pc' \in {"core", "atags", "darwin", "halted"}
        /\ UNCHANGED <<region, reserved, args>>
    BY <1>1
    DEF Start, CheckMachine, PopulateMemory, PopulateCommandLine,
        PopulateRamdisk, SkipTag, LastTag, AtTag, At, placement, handoff
  <2>2. reserved = <<>> /\ args = Word
    BY <1>a, <2>1 DEF Stages
  <2> QED
    BY <1>0, <2>1, <2>2, QuietStep
<1>2. CASE StartDarwin
  <2>1. reserved' = <<>> /\ args' = Word /\ pc' = "kernel_image"
    BY <1>a, <1>2 DEF StartDarwin, At, Stages, handoff
  <2> QED
    BY <1>0, <2>1 DEF RegionInv, Stages, ReservationsDisjoint, PayloadBelowTop
<1>3. CASE PrepareKernel \/ NoKernel \/ MeasureCommand
  <2>1. /\ pc \in {"kernel_image", "measure"}
        /\ pc' \in {"measure", "halted", "undefined"}
        /\ UNCHANGED <<region, reserved, args>>
    BY <1>3 DEF PrepareKernel, NoKernel, MeasureCommand, At, placement, handoff
  <2> QED
    BY <1>0, <1>a, <2>1, QuietStep DEF Stages
<1>4. CASE ReserveKernel
  <2>1. pc = "measure" /\ pc' \in {"map", "halted"} /\ args' = args
    BY <1>4 DEF ReserveKernel, At, handoff
  <2>2. CASE kernelSize > 0
    <3>1. Reserve(kernelSize, 0)
      BY <1>4, <2>2 DEF ReserveKernel
    <3>2. ReservationsDisjoint'
      BY <1>a, <3>1, ReserveKeepsDisjoint, ConstantTypes DEF TypeOK
    <3> QED
      BY <1>0, <1>a, <2>1, <3>2 DEF RegionInv, Stages, PayloadBelowTop
  <2>3. CASE ~(kernelSize > 0)
    BY <1>0, <1>4, <1>a, <2>1, <2>3, QuietStep DEF ReserveKernel, Stages
  <2> QED
    BY <2>2, <2>3
<1>5. CASE \/ MapSegment \/ MapThread \/ MapOther \/ MapDone
           \/ PrepareDeviceTree \/ NoRamdisk
  <2>1. /\ pc \in {"map", "devicetree", "ramdisk"}
        /\ pc' \in {"map", "devicetree", "ramdisk", "halted"}
        /\ UNCHANGED <<region, reserved, args>>
    BY <1>5 DEF MapSegment, MapThread, MapOther, MapDone, PrepareDeviceTree,
                NoRamdisk, At, placement, handoff
  <2> QED
    BY <1>0, <1>a, <2>1, QuietStep DEF Stages
<1>6. CASE PrepareRamdisk
  <2>1. pc = "ramdisk" /\ pc' = "flatten" /\ args' = args
    BY <1>6 DEF PrepareRamdisk, At
  <2>2. CASE UNCHANGED <<region, reserved>>
    BY <1>0, <1>a, <2>1, <2>2, QuietStep DEF Stages
  <2>3. CASE \E size \in Addr : Reserve(size, RamdiskAlign)
    <3>1. ReservationsDisjoint'
      BY <1>a, <2>3, ReserveKeepsDisjoint, ConstantTypes
    <3> QED
      BY <1>0, <1>a, <2>1, <3>1 DEF RegionInv, Stages, PayloadBelowTop
  <2> QED
    <3>1. PICK i \in GetImage3("rdsk") :
            LET source == IF env.images[i].data
                          THEN [base |-> DataAt(env, i),
                                size |-> env.images[i].size]
                          ELSE ramdisk
            IN  IF source.base = 0
                THEN UNCHANGED <<mem, rangeRAMDisk, region, reserved>>
                ELSE Reserve(source.size, RamdiskAlign)
      BY <1>6 DEF PrepareRamdisk
    <3>2. env.images[i].size \in Addr /\ ramdisk.size \in Addr
      BY <1>a, <3>1, EnvFacts DEF GetImage3, Image, Range0, TypeOK
    <3> QED
      BY <2>2, <2>3, <3>1, <3>2
<1>7. CASE FlattenDeviceTree
  <2>1. pc = "flatten" /\ pc' = "finalize" /\ args' = args
    BY <1>7 DEF FlattenDeviceTree, At, handoff
  <2>2. DeviceTreeLength(env, rangeRAMDisk) \in Addr
    BY <1>a, EnvFacts, AddrArithmetic DEF DeviceTreeLength
  <2>3. ReservationsDisjoint'
    BY <1>7, <1>a, <2>2, ReserveKeepsDisjoint, ConstantTypes
    DEF FlattenDeviceTree
  <2> QED
    BY <1>0, <1>a, <2>1, <2>3 DEF RegionInv, Stages, PayloadBelowTop
<1>8. CASE FinalizeBootArgs
  <2> DEFINE n == Len(reserved)
             top == AlignUp(region.pos, TopAlign)
  <2>1. pc = "finalize" /\ pc' = "jump"
    BY <1>8 DEF FinalizeBootArgs, At
  <2>2. Reserve(BootArgsSize, BootArgsAlign)
    BY <1>8 DEF FinalizeBootArgs
  <2>3. ReservationsDisjoint'
    BY <1>a, <2>2, ReserveKeepsDisjoint, ConstantTypes
  <2>4. gBootArgs'.topOfKernelData = top
    BY <1>8, <1>a DEF FinalizeBootArgs, TypeOK, BootArgs
  <2>5. /\ region.pos \in Addr /\ top \in Nat
        /\ top > 0 => region.pos <= top
    BY <1>a, AlignUpBound, AlignUpType, ConstantTypes, AddrIsNat, SMTT(30) DEF TypeOK
  <2>6. /\ reserved \in Seq(Reservation)
        /\ Len(reserved') = n + 1
        /\ DOMAIN reserved = 1 .. n
        /\ \A i \in 1 .. n : reserved'[i] = reserved[i]
        /\ \A i \in 1 .. n : i \in DOMAIN reserved'
        /\ n \in Nat
    BY <1>a, <2>2 DEF Reserve, TypeOK
  <2>7. ASSUME ReservationsFit', top > 0, NEW i \in 1 .. n
        PROVE  reserved'[i].start + reserved'[i].size <= top
    <3>1. ReservationsFit
      BY <2>6, <2>7 DEF ReservationsFit
    <3>2. reserved[i].start + reserved[i].size <= region.pos
      BY <1>a, <2>6, <2>7, <3>1 DEF ReservationsDisjoint
    <3>3. reserved[i].start \in Nat /\ reserved[i].size \in Nat
      <4>1. reserved[i] \in Reservation
        BY <2>6
      <4> QED
        BY <4>1, AddrIsNat DEF Reservation
    <3>4. region.pos \in Nat
      BY <2>5, AddrIsNat
    <3> QED
      BY <2>5, <2>6, <2>7, <3>2, <3>3, <3>4
  <2>8. PayloadBelowTop'
    BY <2>4, <2>6, <2>7 DEF PayloadBelowTop
  <2> QED
    BY <1>0, <2>1, <2>3, <2>8 DEF RegionInv, Stages
<1>9. CASE Jump \/ LoseControl \/ SearchAstray
  <2>1. /\ \/ pc' \in {"kernel", "undefined"}
           \/ pc' = "searching" /\ args = Word
        /\ UNCHANGED <<region, reserved, args, gBootArgs>>
    <3>1. CASE Jump \/ LoseControl
      BY <3>1 DEF Jump, LoseControl, placement, handoff
    <3>2. CASE SearchAstray
      <4>1. pc \in {"kernel_image", "devicetree", "ramdisk"}
        BY <3>2 DEF SearchAstray, Astray, Sought
      <4> QED
        BY <1>a, <3>2, <4>1 DEF SearchAstray, Searching, Stages, placement, handoff
    <3> QED
      BY <1>9, <3>1, <3>2
  <2> QED
    BY <1>0, <2>1, QuietStep
<1>10. CASE UNCHANGED vars
  <2>1. UNCHANGED <<pc, region, reserved, args, gBootArgs>>
    BY <1>10 DEF vars
  <2> QED
    BY <1>0, <1>a, <2>1, QuietStep DEF Stages
<1> QED
  BY <1>1, <1>2, <1>3, <1>4, <1>5, <1>6, <1>7, <1>8, <1>9, <1>10 DEF Next

LEMMA RegionCorrect == Spec => []RegionInv
  BY RegionInit, RegionStep, PTL DEF Spec

\* memory_region_reserve hands out disjoint ranges in ascending order, for
\* every sequence of reservations a boot makes, unless the arithmetic wraps.
THEOREM ReservationsCorrect == Spec => []ReservationsDisjoint
<1>1. RegionInv => ReservationsDisjoint
  BY DEF RegionInv
<1> QED
  BY <1>1, RegionCorrect, PTL

\* The kernel, the ramdisk and the device tree lie below topOfKernelData.
THEOREM TopCorrect == Spec => []PayloadBelowTop
<1>1. RegionInv => PayloadBelowTop
  BY DEF RegionInv
<1> QED
  BY <1>1, RegionCorrect, PTL

-----------------------------------------------------------------------------
(* What the kernel is told, for every environment: nothing the loader      *)
(* looks for was missing, the memory, command line and ramdisk are those   *)
(* the tags name, the entry point is where its segment went, and no step   *)
(* writes outside the reservations and the heap.                           *)

(* The inductive invariant.  Each part says what the stages passed so far  *)
(* have established; the sets are the stages from some stage on.           *)

PastMap     == {"devicetree", "ramdisk", "flatten", "finalize", "jump", "kernel"}
PastMeasure == {"map"} \cup PastMap
PastKernel  == {"measure"} \cup PastMeasure
PastTags    == {"darwin", "kernel_image"} \cup PastKernel
PastTree    == PastMap \ {"devicetree"}
PastRamdisk == PastTree \ {"ramdisk"}

Alive == pc \notin {"halted", "undefined", "searching"}

\* Tag i is the first of its kind; image i is the first of its type.
FirstOfKind(i, kind) ==
    /\ env.tags[i].tag = kind
    /\ \A j \in 1 .. (i - 1) : env.tags[j].tag # kind

FirstOfType(i, type) ==
    /\ env.images[i].type = type
    /\ \A j \in 1 .. (i - 1) : env.images[j].type # type

\* start.S, corestart_main, the panic without a heap and the asserts of the
\* three prepare functions.
Checked ==
    /\ pc \in {"core", "atags"} \cup PastTags =>
          env.r2 /\ env.tags # <<>> /\ env.tags[1].tag = "core"
    /\ pc \in {"atags"} \cup PastTags => env.machine
    /\ "is_malloc_inited" \in flags =>
          /\ heap \in Addr
          /\ \E i \in DOMAIN env.tags : env.tags[i].tag = "mem"
    /\ pc \in PastTags => "is_malloc_inited" \in flags
    /\ pc \in PastKernel =>
          /\ env.macho
          /\ \E i \in DOMAIN env.images : /\ FirstOfType(i, "krnl")
                                          /\ env.images[i].data
                                          /\ env.images[i].size > 0
    /\ pc \in PastTree =>
          /\ env.xml
          /\ \E i \in DOMAIN env.images : FirstOfType(i, "xmdt") /\ env.images[i].data
    /\ pc \in PastRamdisk => \E i \in DOMAIN env.images : FirstOfType(i, "rdsk")

\* macho_get_vmsize has summed the commands before the cursor, and the
\* kernel's reservation is the first and has the sum for its size.
Measured ==
    /\ pc = "measure" => /\ cursor \in 1 .. (Len(env.commands) + 1)
                         /\ kernelSize = VmSizes(env.commands)[cursor - 1]
    /\ pc \in PastMeasure =>
          /\ VmSize(env.commands) > 0
          /\ reserved # <<>>
          /\ reserved[1].start = kernelBase
          /\ reserved[1].size = VmSize(env.commands)

\* How many tags have been read.
TagsRead == IF pc \in PastTags THEN Len(env.tags) ELSE cursor - 1

ReadTags(kind) == {i \in 1 .. TagsRead : env.tags[i].tag = kind}

ReadLines == {i \in ReadTags("cmdline") : env.tags[i].size > 0}

\* What has been taken from the tags read so far.
Counted ==
    /\ TagsRead \in 0 .. Len(env.tags)
    /\ pc \in {"start", "core"} => cursor = 1
    /\ Seen("is_first_region") <=> ReadTags("mem") # {}
    /\ \A i \in ReadTags("mem") :
          FirstOfKind(i, "mem") =>
             /\ gBootArgs.physBase = env.tags[i].start
             /\ gBootArgs.memSize = env.tags[i].size
             /\ heap = Minus(Plus(env.tags[i].start, env.tags[i].size), HeapSize)
    /\ Seen("is_first_ramdisk") <=> ReadTags("initrd2") # {}
    /\ pc \notin PastRamdisk =>
          /\ \A i \in ReadTags("initrd2") :
                FirstOfKind(i, "initrd2") =>
                   ramdisk = [base |-> env.tags[i].start,
                              size |-> env.tags[i].size]
          /\ ~Seen("is_first_ramdisk") => ramdisk = [base |-> 0, size |-> 0]
    /\ IF gBootArgs.commandLine = 0 THEN ReadLines = {}
       ELSE /\ gBootArgs.commandLine \in ReadLines
            /\ \A i \in ReadLines : i <= gBootArgs.commandLine
    /\ pc \in PastRamdisk => ramdisk = RamdiskSource(env)

\* Command c is the last thread command among the first n.
LastThread(c, n) ==
    /\ c \in 1 .. n
    /\ env.commands[c].cmd = "unixthread"
    /\ \A d \in 1 .. n : env.commands[d].cmd = "unixthread" => d <= c

\* The region starts where it was set up, the kernel at the region's start,
\* and entry is what the last thread command read so far says.
Entered ==
    /\ pc \in {"kernel_image", "measure"} => region.pos = region.base
    /\ pc \in PastMeasure => kernelBase = region.base
    /\ pc \in {"start", "core", "atags", "darwin", "kernel_image", "measure"} =>
          entry = Word /\ reserved = <<>>
    /\ pc = "map" =>
          /\ cursor \in 1 .. (Len(env.commands) + 1)
          /\ entry # Word => \E c \in 1 .. (cursor - 1) :
                                LastThread(c, cursor - 1)
                                /\ entry = env.commands[c].vmaddr
          /\ entry = Word => \A c \in 1 .. (cursor - 1) :
                                env.commands[c].cmd # "unixthread"
    /\ pc \in PastMap =>
          /\ entry # Word => \E c \in 1 .. Len(env.commands) :
                                LastThread(c, Len(env.commands))
                                /\ entry = LoadAddr(env.commands[c])
          /\ entry = Word => \A c \in 1 .. Len(env.commands) :
                                env.commands[c].cmd # "unixthread"
    /\ pc = "kernel" => entry # Word

HandoffInv ==
    /\ TypeOK
    /\ Checked
    /\ Measured
    /\ Alive /\ LinesFit(env) /\ TerminatedList(env) => Counted
    /\ Entered

-----------------------------------------------------------------------------

\* The image get_image3 finds is the first of its type.
LEMMA FoundImage ==
  ASSUME TypeOK, NEW type, NEW i \in GetImage3(type)
  PROVE  i \in DOMAIN env.images /\ FirstOfType(i, type)
  BY DEF GetImage3, FirstOfType

LEMMA HandoffInit == Init => HandoffInv
<1> SUFFICES ASSUME Init PROVE HandoffInv
  OBVIOUS
<1> USE DEF PastRamdisk, PastTree, PastMap, PastMeasure, PastKernel, PastTags
<1>1. TypeOK
  BY InitType
<1>2. /\ pc = "start" /\ flags = {} /\ cursor = 1 /\ entry = Word
      /\ reserved = <<>> /\ gBootArgs = EmptyBootArgs
      /\ ramdisk = [base |-> 0, size |-> 0]
  BY DEF Init
<1>3. TagsRead = 0 /\ TagsRead \in 0 .. Len(env.tags)
  BY <1>1, <1>2 DEF TagsRead, TypeOK, EnvType
<1>4. ReadTags("mem") = {} /\ ReadTags("initrd2") = {} /\ ReadLines = {}
  BY <1>3 DEF ReadTags, ReadLines
<1>5. Counted
  BY <1>2, <1>3, <1>4 DEF Counted, Seen, EmptyBootArgs
<1> QED
  BY <1>1, <1>2, <1>5 DEF HandoffInv, Checked, Measured, Entered

\* The steps that read tags leave everything else as it is; those after them
\* leave what was read from the tags.
LEMMA CheckedStep ==
  ASSUME TypeOK, Checked, [Next]_vars
  PROVE  Checked'
<1> USE DEF PastRamdisk, PastTree, PastMap, PastMeasure, PastKernel, PastTags,
            Running, Checked, FirstOfType
<1>1. CASE Start
  BY <1>1 DEF Start, At, found
<1>2. CASE CheckMachine
  BY <1>2 DEF CheckMachine, At, found
<1>3. CASE PopulateMemory
  <2>1. /\ pc = "atags" /\ pc' \in {"atags", "halted"} /\ env' = env
        /\ cursor \in DOMAIN env.tags /\ env.tags[cursor].tag = "mem"
    BY <1>3, EnvFacts DEF PopulateMemory, AtTag, At, TypeOK, Current
  <2>2. /\ Current.start \in Addr /\ Current.size \in Addr
    BY <1>3, TagFacts DEF PopulateMemory, TagKind
  <2>3. Minus(Plus(Current.start, Current.size), HeapSize) \in Addr
    BY <2>2, AddrArithmetic, ConstantTypes
  <2>4. "is_malloc_inited" \in flags' => heap' \in Addr
    BY <1>3, <2>3 DEF PopulateMemory
  <2> QED
    BY <2>1, <2>4
<1>4. CASE PopulateCommandLine
  BY <1>4 DEF PopulateCommandLine, AtTag, At
<1>5. CASE PopulateRamdisk
  BY <1>5 DEF PopulateRamdisk, AtTag, At
<1>6. CASE SkipTag
  BY <1>6 DEF SkipTag, AtTag, At, found
<1>7. CASE LastTag
  BY <1>7 DEF LastTag, At, found
<1>8. CASE StartDarwin
  BY <1>8 DEF StartDarwin, At, found
<1>9. CASE PrepareKernel
  BY <1>9, FoundImage DEF PrepareKernel, At, found
<1>10. CASE NoKernel
  BY <1>10 DEF NoKernel, At, found
<1>11. CASE MeasureCommand
  BY <1>11 DEF MeasureCommand, At, found
<1>12. CASE ReserveKernel
  BY <1>12 DEF ReserveKernel, At, found
<1>13. CASE MapSegment
  BY <1>13 DEF MapSegment, At, found
<1>14. CASE MapThread \/ MapOther \/ MapDone
  BY <1>14 DEF MapThread, MapOther, MapDone, At, found
<1>15. CASE PrepareDeviceTree
  BY <1>15, FoundImage DEF PrepareDeviceTree, At, LostInput, found
<1>16. CASE PrepareRamdisk
  BY <1>16, FoundImage DEF PrepareRamdisk, At
<1>17. CASE NoRamdisk
  BY <1>17 DEF NoRamdisk, At, found
<1>18. CASE \/ FlattenDeviceTree \/ FinalizeBootArgs \/ Jump
            \/ LoseControl \/ SearchAstray
  BY <1>18 DEF FlattenDeviceTree, FinalizeBootArgs, Jump, LoseControl,
               SearchAstray, Searching, At, found
<1>19. CASE UNCHANGED vars
  BY <1>19 DEF vars
<1> QED
  BY <1>1, <1>2, <1>3, <1>4, <1>5, <1>6, <1>7, <1>8, <1>9, <1>10, <1>11,
     <1>12, <1>13, <1>14, <1>15, <1>16, <1>17, <1>18, <1>19 DEF Next

LEMMA EnvFixed == [Next]_vars => env' = env
  BY DEF Next, Start, CheckMachine, PopulateMemory, PopulateCommandLine,
         PopulateRamdisk, SkipTag, LastTag, StartDarwin, PrepareKernel,
         NoKernel, MeasureCommand, ReserveKernel, MapSegment, MapThread,
         MapOther, MapDone, PrepareDeviceTree, PrepareRamdisk, NoRamdisk,
         FlattenDeviceTree, FinalizeBootArgs, Jump, LoseControl, SearchAstray,
         vars

\* The sums of the segments' sizes satisfy the equations that define them.
LEMMA VmSizesDef ==
  ASSUME NEW commands \in Seq(LoadCommand)
  PROVE  /\ VmSizes(commands) \in [0 .. Len(commands) -> Addr]
         /\ VmSizes(commands)[0] = 0
         /\ \A k \in 1 .. Len(commands) :
               VmSizes(commands)[k] =
                 IF commands[k].cmd = "segment"
                 THEN Plus(VmSizes(commands)[k - 1], commands[k].vmsize)
                 ELSE VmSizes(commands)[k - 1]
<1> DEFINE N == Len(commands)
           Next1(t, k) == IF commands[k].cmd = "segment"
                          THEN Plus(t, commands[k].vmsize) ELSE t
           F == [k \in 1 .. N |-> [t \in Addr |-> Next1(t, k)]]
           Sum(f) == [k \in 0 .. N |-> IF k = 0 THEN 0
                        ELSE IF commands[k].cmd = "segment"
                             THEN Plus(f[k - 1], commands[k].vmsize)
                             ELSE f[k - 1]]
<1>1. N \in Nat /\ 0 \in Addr
  BY ConstantTypes
<1>2. \A t \in Addr, k \in 1 .. N : Next1(t, k) \in Addr
  <2>1. \A k \in 1 .. N : commands[k].vmsize \in Addr
    <3>1. \A k \in 1 .. N : commands[k] \in LoadCommand
      OBVIOUS
    <3> QED
      BY <3>1 DEF LoadCommand
  <2> QED
    BY <2>1, AddrArithmetic
<1>3. F \in [1 .. N -> [Addr -> Addr]]
  BY <1>2
<1>4. PICK f \in [0 .. N -> Addr] : Follows(f, 0, F, N)
  <2> HIDE DEF F, N
  <2> QED
    BY <1>1, <1>3, Recursion
<1>5. f[0] = 0 /\ \A k \in 1 .. N : f[k] = Next1(f[k - 1], k)
  <2>1. \A k \in 1 .. N : f[k - 1] \in Addr
    OBVIOUS
  <2> QED
    BY <1>4, <2>1 DEF Follows
<1>6. f = Sum(f)
  <2>1. \A k \in 0 .. N : f[k] = Sum(f)[k]
    BY <1>5
  <2> QED
    BY <2>1
<1>7. VmSizes(commands) = CHOOSE g : g = Sum(g)
  BY DEF VmSizes
<1>8. VmSizes(commands) = Sum(VmSizes(commands))
  <2> HIDE DEF Sum
  <2> QED
    BY <1>6, <1>7
<1> DEFINE g == VmSizes(commands)
<1>9. /\ g[0] = 0
      /\ \A k \in 1 .. N : g[k] = Next1(g[k - 1], k)
      /\ g = [k \in 0 .. N |-> g[k]]
  <2> HIDE DEF g
  <2>1. g = Sum(g)
    BY <1>8 DEF g
  <2> QED
    BY <1>1, <2>1
<1>10. \A k \in 0 .. N : g[k] \in Addr
  <2> DEFINE S == {k \in 0 .. N : g[k] \in Addr}
  <2>1. 0 \in S
    BY <1>1, <1>9
  <2>2. ASSUME NEW k \in 0 .. (N - 1), k \in S PROVE k + 1 \in S
    <3>1. k + 1 \in 1 .. N /\ (k + 1) - 1 = k /\ k + 1 \in 0 .. N
      BY <1>1
    <3>2. g[k + 1] = Next1(g[k], k + 1)
      BY <1>9, <3>1
    <3> QED
      BY <1>2, <2>2, <3>1, <3>2
  <2>3. \A k \in 0 .. N : k \in S
    <3> HIDE DEF S, N
    <3> QED
      BY <1>1, <2>1, <2>2, BoundedInduction
  <2> QED
    BY <2>3
<1> QED
  BY <1>9, <1>10

\* A further reservation leaves the first one as it is.
LEMMA ReserveKeepsFirst ==
  ASSUME TypeOK, reserved # <<>>, NEW size, NEW align, Reserve(size, align)
  PROVE  reserved' # <<>> /\ reserved'[1] = reserved[1]
<1> DEFINE r == [start |-> ReserveStart(region.pos, align), size |-> size,
                 fits |-> ReserveFits(region.pos, size, align)]
<1>1. reserved \in Seq(Reservation) /\ reserved' = Append(reserved, r)
  BY DEF TypeOK, Reserve
<1>2. Len(reserved) >= 1
  BY <1>1
<1> HIDE DEF r
<1> QED
  BY <1>1, <1>2

\* The steps after the kernel's reservation, as far as it is concerned.
LEMMA LaterReservations ==
  ASSUME TypeOK, reserved # <<>>,
         PrepareRamdisk \/ FlattenDeviceTree \/ FinalizeBootArgs
  PROVE  reserved' # <<>> /\ reserved'[1] = reserved[1]
<1>1. CASE PrepareRamdisk
  <2>1. \/ reserved' = reserved
        \/ \E size \in Addr : Reserve(size, RamdiskAlign)
    <3>1. PICK i \in GetImage3("rdsk") :
            LET source == IF env.images[i].data
                          THEN [base |-> DataAt(env, i),
                                size |-> env.images[i].size]
                          ELSE ramdisk
            IN  IF source.base = 0
                THEN UNCHANGED <<mem, rangeRAMDisk, region, reserved>>
                ELSE Reserve(source.size, RamdiskAlign)
      BY <1>1 DEF PrepareRamdisk
    <3>2. env.images[i].size \in Addr /\ ramdisk.size \in Addr
      BY <3>1, EnvFacts DEF GetImage3, Image, Range0, TypeOK
    <3> QED
      BY <3>1, <3>2
  <2> QED
    BY <2>1, ReserveKeepsFirst
<1>2. CASE FlattenDeviceTree
  BY <1>2, ReserveKeepsFirst DEF FlattenDeviceTree
<1>3. CASE FinalizeBootArgs
  BY <1>3, ReserveKeepsFirst DEF FinalizeBootArgs
<1> QED
  BY <1>1, <1>2, <1>3

LEMMA MeasuredStep ==
  ASSUME TypeOK, Measured, Entered, [Next]_vars
  PROVE  Measured'
<1> USE DEF PastRamdisk, PastTree, PastMap, PastMeasure, Running
<1>1. /\ env.commands \in Seq(LoadCommand) /\ Len(env.commands) \in Nat
      /\ env' = env
  BY EnvFixed DEF TypeOK, EnvType
<1>2. CASE \/ Start \/ CheckMachine \/ PopulateMemory \/ PopulateCommandLine
           \/ PopulateRamdisk \/ SkipTag \/ LastTag \/ StartDarwin \/ NoKernel
  <2>1. pc' \notin PastMeasure /\ pc' # "measure"
    BY <1>2 DEF Start, CheckMachine, PopulateMemory, PopulateCommandLine,
                PopulateRamdisk, SkipTag, LastTag, StartDarwin, NoKernel,
                AtTag, At
  <2> QED
    BY <2>1 DEF Measured
<1>3. CASE PrepareKernel
  BY <1>1, <1>3, VmSizesDef DEF PrepareKernel, At, Measured
<1>4. CASE MeasureCommand
  <2>1. /\ pc = "measure" /\ pc' = "measure" /\ cursor' = cursor + 1
        /\ cursor \in 1 .. Len(env.commands)
        /\ kernelSize' = IF env.commands[cursor].cmd = "segment"
                         THEN Plus(kernelSize, env.commands[cursor].vmsize)
                         ELSE kernelSize
    BY <1>1, <1>4 DEF MeasureCommand, At, Command, Measured
  <2>2. kernelSize = VmSizes(env.commands)[cursor - 1]
    BY <2>1 DEF Measured
  <2>3. kernelSize' = VmSizes(env.commands)[cursor]
    BY <1>1, <2>1, <2>2, VmSizesDef
  <2>4. cursor' \in 1 .. (Len(env.commands) + 1) /\ cursor' - 1 = cursor
    BY <1>1, <2>1
  <2> QED
    BY <1>1, <2>1, <2>3, <2>4 DEF Measured
<1>5. CASE ReserveKernel
  <2>1. pc = "measure" /\ pc' \in {"map", "halted"}
        /\ cursor > Len(env.commands) /\ reserved = <<>>
    BY <1>5 DEF ReserveKernel, At, Entered
  <2>2. kernelSize = VmSize(env.commands)
    BY <1>1, <2>1 DEF Measured, VmSize
  <2>3. CASE pc' = "map"
    <3>1. /\ kernelSize > 0 /\ Reserve(kernelSize, 0)
          /\ kernelBase' = ReserveStart(region.pos, 0)
      BY <1>5, <2>3 DEF ReserveKernel
    <3>2. reserved' = << [start |-> ReserveStart(region.pos, 0),
                          size |-> kernelSize,
                          fits |-> ReserveFits(region.pos, kernelSize, 0)] >>
      BY <2>1, <3>1 DEF Reserve
    <3> QED
      BY <1>1, <2>2, <2>3, <3>1, <3>2 DEF Measured
  <2> QED
    BY <2>1, <2>3 DEF Measured
<1>6. CASE \/ MapSegment \/ MapThread \/ MapOther \/ MapDone
           \/ PrepareDeviceTree \/ NoRamdisk
  BY <1>1, <1>6 DEF MapSegment, MapThread, MapOther, MapDone,
                    PrepareDeviceTree, NoRamdisk, At, placement, Measured
<1>7. CASE PrepareRamdisk \/ FlattenDeviceTree \/ FinalizeBootArgs
  <2>1. pc \in PastMeasure /\ pc' # "measure" /\ kernelBase' = kernelBase
    BY <1>7 DEF PrepareRamdisk, FlattenDeviceTree, FinalizeBootArgs, At
  <2> QED
    BY <1>1, <1>7, <2>1, LaterReservations DEF Measured
<1>8. CASE Jump \/ LoseControl \/ SearchAstray
  BY <1>1, <1>8 DEF Jump, LoseControl, SearchAstray, Searching, At, placement,
                    Measured
<1>9. CASE UNCHANGED vars
  BY <1>1, <1>9 DEF vars, Measured
<1> QED
  BY <1>2, <1>3, <1>4, <1>5, <1>6, <1>7, <1>8, <1>9 DEF Next

LEMMA EnteredStep ==
  ASSUME TypeOK, Entered, [Next]_vars
  PROVE  Entered'
<1> USE DEF PastRamdisk, PastTree, PastMap, PastMeasure, Running
<1>1. /\ env.commands \in Seq(LoadCommand) /\ Len(env.commands) \in Nat
      /\ env' = env /\ cursor \in Nat \ {0}
      /\ \A c \in 1 .. Len(env.commands) :
            env.commands[c].vmaddr \in Addr /\ env.commands[c].vmaddr # Word
  <2>1. env.commands \in Seq(LoadCommand) /\ env' = env /\ cursor \in Nat \ {0}
    BY EnvFixed DEF TypeOK, EnvType
  <2>2. \A c \in 1 .. Len(env.commands) : env.commands[c] \in LoadCommand
    BY <2>1
  <2>3. Word \notin Addr
    BY WordAssumption DEF Addr
  <2> QED
    BY <2>1, <2>2, <2>3 DEF LoadCommand
<1>2. CASE \/ Start \/ CheckMachine \/ PopulateMemory \/ PopulateCommandLine
           \/ PopulateRamdisk \/ SkipTag \/ LastTag \/ NoKernel
  <2>1. /\ pc \in {"start", "core", "atags", "kernel_image"}
        /\ pc' \in {"core", "atags", "darwin", "halted"}
        /\ UNCHANGED <<entry, reserved>>
    BY <1>2 DEF Start, CheckMachine, PopulateMemory, PopulateCommandLine,
                PopulateRamdisk, SkipTag, LastTag, NoKernel,
                AtTag, At, placement, handoff
  <2> QED
    BY <2>1 DEF Entered
<1>3. CASE StartDarwin
  BY <1>3 DEF StartDarwin, At, handoff, Entered
<1>4. CASE PrepareKernel \/ MeasureCommand
  <2>1. /\ pc \in {"kernel_image", "measure"}
        /\ pc' \in {"halted", "undefined", "measure"}
        /\ UNCHANGED <<entry, reserved, region>>
    BY <1>4 DEF PrepareKernel, MeasureCommand, At, handoff
  <2> QED
    BY <2>1 DEF Entered
<1>5. CASE ReserveKernel
  <2>1. /\ pc = "measure" /\ pc' \in {"map", "halted"} /\ cursor' = 1
        /\ entry' = entry
        /\ pc' = "map" => /\ kernelBase' = ReserveStart(region.pos, 0)
                          /\ Reserve(kernelSize, 0)
    BY <1>5 DEF ReserveKernel, At, handoff
  <2>2. pc' = "map" => kernelBase' = region'.base
    BY <2>1 DEF Reserve, ReserveStart, Entered, TypeOK
  <2> QED
    BY <1>1, <2>1, <2>2 DEF Entered
<1>6. CASE MapSegment \/ MapOther
  <2>1. /\ pc = "map" /\ pc' = "map" /\ cursor' = cursor + 1
        /\ cursor \in 1 .. Len(env.commands)
        /\ env.commands[cursor].cmd # "unixthread"
        /\ UNCHANGED <<entry, region, kernelBase, reserved>>
    BY <1>1, <1>6 DEF MapSegment, MapOther, At, Command, placement, handoff
  <2>2. ASSUME NEW c \in 1 .. (cursor - 1), LastThread(c, cursor - 1)
        PROVE  LastThread(c, cursor)
    BY <2>1, <2>2, <1>1 DEF LastThread
  <2>3. entry = Word => \A c \in 1 .. cursor :
                           env.commands[c].cmd # "unixthread"
    <3>1. \A c \in 1 .. cursor : c \in 1 .. (cursor - 1) \/ c = cursor
      BY <2>1
    <3> QED
      BY <2>1, <3>1 DEF Entered
  <2>4. entry # Word => \E c \in 1 .. cursor :
                           LastThread(c, cursor) /\ entry = env.commands[c].vmaddr
    <3>1. \A c \in 1 .. (cursor - 1) : c \in 1 .. cursor
      BY <2>1
    <3> QED
      BY <2>1, <2>2, <3>1 DEF Entered
  <2>5. cursor' - 1 = cursor /\ cursor' \in 1 .. (Len(env.commands) + 1)
    BY <1>1, <2>1
  <2> QED
    BY <1>1, <2>1, <2>3, <2>4, <2>5 DEF Entered, LastThread
<1>7. CASE MapThread
  <2>1. /\ pc = "map" /\ pc' = "map" /\ cursor' = cursor + 1
        /\ cursor \in 1 .. Len(env.commands)
        /\ env.commands[cursor].cmd = "unixthread"
        /\ entry' = env.commands[cursor].vmaddr
        /\ UNCHANGED <<region, kernelBase, reserved>>
    BY <1>1, <1>7 DEF MapThread, At, Command, placement
  <2>2. LastThread(cursor, cursor) /\ cursor \in 1 .. cursor
    BY <2>1 DEF LastThread
  <2>3. cursor' - 1 = cursor /\ cursor' \in 1 .. (Len(env.commands) + 1)
    BY <1>1, <2>1
  <2>4. entry' # Word
    BY <1>1, <2>1
  <2> QED
    BY <1>1, <2>1, <2>2, <2>3, <2>4 DEF Entered, LastThread
<1>8. CASE MapDone
  <2>1. /\ pc = "map" /\ pc' = "devicetree" /\ cursor = Len(env.commands) + 1
        /\ entry' = IF entry = Word THEN Word ELSE VToPhys(entry)
        /\ UNCHANGED <<region, kernelBase, reserved>>
    BY <1>1, <1>8 DEF MapDone, At, placement, Entered
  <2>2. cursor - 1 = Len(env.commands) /\ kernelBase = region.base
    BY <1>1, <2>1 DEF Entered
  <2>3. ASSUME NEW c \in 1 .. Len(env.commands), entry = env.commands[c].vmaddr
        PROVE  /\ entry' = LoadAddr(env.commands[c])'
               /\ entry' # Word
    <3>1. Minus(entry, KernelVMAddr) \in Int /\ region.base \in Int
      BY <1>1, <2>3, MinusType, AddrIsNat, ConstantTypes DEF TypeOK
    <3>2. entry' = Plus(Minus(entry, KernelVMAddr), region.base)
      BY <1>1, <2>1, <2>3 DEF VToPhys
    <3>3. entry' = Plus(region.base, Minus(entry, KernelVMAddr))
      BY <3>1, <3>2 DEF Plus
    <3>4. entry' \in Addr
      BY <3>1, <3>2, PlusType
    <3> QED
      BY <1>1, <2>1, <2>2, <2>3, <3>3, <3>4, WordAssumption DEF LoadAddr, Addr
  <2>4. CASE entry = Word
    <3>1. \A c \in 1 .. Len(env.commands) : env.commands[c].cmd # "unixthread"
      BY <2>1, <2>2, <2>4 DEF Entered
    <3> QED
      BY <1>1, <2>1, <2>2, <2>4, <3>1 DEF Entered
  <2>5. CASE entry # Word
    <3>1. PICK c \in 1 .. Len(env.commands) :
             LastThread(c, Len(env.commands)) /\ entry = env.commands[c].vmaddr
      BY <2>1, <2>2, <2>5 DEF Entered
    <3>2. entry' = LoadAddr(env.commands[c])' /\ entry' # Word
      BY <2>3, <3>1
    <3> QED
      BY <1>1, <2>1, <2>2, <3>1, <3>2 DEF Entered, LastThread
  <2> QED
    BY <2>4, <2>5
<1>9. CASE \/ PrepareDeviceTree \/ PrepareRamdisk \/ NoRamdisk
           \/ FlattenDeviceTree \/ FinalizeBootArgs \/ Jump
  <2>1. /\ pc \in PastMap \ {"kernel"} /\ pc' \in PastMap \cup {"halted"}
        /\ UNCHANGED <<entry, kernelBase>> /\ region'.base = region.base
        /\ pc' = "kernel" => entry # Word
    BY <1>9 DEF PrepareDeviceTree, PrepareRamdisk, NoRamdisk, Reserve,
                FlattenDeviceTree, FinalizeBootArgs, Jump, At, LostInput,
                placement, handoff, TypeOK
  <2> QED
    BY <1>1, <2>1 DEF Entered, LastThread, LoadAddr
<1>10. CASE LoseControl \/ SearchAstray
  BY <1>10 DEF LoseControl, SearchAstray, Searching, Entered
<1>11. CASE UNCHANGED vars
  BY <1>11 DEF vars, Entered, LastThread, LoadAddr
<1> QED
  BY <1>2, <1>3, <1>4, <1>5, <1>6, <1>7, <1>8, <1>9, <1>10, <1>11 DEF Next

\* The first image of a type and the first tag of a kind, as the properties
\* name them.
LEMMA FirstImageIs ==
  ASSUME TypeOK, NEW type, NEW i \in DOMAIN env.images, FirstOfType(i, type)
  PROVE  FirstImage(env, type) = i /\ i # 0
<1> DEFINE S == {k \in DOMAIN env.images : env.images[k].type = type}
<1>1. DOMAIN env.images = 1 .. Len(env.images) /\ Len(env.images) \in Nat
  BY DEF TypeOK, EnvType
<1>2. i \in S /\ \A j \in S : i <= j
  <2>1. \A j \in S : j \in Nat /\ j >= 1
    BY <1>1
  <2>2. \A j \in S : j < i => j \in 1 .. (i - 1)
    BY <1>1, <2>1
  <2> QED
    BY <1>1, <2>1, <2>2 DEF FirstOfType
<1>3. \A k \in S : (\A j \in S : k <= j) => k = i
  BY <1>1, <1>2
<1>4. FirstImage(env, type) = CHOOSE k \in S : \A j \in S : k <= j
  BY <1>2 DEF FirstImage
<1> HIDE DEF S
<1> QED
  BY <1>1, <1>2, <1>3, <1>4

LEMMA FirstTagIs ==
  ASSUME TypeOK, NEW kind, NEW i \in DOMAIN env.tags, FirstOfKind(i, kind)
  PROVE  FirstTag(env, kind) = i /\ i # 0
<1> DEFINE S == {k \in DOMAIN env.tags : env.tags[k].tag = kind}
<1>1. DOMAIN env.tags = 1 .. Len(env.tags) /\ Len(env.tags) \in Nat
  BY DEF TypeOK, EnvType
<1>2. i \in S /\ \A j \in S : i <= j
  <2>1. \A j \in S : j \in Nat /\ j >= 1
    BY <1>1
  <2>2. \A j \in S : j < i => j \in 1 .. (i - 1)
    BY <1>1, <2>1
  <2> QED
    BY <1>1, <2>1, <2>2 DEF FirstOfKind
<1>3. \A k \in S : (\A j \in S : k <= j) => k = i
  BY <1>1, <1>2
<1>4. FirstTag(env, kind) = CHOOSE k \in S : \A j \in S : k <= j
  BY <1>2 DEF FirstTag
<1> HIDE DEF S
<1> QED
  BY <1>1, <1>2, <1>3, <1>4

LEMMA FirstTagFound ==
  ASSUME TypeOK, NEW kind
  PROVE  IF \E i \in DOMAIN env.tags : env.tags[i].tag = kind
         THEN \E i \in DOMAIN env.tags :
                 FirstOfKind(i, kind) /\ FirstTag(env, kind) = i
         ELSE FirstTag(env, kind) = 0
<1> DEFINE S == {k \in DOMAIN env.tags : env.tags[k].tag = kind}
<1>1. DOMAIN env.tags = 1 .. Len(env.tags) /\ Len(env.tags) \in Nat
  BY DEF TypeOK, EnvType
<1>2. CASE S = {}
  BY <1>2 DEF FirstTag
<1>3. CASE S # {}
  <2>1. S \in SUBSET Nat
    BY <1>1
  <2>2. PICK i \in S : \A j \in S : i <= j
    <3> HIDE DEF S
    <3> QED
      BY <1>3, <2>1, Least
  <2>3. \A j \in 1 .. (i - 1) : j \in DOMAIN env.tags /\ ~(i <= j)
    BY <1>1
  <2>4. FirstOfKind(i, kind)
    BY <2>2, <2>3 DEF FirstOfKind
  <2> QED
    BY <2>4, FirstTagIs
<1> QED
  BY <1>2, <1>3

\* Reading a tag adds it to those of its kind.
LEMMA TagRead ==
  ASSUME TypeOK, Counted, TerminatedList(env), env' = env,
         NEW kind \in TagKind, AtTag(kind), pc' = "atags"
  PROVE  /\ cursor \in 1 .. Len(env.tags) /\ TagsRead = cursor - 1
         /\ TagsRead' = cursor
         /\ cursor \notin ReadTags(kind)
         /\ \A k : ReadTags(k)' = IF k = kind THEN ReadTags(k) \cup {cursor}
                                   ELSE ReadTags(k)
         /\ ReadLines' = IF kind = "cmdline" /\ env.tags[cursor].size > 0
                         THEN ReadLines \cup {cursor} ELSE ReadLines
         /\ Current = env.tags[cursor] /\ env.tags[cursor].tag = kind
<1>1. /\ cursor \in 1 .. Len(env.tags) /\ Len(env.tags) \in Nat
      /\ env.tags[cursor].tag = kind
      /\ Current = env.tags[cursor] /\ Current \in Tag
      /\ pc = "atags"
      /\ cursor' = cursor + env.tags[cursor].words
  BY TagFacts, EnvFacts DEF AtTag, At, Current, TypeOK, EnvType
<1>2. cursor' = cursor + 1
  BY <1>1 DEF Tag, TerminatedList
<1>3. pc \notin PastTags /\ pc' \notin PastTags
  BY <1>1 DEF PastTags, PastKernel, PastMeasure, PastMap
<1>4. TagsRead = cursor - 1 /\ TagsRead' = cursor
  BY <1>1, <1>2, <1>3 DEF TagsRead
<1>5. /\ 1 .. cursor = (1 .. (cursor - 1)) \cup {cursor}
      /\ cursor \notin 1 .. (cursor - 1)
  BY <1>1
<1>6. \A k : ReadTags(k)' = IF k = kind THEN ReadTags(k) \cup {cursor}
                            ELSE ReadTags(k)
  BY <1>1, <1>4, <1>5 DEF ReadTags
<1>7. cursor \notin ReadTags(kind)
  BY <1>4, <1>5 DEF ReadTags
<1>8. ReadLines' = IF kind = "cmdline" /\ env.tags[cursor].size > 0
                   THEN ReadLines \cup {cursor} ELSE ReadLines
  BY <1>6, <1>1 DEF ReadLines
<1> QED
  BY <1>1, <1>4, <1>6, <1>7, <1>8

LEMMA CountedStep ==
  ASSUME TypeOK, [Next]_vars, TerminatedList(env), LinesFit(env), Alive',
         Alive => Counted
  PROVE  Counted'
<1> USE DEF PastRamdisk, PastTree, PastMap, PastMeasure, PastKernel, PastTags
<1>1. env' = env /\ env.tags \in Seq(Tag) /\ Len(env.tags) \in Nat
      /\ cursor \in Nat \ {0}
      /\ DOMAIN env.tags = 1 .. Len(env.tags)
  BY EnvFixed DEF TypeOK, EnvType
<1>2. Alive /\ Counted
  BY DEF Alive, Next, Start, CheckMachine, PopulateMemory, PopulateCommandLine,
         PopulateRamdisk, SkipTag, LastTag, StartDarwin, PrepareKernel,
         NoKernel, MeasureCommand, ReserveKernel, MapSegment, MapThread,
         MapOther, MapDone, PrepareDeviceTree, PrepareRamdisk, NoRamdisk,
         FlattenDeviceTree, FinalizeBootArgs, Jump, LoseControl, SearchAstray,
         Searching, vars, AtTag,
         At, Running
<1>3. CASE Start \/ CheckMachine
  <2>1. /\ pc \in {"start", "core"} /\ pc' \in {"core", "atags"}
        /\ UNCHANGED <<cursor, flags, heap, ramdisk>>
        /\ gBootArgs' = gBootArgs \/ gBootArgs' = EmptyBootArgs
        /\ pc' = "atags" => pc = "core"
    BY <1>3 DEF Start, CheckMachine, At, found, Alive
  <2>2. cursor = 1 /\ TagsRead = 0 /\ TagsRead' = 0
    BY <1>2, <2>1 DEF Counted, TagsRead
  <2>3. /\ ReadTags("mem") = {} /\ ReadTags("initrd2") = {} /\ ReadLines = {}
        /\ ReadTags("mem")' = {} /\ ReadTags("initrd2")' = {} /\ ReadLines' = {}
    BY <2>2 DEF ReadTags, ReadLines
  <2>4. gBootArgs.commandLine = 0 /\ gBootArgs'.commandLine = 0
    BY <1>2, <2>1, <2>3 DEF Counted, EmptyBootArgs
  <2> QED
    BY <1>1, <1>2, <2>1, <2>2, <2>3, <2>4 DEF Counted, Seen
<1>4. CASE PopulateMemory
  <2>1. /\ pc = "atags" /\ pc' = "atags" /\ AtTag("mem") /\ ramdisk' = ramdisk
        /\ Seen("is_first_ramdisk")' = Seen("is_first_ramdisk")
        /\ Seen("is_first_region")'
        /\ gBootArgs'.commandLine = gBootArgs.commandLine
    <3>1. pc = "atags" /\ pc' = "atags" /\ AtTag("mem") /\ ramdisk' = ramdisk
      BY <1>4 DEF PopulateMemory, AtTag, At, Alive
    <3>2. CASE Seen("is_first_region")
      BY <1>4, <3>1, <3>2 DEF PopulateMemory, Seen
    <3>3. CASE ~Seen("is_first_region")
      <4>1. flags' = flags \cup {"is_first_region", "is_malloc_inited"}
        BY <1>4, <3>1, <3>3 DEF PopulateMemory
      <4>2. gBootArgs' = [gBootArgs EXCEPT !.physBase = Current.start,
                                           !.memSize = Current.size]
        BY <1>4, <3>3 DEF PopulateMemory
      <4> QED
        BY <3>1, <4>1, <4>2 DEF Seen, TypeOK, BootArgs
    <3> QED
      BY <3>2, <3>3
  <2>2. /\ cursor \in 1 .. Len(env.tags) /\ TagsRead' = cursor
        /\ ReadTags("mem")' = ReadTags("mem") \cup {cursor}
        /\ ReadTags("initrd2")' = ReadTags("initrd2") /\ ReadLines' = ReadLines
        /\ Current = env.tags[cursor] /\ TagsRead = cursor - 1
        /\ env.tags[cursor].tag = "mem"
    BY <1>1, <1>2, <2>1, TagRead DEF TagKind
  <2>3. \A i \in ReadTags("mem") : i \in 1 .. (cursor - 1) /\ env.tags[i].tag = "mem"
    BY <2>2 DEF ReadTags
  <2>4. ASSUME NEW i \in ReadTags("mem")', FirstOfKind(i, "mem")
        PROVE  /\ gBootArgs'.physBase = env.tags[i].start
               /\ gBootArgs'.memSize = env.tags[i].size
               /\ heap' = Minus(Plus(env.tags[i].start, env.tags[i].size), HeapSize)
    <3>1. CASE Seen("is_first_region")
      <4>1. ReadTags("mem") # {} /\ UNCHANGED <<gBootArgs, heap>>
        BY <1>2, <1>4, <3>1 DEF Counted, PopulateMemory
      <4>2. i # cursor
        BY <2>3, <2>4, <4>1 DEF FirstOfKind
      <4> QED
        BY <1>2, <2>2, <2>4, <4>1, <4>2 DEF Counted
    <3>2. CASE ~Seen("is_first_region")
      <4>1. i = cursor
        BY <1>2, <2>2, <2>4, <3>2 DEF Counted
      <4> QED
        BY <1>4, <2>1, <2>2, <3>2, <4>1 DEF PopulateMemory, TypeOK, BootArgs
    <3> QED
      BY <3>1, <3>2
  <2>5. \A i : FirstOfKind(i, "mem")' = FirstOfKind(i, "mem")
                /\ FirstOfKind(i, "initrd2")' = FirstOfKind(i, "initrd2")
    BY <1>1 DEF FirstOfKind
  <2>6. TagsRead' \in 0 .. Len(env.tags) /\ ReadTags("mem")' # {}
    <3>1. cursor \in 0 .. Len(env.tags)
      BY <1>1, <2>2
    <3> QED
      BY <2>2, <3>1
  <2> HIDE DEF PastRamdisk, PastTree, PastMap, PastMeasure, PastKernel, PastTags
  <2>7. pc \notin PastRamdisk /\ pc' \notin PastRamdisk
    BY <2>1 DEF PastRamdisk, PastTree, PastMap
  <2> QED
    BY <1>1, <1>2, <2>1, <2>2, <2>4, <2>5, <2>6, <2>7 DEF Counted
<1>5. CASE PopulateCommandLine
  <2>1. /\ pc = "atags" /\ pc' = "atags" /\ AtTag("cmdline")
        /\ UNCHANGED <<ramdisk, heap>>
        /\ gBootArgs'.physBase = gBootArgs.physBase
        /\ gBootArgs'.memSize = gBootArgs.memSize
        /\ gBootArgs'.commandLine = IF Current.size = 0 THEN gBootArgs.commandLine
                                    ELSE cursor
    BY <1>5 DEF PopulateCommandLine, AtTag, At, Alive, TypeOK, BootArgs
  <2>2. /\ cursor \in 1 .. Len(env.tags) /\ TagsRead' = cursor
        /\ ReadTags("mem")' = ReadTags("mem")
        /\ ReadTags("initrd2")' = ReadTags("initrd2")
        /\ ReadLines' = IF env.tags[cursor].size > 0
                        THEN ReadLines \cup {cursor} ELSE ReadLines
        /\ Current = env.tags[cursor] /\ TagsRead = cursor - 1
        /\ env.tags[cursor].tag = "cmdline"
    BY <1>1, <1>2, <2>1, TagRead DEF TagKind
  <2>3. flags' = flags
    <3>1. Current.size < BootLineLength
      BY <1>1, <2>2 DEF LinesFit
    <3> QED
      BY <1>5, <3>1 DEF PopulateCommandLine
  <2>4. Current.size \in Nat
    BY <2>1, TagFacts, AddrIsNat DEF TagKind
  <2>5. \A i \in ReadLines : i \in 1 .. (cursor - 1)
    BY <2>2 DEF ReadLines, ReadTags
  <2>6. IF gBootArgs'.commandLine = 0 THEN ReadLines' = {}
        ELSE /\ gBootArgs'.commandLine \in ReadLines'
             /\ \A i \in ReadLines' : i <= gBootArgs'.commandLine
    <3>1. CASE Current.size = 0
      BY <1>2, <2>1, <2>2, <3>1 DEF Counted
    <3>2. CASE Current.size > 0
      BY <2>1, <2>2, <2>5, <3>2
    <3> QED
      BY <2>4, <3>1, <3>2
  <2> QED
    BY <1>1, <1>2, <2>1, <2>2, <2>3, <2>6 DEF Counted, Seen, FirstOfKind
<1>6. CASE PopulateRamdisk
  <2>1. /\ pc = "atags" /\ pc' = "atags" /\ AtTag("initrd2")
        /\ UNCHANGED <<gBootArgs, heap>>
        /\ Seen("is_first_region")' = Seen("is_first_region")
        /\ Seen("is_first_ramdisk")'
    BY <1>6 DEF PopulateRamdisk, AtTag, At, Alive, Seen
  <2>2. /\ cursor \in 1 .. Len(env.tags) /\ TagsRead' = cursor
        /\ ReadTags("initrd2")' = ReadTags("initrd2") \cup {cursor}
        /\ ReadTags("mem")' = ReadTags("mem") /\ ReadLines' = ReadLines
        /\ Current = env.tags[cursor] /\ TagsRead = cursor - 1
        /\ env.tags[cursor].tag = "initrd2"
    BY <1>1, <1>2, <2>1, TagRead DEF TagKind
  <2>3. \A i \in ReadTags("initrd2") :
           i \in 1 .. (cursor - 1) /\ env.tags[i].tag = "initrd2"
    BY <2>2 DEF ReadTags
  <2>4. ASSUME NEW i \in ReadTags("initrd2")', FirstOfKind(i, "initrd2")
        PROVE  ramdisk' = [base |-> env.tags[i].start, size |-> env.tags[i].size]
    <3>1. CASE Seen("is_first_ramdisk")
      <4>1. ReadTags("initrd2") # {} /\ ramdisk' = ramdisk
        BY <1>2, <1>6, <3>1 DEF Counted, PopulateRamdisk
      <4>2. i # cursor
        BY <2>3, <2>4, <4>1 DEF FirstOfKind
      <4> QED
        BY <1>2, <2>1, <2>2, <2>4, <4>1, <4>2 DEF Counted
    <3>2. CASE ~Seen("is_first_ramdisk")
      <4>1. i = cursor
        BY <1>2, <2>2, <2>4, <3>2 DEF Counted
      <4> QED
        BY <1>6, <2>2, <3>2, <4>1 DEF PopulateRamdisk
    <3> QED
      BY <3>1, <3>2
  <2> QED
    BY <1>1, <1>2, <2>1, <2>2, <2>4 DEF Counted, FirstOfKind
<1>7. CASE SkipTag
  <2>1. PICK kind \in {"core", "other"} : AtTag(kind)
    BY <1>7 DEF SkipTag
  <2>2. pc = "atags" /\ pc' = "atags" /\ UNCHANGED <<gBootArgs, found>>
    BY <1>7 DEF SkipTag, AtTag, At
  <2>3. /\ cursor \in 1 .. Len(env.tags) /\ TagsRead' = cursor
        /\ ReadTags("initrd2")' = ReadTags("initrd2")
        /\ ReadTags("mem")' = ReadTags("mem") /\ ReadLines' = ReadLines
    BY <1>1, <1>2, <2>1, <2>2, TagRead DEF TagKind
  <2> QED
    BY <1>1, <1>2, <2>2, <2>3 DEF Counted, Seen, FirstOfKind, found
<1>8. CASE LastTag
  <2>1. /\ pc = "atags" /\ pc' = "darwin" /\ cursor > Len(env.tags)
        /\ UNCHANGED <<cursor, gBootArgs, found>>
    BY <1>8 DEF LastTag, At, Alive
  <2>2. TagsRead = Len(env.tags) /\ TagsRead' = Len(env.tags)
    BY <1>1, <1>2, <2>1 DEF TagsRead, Counted
  <2> QED
    BY <1>1, <1>2, <2>1, <2>2
    DEF Counted, Seen, FirstOfKind, found, ReadTags, ReadLines
<1>9. CASE \/ StartDarwin \/ PrepareKernel \/ NoKernel \/ MeasureCommand
           \/ ReserveKernel \/ MapSegment \/ MapThread \/ MapOther
           \/ MapDone \/ PrepareDeviceTree \/ NoRamdisk
           \/ FlattenDeviceTree \/ FinalizeBootArgs \/ Jump
  <2>1. /\ pc \in PastTags /\ pc' \in PastTags /\ UNCHANGED found
        /\ pc' \in PastRamdisk <=> pc \in PastRamdisk
        /\ gBootArgs'.physBase = gBootArgs.physBase
        /\ gBootArgs'.memSize = gBootArgs.memSize
        /\ gBootArgs'.commandLine = gBootArgs.commandLine
    BY <1>9 DEF StartDarwin, PrepareKernel, NoKernel, MeasureCommand,
                ReserveKernel, MapSegment, MapThread, MapOther, MapDone,
                PrepareDeviceTree, NoRamdisk, FlattenDeviceTree,
                FinalizeBootArgs, Jump, At, Alive, TypeOK, BootArgs
  <2>2. TagsRead = Len(env.tags) /\ TagsRead' = Len(env.tags)
    BY <1>1, <2>1 DEF TagsRead
  <2>3. RamdiskSource(env)' = RamdiskSource(env)
    BY <1>1
  <2> QED
    BY <1>1, <1>2, <2>1, <2>2, <2>3
    DEF Counted, Seen, FirstOfKind, found, ReadTags, ReadLines
<1>10. CASE PrepareRamdisk
  <2>1. /\ pc = "ramdisk" /\ pc' = "flatten"
        /\ UNCHANGED <<flags, heap, gBootArgs>>
        /\ \E i \in GetImage3("rdsk") :
               ramdisk' = IF env.images[i].data
                          THEN [base |-> DataAt(env, i),
                                size |-> env.images[i].size]
                          ELSE ramdisk
    BY <1>10 DEF PrepareRamdisk, At
  <2>2. TagsRead = Len(env.tags) /\ TagsRead' = Len(env.tags)
    BY <1>1, <2>1 DEF TagsRead
  <2>3. ramdisk' = RamdiskSource(env)
    <3>1. PICK i \in GetImage3("rdsk") :
               ramdisk' = IF env.images[i].data
                          THEN [base |-> DataAt(env, i),
                                size |-> env.images[i].size]
                          ELSE ramdisk
      BY <2>1
    <3>2. FirstImage(env, "rdsk") = i
      BY FoundImage, FirstImageIs
    <3>3. CASE env.images[i].data
      BY <3>1, <3>2, <3>3 DEF RamdiskSource
    <3>4. CASE ~env.images[i].data
      <4>1. ReadTags("initrd2") =
              {k \in DOMAIN env.tags : env.tags[k].tag = "initrd2"}
        BY <1>1, <2>2 DEF ReadTags
      <4>2. CASE ReadTags("initrd2") = {}
        <5>1. FirstTag(env, "initrd2") = 0
          BY <4>1, <4>2, FirstTagFound
        <5>2. ramdisk = [base |-> 0, size |-> 0]
          BY <1>2, <2>1, <4>2 DEF Counted
        <5> QED
          BY <3>1, <3>2, <3>4, <5>1, <5>2 DEF RamdiskSource
      <4>3. CASE ReadTags("initrd2") # {}
        <5>1. PICK t \in DOMAIN env.tags :
                 FirstOfKind(t, "initrd2") /\ FirstTag(env, "initrd2") = t
          BY <4>1, <4>3, FirstTagFound
        <5>2. t \in ReadTags("initrd2") /\ t # 0
          BY <1>1, <4>1, <5>1 DEF FirstOfKind
        <5>3. ramdisk = [base |-> env.tags[t].start, size |-> env.tags[t].size]
          BY <1>2, <2>1, <5>1, <5>2 DEF Counted
        <5> QED
          BY <3>1, <3>2, <3>4, <5>1, <5>2, <5>3 DEF RamdiskSource
      <4> QED
        BY <4>2, <4>3
    <3> QED
      BY <3>3, <3>4
  <2>4. RamdiskSource(env)' = RamdiskSource(env)
    BY <1>1
  <2> QED
    BY <1>1, <1>2, <2>1, <2>2, <2>3, <2>4
    DEF Counted, Seen, FirstOfKind, ReadTags, ReadLines
<1>11. CASE LoseControl \/ SearchAstray \/ UNCHANGED vars
  <2>1. UNCHANGED vars
    BY <1>11 DEF LoseControl, SearchAstray, Searching, Alive
  <2> QED
    BY <1>2, <2>1 DEF vars, Counted, Seen, FirstOfKind, ReadTags, ReadLines, TagsRead
<1> QED
  BY <1>3, <1>4, <1>5, <1>6, <1>7, <1>8, <1>9, <1>10, <1>11 DEF Next

LEMMA HandoffStep == HandoffInv /\ [Next]_vars => HandoffInv'
<1> SUFFICES ASSUME HandoffInv, [Next]_vars PROVE HandoffInv'
  OBVIOUS
<1>1. TypeOK' /\ Checked' /\ Measured' /\ Entered'
  BY StepType, CheckedStep, MeasuredStep, EnteredStep DEF HandoffInv
<1>2. ASSUME Alive', LinesFit(env)', TerminatedList(env)'
      PROVE  Counted'
  <2>1. LinesFit(env) /\ TerminatedList(env)
    BY <1>2, EnvFixed
  <2> QED
    BY <1>2, <2>1, CountedStep DEF HandoffInv
<1> QED
  BY <1>1, <1>2 DEF HandoffInv

LEMMA HandoffCorrect == Spec => []HandoffInv
  BY HandoffInit, HandoffStep, PTL DEF Spec

-----------------------------------------------------------------------------

\* Whatever the environment, the kernel gets control only when nothing that
\* start.S, the panics and the asserts look for was missing.
THEOREM NothingMissingCorrect == Spec => []NothingMissing
<1>1. HandoffInv => NothingMissing
  <2> SUFFICES ASSUME HandoffInv, InKernel PROVE Complete(env)
    BY DEF NothingMissing
  <2> USE DEF PastRamdisk, PastTree, PastMap, PastMeasure, PastKernel, PastTags
  <2>1. TypeOK /\ Checked /\ Measured /\ pc = "kernel"
    BY DEF HandoffInv, InKernel
  <2>2. FirstTag(env, "mem") # 0
    <3>1. PICK i \in DOMAIN env.tags :
             FirstOfKind(i, "mem") /\ FirstTag(env, "mem") = i
      BY <2>1, FirstTagFound DEF Checked
    <3> QED
      BY <2>1, <3>1, FirstTagIs
  <2>3. /\ FirstImage(env, "krnl") # 0
        /\ env.images[FirstImage(env, "krnl")].data
        /\ env.images[FirstImage(env, "krnl")].size > 0
    BY <2>1, FirstImageIs DEF Checked
  <2>4. /\ FirstImage(env, "xmdt") # 0
        /\ env.images[FirstImage(env, "xmdt")].data
    BY <2>1, FirstImageIs DEF Checked
  <2>5. FirstImage(env, "rdsk") # 0
    BY <2>1, FirstImageIs DEF Checked
  <2> QED
    BY <2>1, <2>2, <2>3, <2>4, <2>5 DEF Complete, Checked, Measured
<1> QED
  BY <1>1, HandoffCorrect, PTL

\* From a terminated list of tags whose lines fit, the kernel gets the first
\* memory tag, the last command line that is not empty, and the ramdisk of
\* the image or else of the first initrd2 tag.
THEOREM TagsCountedCorrect == Spec => []TagsCounted
<1>1. HandoffInv => TagsCounted
  <2> SUFFICES ASSUME HandoffInv, InKernel, LinesFit(env), TerminatedList(env)
               PROVE  /\ gBootArgs.physBase = env.tags[FirstTag(env, "mem")].start
                      /\ gBootArgs.memSize = env.tags[FirstTag(env, "mem")].size
                      /\ gBootArgs.commandLine = LastLine(env)
                      /\ ramdisk = RamdiskSource(env)
    BY DEF TagsCounted
  <2> USE DEF PastRamdisk, PastTree, PastMap, PastMeasure, PastKernel, PastTags
  <2>1. TypeOK /\ Checked /\ Counted /\ pc = "kernel"
    BY DEF HandoffInv, InKernel, Alive
  <2>2. /\ env.tags \in Seq(Tag) /\ DOMAIN env.tags = 1 .. Len(env.tags)
        /\ TagsRead = Len(env.tags)
    BY <2>1 DEF TypeOK, EnvType, TagsRead
  <2>3. PICK m \in DOMAIN env.tags :
           FirstOfKind(m, "mem") /\ FirstTag(env, "mem") = m
    BY <2>1, FirstTagFound DEF Checked
  <2>4. m \in ReadTags("mem")
    BY <2>2, <2>3 DEF ReadTags, FirstOfKind
  <2>5. /\ gBootArgs.physBase = env.tags[m].start
        /\ gBootArgs.memSize = env.tags[m].size
    BY <2>1, <2>3, <2>4 DEF Counted
  <2>6. gBootArgs.commandLine = LastLine(env)
    <3>1. ReadLines = {i \in DOMAIN env.tags :
                          env.tags[i].tag = "cmdline" /\ env.tags[i].size > 0}
      BY <2>2 DEF ReadLines, ReadTags
    <3>2. CASE ReadLines = {}
      BY <2>1, <3>1, <3>2 DEF Counted, LastLine
    <3>3. CASE ReadLines # {}
      <4> DEFINE c == gBootArgs.commandLine
      <4>1. c \in ReadLines /\ \A i \in ReadLines : i <= c
        BY <2>1, <3>3 DEF Counted
      <4>2. \A i \in ReadLines : i \in Nat
        BY <2>2, <3>1
      <4>3. \A k \in ReadLines : (\A i \in ReadLines : i <= k) => k = c
        <5> HIDE DEF c
        <5> QED
          BY <4>1, <4>2
      <4>4. LastLine(env) = CHOOSE k \in ReadLines : \A i \in ReadLines : i <= k
        BY <3>1, <3>3 DEF LastLine
      <4> QED
        BY <4>1, <4>3, <4>4
    <3> QED
      BY <3>2, <3>3
  <2>7. ramdisk = RamdiskSource(env)
    BY <2>1 DEF Counted
  <2> QED
    BY <2>3, <2>5, <2>6, <2>7
<1> QED
  BY <1>1, HandoffCorrect, PTL

\* The kernel is entered where the segment mapping puts the pc of the last
\* thread command.
THEOREM EntryCorrect == Spec => []EntryInKernel
<1>1. HandoffInv => EntryInKernel
  <2> SUFFICES ASSUME HandoffInv, InKernel
               PROVE  \E c \in DOMAIN env.commands :
                         /\ env.commands[c].cmd = "unixthread"
                         /\ \A d \in DOMAIN env.commands :
                              env.commands[d].cmd = "unixthread" => d <= c
                         /\ entry = LoadAddr(env.commands[c])
    BY DEF EntryInKernel
  <2>1. TypeOK /\ Entered /\ pc = "kernel" /\ pc \in PastMap
    BY DEF HandoffInv, InKernel, PastMap
  <2>2. DOMAIN env.commands = 1 .. Len(env.commands)
    BY <2>1 DEF TypeOK, EnvType
  <2>3. PICK c \in 1 .. Len(env.commands) :
           LastThread(c, Len(env.commands)) /\ entry = LoadAddr(env.commands[c])
    BY <2>1 DEF Entered
  <2> QED
    BY <2>2, <2>3 DEF LastThread
<1> QED
  BY <1>1, HandoffCorrect, PTL

\* A reservation that was just made covers its cells.
LEMMA ReservedNow ==
  ASSUME TypeOK, NEW size, NEW align, Reserve(size, align),
         NEW x, Within(x, ReserveStart(region.pos, align), size)
  PROVE  \E i \in DOMAIN reserved' :
            Within(x, reserved'[i].start, reserved'[i].size)
<1> DEFINE r == [start |-> ReserveStart(region.pos, align), size |-> size,
                 fits |-> ReserveFits(region.pos, size, align)]
           n == Len(reserved) + 1
<1>1. r.start = ReserveStart(region.pos, align) /\ r.size = size
  OBVIOUS
<1>2. reserved \in Seq(Reservation) /\ reserved' = Append(reserved, r)
  BY DEF TypeOK, Reserve
<1>3. n \in DOMAIN reserved' /\ reserved'[n] = r
  <2> HIDE DEF r
  <2> QED
    BY <1>2
<1> QED
  BY <1>1, <1>3

\* What macho_file_map copies for a segment that fits lies in the kernel's
\* reservation.
LEMMA SegmentReserved ==
  ASSUME TypeOK, Measured, SegmentsFit(env), pc = "map",
         NEW c \in Segments(env),
         NEW x \in Addr, Within(x, LoadAddr(env.commands[c]), env.commands[c].filesize)
  PROVE  Within(x, reserved[1].start, reserved[1].size)
<1> DEFINE s == env.commands[c]
           d == s.vmaddr - KernelVMAddr
<1>1. /\ env.commands \in Seq(LoadCommand) /\ s \in LoadCommand
      /\ s.vmaddr \in Addr /\ s.filesize \in Addr /\ s.vmsize \in Addr
  <2>1. env.commands \in Seq(LoadCommand)
    BY DEF TypeOK, EnvType
  <2>2. s \in LoadCommand
    BY <2>1 DEF Segments
  <2> QED
    BY <2>1, <2>2 DEF LoadCommand
<1>2. VmSize(env.commands) \in Addr
  BY <1>1, VmSizesDef DEF VmSize
<1>3. /\ s.vmaddr \in Nat /\ s.filesize \in Nat /\ s.vmsize \in Nat
      /\ KernelVMAddr \in Nat /\ KernelVMAddr \in Addr
  BY <1>1, AddrIsNat, ConstantTypes
<1>4. /\ s.vmaddr >= KernelVMAddr
      /\ d + s.vmsize <= VmSize(env.commands)
      /\ s.filesize <= s.vmsize
  BY DEF SegmentsFit
<1>5. d \in Nat /\ d + s.filesize <= VmSize(env.commands)
  <2>1. VmSize(env.commands) \in Nat
    BY <1>2, AddrIsNat
  <2> QED
    BY <1>3, <1>4, <2>1
<1>6. Minus(s.vmaddr, KernelVMAddr) = d
  BY <1>1, <1>3, <1>4, WrapOnce
<1>7. LoadAddr(s) = Plus(kernelBase, d) /\ kernelBase \in Addr
  BY <1>6 DEF LoadAddr, TypeOK
<1>8. reserved[1].start = kernelBase /\ reserved[1].size = VmSize(env.commands)
  BY DEF Measured, PastMeasure
<1>9. Within(x, Plus(kernelBase, d), s.filesize)
  BY <1>7
<1> HIDE DEF s, d
<1>10. Within(x, kernelBase, VmSize(env.commands))
  BY <1>2, <1>3, <1>5, <1>7, <1>9, WithinShift
<1> QED
  BY <1>8, <1>10

\* Every write after the first reservation stays in a reservation or in the
\* heap.
THEOREM WritesReservedCorrect == Spec => WritesReserved
<1>1. HandoffInv /\ [Next]_vars => [StaysInReserved]_vars
  <2> SUFFICES ASSUME HandoffInv, Next, reserved # <<>>, SegmentsFit(env),
                      NEW x \in Addr, mem'[x] # mem[x]
               PROVE  \/ Within(x, heap, HeapSize)
                      \/ \E i \in DOMAIN reserved' :
                            Within(x, reserved'[i].start, reserved'[i].size)
    BY DEF StaysInReserved
  <2>1. TypeOK /\ Checked /\ Measured /\ Entered /\ mem \in [Addr -> Cell]
    BY DEF HandoffInv, TypeOK
  <2>2. CASE \/ Start \/ CheckMachine \/ PopulateMemory \/ PopulateCommandLine
             \/ PopulateRamdisk \/ SkipTag \/ LastTag \/ StartDarwin
    BY <2>1, <2>2 DEF Start, CheckMachine, PopulateMemory, PopulateCommandLine,
                      PopulateRamdisk, SkipTag, LastTag, StartDarwin, AtTag,
                      At, Entered
  <2>3. CASE \/ PrepareKernel \/ NoKernel \/ MeasureCommand \/ ReserveKernel
             \/ MapThread \/ MapOther \/ MapDone \/ NoRamdisk \/ Jump
             \/ LoseControl \/ SearchAstray
    BY <2>3 DEF PrepareKernel, NoKernel, MeasureCommand, ReserveKernel,
                MapThread, MapOther, MapDone, NoRamdisk, Jump, LoseControl,
                SearchAstray
  <2>4. CASE MapSegment
    <3>1. /\ pc = "map" /\ reserved' = reserved
          /\ cursor \in Segments(env)
          /\ Within(x, LoadAddr(env.commands[cursor]),
                    env.commands[cursor].filesize)
      BY <2>1, <2>4, EnvFacts
      DEF MapSegment, At, Command, placement, Segments, Bcopy, TypeOK
    <3>2. Within(x, reserved[1].start, reserved[1].size)
      BY <2>1, <3>1, SegmentReserved
    <3>3. 1 \in DOMAIN reserved
      BY <2>1 DEF TypeOK
    <3> QED
      BY <3>1, <3>2, <3>3
  <2>5. CASE PrepareDeviceTree
    <3>1. pc = "devicetree" /\ Within(x, Plus(heap, 1), HeapUse)
      BY <2>1, <2>5 DEF PrepareDeviceTree, At, Write
    <3>2. heap \in Addr
      BY <2>1, <3>1 DEF Checked, PastTags, PastKernel, PastMeasure, PastMap
    <3>3. HeapSize \in Addr /\ HeapUse \in Nat /\ 1 + HeapUse <= HeapSize
      BY ConstantTypes, SizeAssumption, AddrIsNat
    <3> QED
      BY <3>1, <3>2, <3>3, WithinShift, SMTT(30)
  <2>6. CASE PrepareRamdisk
    <3>1. \E size : /\ Reserve(size, RamdiskAlign)
                    /\ Within(x, ReserveStart(region.pos, RamdiskAlign), size)
      BY <2>1, <2>6 DEF PrepareRamdisk, Bcopy
    <3> QED
      BY <2>1, <3>1, ReservedNow
  <2>7. CASE FlattenDeviceTree
    <3>1. \E size : /\ Reserve(size, 0)
                    /\ Within(x, ReserveStart(region.pos, 0), size)
      BY <2>1, <2>7 DEF FlattenDeviceTree, Write
    <3> QED
      BY <2>1, <3>1, ReservedNow
  <2>8. CASE FinalizeBootArgs
    <3>1. \E size : /\ Reserve(size, BootArgsAlign)
                    /\ Within(x, ReserveStart(region.pos, BootArgsAlign), size)
      BY <2>1, <2>8 DEF FinalizeBootArgs, Write
    <3> QED
      BY <2>1, <3>1, ReservedNow
  <2> QED
    BY <2>2, <2>3, <2>4, <2>5, <2>6, <2>7, <2>8 DEF Next
<1> QED
  BY <1>1, HandoffCorrect, PTL DEF Spec, WritesReserved

-----------------------------------------------------------------------------
(* What a boot with all it needs leaves in memory: a provisioned boot      *)
(* never halts and never loses what it reads, and when the kernel gets     *)
(* control its segments, the ramdisk, the device tree and the boot         *)
(* arguments are where it is told they are.                                *)

(* The layout of a provisioned boot, as plain numbers: RAM from Phys on,   *)
(* in it the kernel, the ramdisk, the device tree and the boot arguments,  *)
(* above all of them the heap.                                             *)

Phys == env.tags[FirstTag(env, "mem")].start
Pool == (Phys + env.tags[FirstTag(env, "mem")].size) - HeapSize
Disk == RamdiskSource(env)

KernelAt  == Phys + PageOffset
KernelEnd == KernelAt + VmSize(env.commands)
DiskAt    == AlignUp(KernelEnd, RamdiskAlign)
DiskEnd   == IF Disk.base = 0 THEN KernelEnd ELSE DiskAt + Disk.size
TreeSize  == IF Disk.base = 0 THEN env.dtLength ELSE env.dtLength + 1
TreeEnd   == DiskEnd + TreeSize
ArgsAt    == AlignUp(TreeEnd, BootArgsAlign)

\* A segment's distance from the kernel's start, and where its file part is.
Offset(c) == env.commands[c].vmaddr - KernelVMAddr
Source(c) == DataAt(env, FirstImage(env, "krnl")) + env.commands[c].fileoff

InPool(x) == Pool <= x /\ x < Pool + HeapSize
InRam(x)  == Phys <= x /\ x < Phys + ZeroSize

-----------------------------------------------------------------------------
(* The inductive invariant of such a boot.                                 *)

Early == {"start", "core", "atags", "darwin"}

\* Outside the heap, and outside the RAM once it has been cleared, memory
\* holds what it held at the start: the loader, its images, the tags and an
\* initrd are never written over.
Untouched ==
    \A x \in Addr :
        ~InPool(x) /\ (pc \in Early \/ ~InRam(x)) => mem[x] = Original(x)

\* The heap is set up with the first memory tag and stays intact, and the
\* tree's nodes stay in it.
HeapReady ==
    /\ Seen("is_first_region") =>
          /\ "is_malloc_inited" \in flags
          /\ heap = Pool
          /\ mem[Pool] = <<"pool", 0>>
          /\ mem[Pool + HeapSize - 1] = <<"pool", HeapSize - 1>>
    /\ pc \in PastTags => Seen("is_first_region")
    /\ pc \in PastTree =>
          \A i \in 0 .. (HeapUse - 1) : mem[Pool + 1 + i] = <<"node", i>>

\* The region's cursor is at the end of what has been placed.
Placed ==
    /\ pc \in PastTags => gBootArgs.physBase = Phys
    /\ pc \in PastTags \ {"darwin"} => /\ gBootArgs.virtBase = VirtBase
                                       /\ region.base = KernelAt
    /\ pc \in {"kernel_image", "measure"} => region.pos = KernelAt
    /\ pc \in PastMeasure => kernelBase = KernelAt
    /\ pc \in {"map", "devicetree", "ramdisk"} => region.pos = KernelEnd
    /\ pc = "flatten" => region.pos = DiskEnd
    /\ pc = "finalize" => region.pos = TreeEnd

\* RAM is clear before the kernel is mapped; then the segments before the
\* cursor, and afterwards all of them, have their file parts.
KernelInPlace ==
    /\ pc \in {"kernel_image", "measure"} =>
          \A x \in Addr : InRam(x) => mem[x] = Zero
    /\ pc \in PastMeasure =>
          \A c \in Segments(env) :
             \A i \in 0 .. (env.commands[c].vmsize - 1) :
                mem[KernelAt + Offset(c) + i] =
                   IF (pc = "map" => c < cursor) /\ i < env.commands[c].filesize
                   THEN Original(Source(c) + i) ELSE Zero

DiskInPlace ==
    /\ pc \notin PastRamdisk => rangeRAMDisk = {}
    /\ pc \in PastRamdisk =>
          IF Disk.base = 0 THEN rangeRAMDisk = {}
          ELSE /\ rangeRAMDisk = {[base |-> DiskAt, size |-> Disk.size]}
               /\ \A i \in 0 .. (Disk.size - 1) :
                     mem[DiskAt + i] = Original(Disk.base + i)

TreeInPlace ==
    pc \in {"finalize", "jump", "kernel"} =>
        /\ gBootArgs.deviceTreeLength = TreeSize
        /\ Plus(Minus(gBootArgs.deviceTreeP, VirtBase), Phys) = DiskEnd
        /\ \A i \in 0 .. (TreeSize - 1) : mem[DiskEnd + i] = <<"dt", i>>

ArgsInPlace ==
    pc \in {"jump", "kernel"} =>
        /\ args = ArgsAt
        /\ \A i \in 0 .. (BootArgsSize - 1) : mem[ArgsAt + i] = <<"args", i>>

Sound ==
    /\ Alive
    /\ Untouched
    /\ HeapReady
    /\ Placed
    /\ KernelInPlace
    /\ DiskInPlace
    /\ TreeInPlace
    /\ ArgsInPlace

PayloadInv ==
    /\ HandoffInv
    /\ env \in Envs
    /\ Provisioned(env) => Sound

-----------------------------------------------------------------------------
(* Memory operations on ranges that do not wrap.                           *)

LEMMA AddrDef == \A x : x \in Addr <=> x \in Nat /\ x < Word
  BY WordAssumption DEF Addr

LEMMA WithinPlain ==
  ASSUME NEW x \in Addr, NEW a \in Nat, NEW n \in Nat, a + n < Word
  PROVE  /\ Within(x, a, n) <=> a <= x /\ x < a + n
         /\ a <= x => Minus(x, a) = x - a
<1>1. a \in Addr /\ x \in Nat /\ x < Word /\ Word \in Nat
  BY WordAssumption, AddrDef
<1>2. Minus(x, a) = IF a <= x THEN x - a ELSE x - a + Word
  BY <1>1, WrapOnce
<1> QED
  BY <1>1, <1>2 DEF Within

LEMMA PlusPlain ==
  ASSUME NEW a \in Nat, NEW n \in Nat, a + n < Word
  PROVE  Plus(a, n) = a + n /\ a + n \in Addr
  BY WordAssumption, AddrDef DEF Plus

LEMMA ClearPlain ==
  ASSUME NEW m \in [Addr -> Cell], NEW a \in Nat, NEW n \in Nat, a + n < Word,
         NEW x \in Addr
  PROVE  Bzero(m, a, n)[x] = IF a <= x /\ x < a + n THEN Zero ELSE m[x]
  BY WithinPlain DEF Bzero

LEMMA WritePlain ==
  ASSUME NEW m \in [Addr -> Cell], NEW a \in Nat, NEW n \in Nat, a + n < Word,
         NEW kind, NEW x \in Addr
  PROVE  Write(m, a, n, kind)[x] =
            IF a <= x /\ x < a + n THEN <<kind, x - a>> ELSE m[x]
  BY WithinPlain DEF Write

LEMMA CopyPlain ==
  ASSUME NEW m \in [Addr -> Cell], NEW src \in Nat, NEW dst \in Nat, NEW n \in Nat,
         src + n < Word, dst + n < Word, NEW x \in Addr
  PROVE  Bcopy(m, src, dst, n)[x] =
            IF dst <= x /\ x < dst + n THEN m[src + (x - dst)] ELSE m[x]
<1>1. Bcopy(m, src, dst, n)[x] =
        IF Within(x, dst, n) THEN m[Plus(src, Minus(x, dst))] ELSE m[x]
  BY DEF Bcopy
<1>2. CASE dst <= x /\ x < dst + n
  <2>1. Within(x, dst, n) /\ Minus(x, dst) = x - dst
    BY <1>2, WithinPlain
  <2>2. x - dst \in Nat /\ src + (x - dst) < Word
    BY <1>2, AddrDef, WordAssumption
  <2>3. Plus(src, x - dst) = src + (x - dst)
    BY <2>2, PlusPlain
  <2> QED
    BY <1>1, <1>2, <2>1, <2>3
<1>3. CASE ~(dst <= x /\ x < dst + n)
  BY <1>1, <1>3, WithinPlain
<1> QED
  BY <1>2, <1>3

\* Rounding up below the top of the word moves up by less than the multiple.
LEMMA AlignUpPlain ==
  ASSUME NEW p \in Nat, NEW s \in Addr \ {0}, p + s <= Word
  PROVE  AlignUp(p, s) \in Nat /\ p <= AlignUp(p, s) /\ AlignUp(p, s) < p + s
<1>1. /\ s \in Nat \ {0} /\ Word \in Nat /\ p \in Addr /\ s - 1 \in Nat
      /\ p + (s - 1) < Word
  BY WordAssumption, AddrDef
<1>2. Plus(p, s - 1) = p + (s - 1) /\ p + (s - 1) \in Addr
  BY <1>1, PlusPlain
<1>3. /\ AlignDown(p + (s - 1), s) <= p + (s - 1)
      /\ AlignDown(p + (s - 1), s) \in Addr
  BY <1>1, <1>2, AlignDownBound
<1>4. p <= AlignUp(p, s)
  BY <1>1, AlignUpBound
<1> QED
  BY <1>1, <1>2, <1>3, <1>4, AddrDef DEF AlignUp

-----------------------------------------------------------------------------
(* What being provisioned says about the layout.                           *)

LEMMA MemoryTag ==
  ASSUME TypeOK, Provisioned(env)
  PROVE  /\ FirstTag(env, "mem") \in DOMAIN env.tags
         /\ FirstOfKind(FirstTag(env, "mem"), "mem")
         /\ env.tags[FirstTag(env, "mem")].start \in Addr
         /\ env.tags[FirstTag(env, "mem")].size \in Addr
<1>1. FirstTag(env, "mem") # 0
  BY DEF Provisioned, Complete
<1>2. /\ FirstTag(env, "mem") \in DOMAIN env.tags
      /\ FirstOfKind(FirstTag(env, "mem"), "mem")
  BY <1>1, FirstTagFound
<1>3. env.tags[FirstTag(env, "mem")] \in Tag
  BY <1>2, EnvFacts
<1> QED
  BY <1>2, <1>3 DEF Tag

LEMMA ImageFound ==
  ASSUME TypeOK, NEW type, FirstImage(env, type) # 0
  PROVE  /\ FirstImage(env, type) \in DOMAIN env.images
         /\ FirstOfType(FirstImage(env, type), type)
         /\ env.images[FirstImage(env, type)] \in Image
<1> DEFINE S == {k \in DOMAIN env.images : env.images[k].type = type}
           f == FirstImage(env, type)
<1>1. DOMAIN env.images = 1 .. Len(env.images) /\ Len(env.images) \in Nat
  BY DEF TypeOK, EnvType
<1>2. S # {} /\ f = CHOOSE k \in S : \A j \in S : k <= j
  BY DEF FirstImage
<1>3. \E k \in S : \A j \in S : k <= j
  <2>1. S \in SUBSET Nat
    BY <1>1
  <2> HIDE DEF S
  <2> QED
    BY <1>2, <2>1, Least
<1>4. f \in S /\ \A j \in S : f <= j
  <2> HIDE DEF S, f
  <2> QED
    BY <1>2, <1>3
<1>5. \A j \in 1 .. (f - 1) : j \in DOMAIN env.images /\ ~(f <= j)
  BY <1>1, <1>4
<1> QED
  BY <1>4, <1>5, EnvFacts DEF FirstOfType

LEMMA DiskType ==
  ASSUME TypeOK, Provisioned(env)
  PROVE  Disk \in Range0 /\ Disk.base \in Addr /\ Disk.size \in Addr
<1> DEFINE i == FirstImage(env, "rdsk")
           t == FirstTag(env, "initrd2")
<1>1. i \in DOMAIN env.images /\ env.images[i] \in Image /\ DataAt(env, i) \in Addr
  BY ImageFound, EnvFacts DEF Provisioned, Complete
<1>2. t # 0 => t \in DOMAIN env.tags /\ env.tags[t] \in Tag
  BY FirstTagFound, EnvFacts
<1>3. Disk \in Range0
  BY <1>1, <1>2, ConstantTypes DEF Disk, RamdiskSource, Range0, Image, Tag
<1> QED
  BY <1>3 DEF Range0

\* All of it in one place: the numbers are ordered as they should be and
\* stay below the heap, which stays below the top of the word.
LEMMA Layout ==
  ASSUME TypeOK, Provisioned(env)
  PROVE  /\ Word \in Nat /\ Phys \in Nat /\ Pool \in Nat \ {0}
         /\ HeapSize \in Nat /\ HeapUse \in Nat /\ ZeroSize \in Nat
         /\ HeapUse + 2 <= HeapSize
         /\ Phys + ZeroSize <= Pool /\ Pool + HeapSize < Word
         /\ KernelAt \in Nat /\ KernelAt = Phys + PageOffset /\ PageOffset \in Nat
         /\ VmSize(env.commands) \in Nat
         /\ KernelEnd \in Nat /\ KernelEnd = KernelAt + VmSize(env.commands)
         /\ Disk.base \in Nat /\ Disk.size \in Nat
         /\ DiskAt \in Nat /\ KernelEnd <= DiskAt
         /\ DiskEnd \in Nat /\ KernelEnd <= DiskEnd
         /\ Disk.base # 0 => DiskEnd = DiskAt + Disk.size
         /\ DiskAt + Disk.size <= Phys + ZeroSize
         /\ KernelEnd + RamdiskAlign < Word
         /\ env.dtLength \in Nat
         /\ TreeSize \in Nat /\ TreeEnd \in Nat /\ TreeEnd = DiskEnd + TreeSize
         /\ TreeEnd + BootArgsAlign < Word
         /\ ArgsAt \in Nat /\ TreeEnd <= ArgsAt /\ BootArgsSize \in Nat
         /\ ArgsAt + BootArgsSize <= Phys + ZeroSize
<1> DEFINE tag == env.tags[FirstTag(env, "mem")]
           V == VmSize(env.commands)
<1>1. tag.start \in Nat /\ tag.size \in Nat
  BY MemoryTag, AddrIsNat
<1>2. V \in Nat
  <2>1. env.commands \in Seq(LoadCommand)
    BY DEF TypeOK, EnvType
  <2> QED
    BY <2>1, VmSizesDef, AddrIsNat DEF VmSize
<1>3. Disk.base \in Nat /\ Disk.size \in Nat /\ env.dtLength \in Nat
  BY DiskType, EnvFacts, AddrIsNat
<1>4. /\ Word \in Nat /\ HeapSize \in Nat \ {0} /\ HeapUse \in Nat /\ ZeroSize \in Nat
      /\ PageOffset \in Nat /\ BootArgsSize \in Nat
      /\ RamdiskAlign \in Addr \ {0} /\ RamdiskAlign \in Nat \ {0}
      /\ BootArgsAlign \in Addr \ {0} /\ BootArgsAlign \in Nat \ {0}
      /\ HeapUse + 2 <= HeapSize
  BY ConstantTypes, AddrIsNat, WordAssumption, SizeAssumption
<1>5. /\ tag.start + ZeroSize <= (tag.start + tag.size) - HeapSize
      /\ tag.start + tag.size < Word
      /\ PageOffset + V + RamdiskAlign + Disk.size + env.dtLength + 1
            + BootArgsAlign + BootArgsSize <= ZeroSize
  <2>1. Roomy(env)
    BY DEF Provisioned
  <2>2. tag.start + ZeroSize <= (tag.start + tag.size) - HeapSize
    BY <2>1, Zenon DEF Roomy
  <2>3. tag.start + tag.size < Word
    BY <2>1, Zenon DEF Roomy
  <2>4. PageOffset + V + RamdiskAlign + Disk.size + env.dtLength + 1
            + BootArgsAlign + BootArgsSize <= ZeroSize
    BY <2>1, Zenon DEF Roomy, Disk
  <2> QED
    BY <2>2, <2>3, <2>4
<1>6. /\ Phys = tag.start /\ Pool = (tag.start + tag.size) - HeapSize
      /\ KernelAt = Phys + PageOffset /\ KernelEnd = KernelAt + V
  BY DEF Phys, Pool, KernelAt, KernelEnd
<1> HIDE DEF tag, V
<1>7. /\ KernelEnd \in Nat /\ KernelEnd + RamdiskAlign < Word
      /\ Phys \in Nat /\ Pool \in Nat \ {0} /\ KernelAt \in Nat
      /\ Phys + ZeroSize <= Pool /\ Pool + HeapSize < Word
  BY <1>1, <1>2, <1>3, <1>4, <1>5, <1>6
<1>8. DiskAt \in Nat /\ KernelEnd <= DiskAt /\ DiskAt < KernelEnd + RamdiskAlign
  BY <1>4, <1>7, AlignUpPlain DEF DiskAt
<1>9. /\ DiskEnd \in Nat /\ KernelEnd <= DiskEnd
      /\ DiskEnd <= DiskAt + Disk.size
      /\ Disk.base # 0 => DiskEnd = DiskAt + Disk.size
  BY <1>3, <1>7, <1>8 DEF DiskEnd
<1>10. TreeSize \in Nat /\ TreeSize <= env.dtLength + 1
  BY <1>3 DEF TreeSize
<1>11. /\ TreeEnd = DiskEnd + TreeSize /\ TreeEnd \in Nat
       /\ TreeEnd + BootArgsAlign < Word
  BY <1>2, <1>3, <1>4, <1>5, <1>6, <1>7, <1>8, <1>9, <1>10 DEF TreeEnd
<1>12. ArgsAt \in Nat /\ TreeEnd <= ArgsAt /\ ArgsAt < TreeEnd + BootArgsAlign
  BY <1>4, <1>11, AlignUpPlain DEF ArgsAt
<1>13. ArgsAt + BootArgsSize <= Phys + ZeroSize
  BY <1>2, <1>3, <1>4, <1>5, <1>6, <1>7, <1>8, <1>9, <1>10, <1>11, <1>12
<1>14. DiskAt + Disk.size <= Phys + ZeroSize
  BY <1>2, <1>3, <1>4, <1>5, <1>6, <1>7, <1>8
<1> QED
  BY <1>2, <1>3, <1>4, <1>6, <1>7, <1>8, <1>9, <1>10, <1>11, <1>12, <1>13, <1>14
  DEF V

-----------------------------------------------------------------------------
(* What lies in memory at the start, and stays.                            *)

\* The images lie one behind the other, from the end of the loader on.
LEMMA Chain ==
  ASSUME TypeOK, env \in Envs
  PROVE  /\ env.bootAt \in Nat /\ BootSize \in Nat /\ LoadedSize(env) \in Nat
         /\ ImagesAt(env) = env.bootAt + BootSize
         /\ BootSize <= LoadedSize(env)
         /\ env.bootAt + LoadedSize(env) < Word
         /\ \A i \in DOMAIN env.images :
               /\ env.images[i].at \in Nat /\ env.images[i].size \in Nat
               /\ ImagesAt(env) <= env.images[i].at
               /\ AfterImage(env, i) = env.images[i].at + 1 + env.images[i].size
               /\ AfterImage(env, i) <= env.bootAt + LoadedSize(env)
<1> DEFINE N == Len(env.images)
           after(i) == AfterImage(env, i)
<1>1. /\ N \in Nat /\ DOMAIN env.images = 1 .. N
      /\ env.bootAt \in Nat /\ BootSize \in Nat
  BY SizeAssumption, AddrIsNat DEF TypeOK, EnvType
<1>2. \A i \in 1 .. N : env.images[i].at \in Nat /\ env.images[i].size \in Nat
  <2>1. \A i \in 1 .. N : env.images[i] \in Image
    BY <1>1, EnvFacts
  <2> QED
    BY <2>1, AddrIsNat DEF Image
<1>3. /\ \A i \in 1 .. N : env.images[i].at = IF i = 1 THEN ImagesAt(env)
                                              ELSE AfterImage(env, i - 1)
      /\ Apart(env.bootAt, LoadedSize(env), env.tagsAt, Len(env.tags))
  BY <1>1, EnvAssumption DEF Chained
<1>4. /\ ImagesAt(env) = env.bootAt + BootSize
      /\ \A i \in 1 .. N : /\ after(i) = env.images[i].at + 1 + env.images[i].size
                            /\ after(i) \in Nat /\ env.images[i].at < after(i)
  BY <1>2 DEF ImagesAt, AfterImage
<1> DEFINE S == {k \in 0 .. N : \A i \in 1 .. k : /\ ImagesAt(env) <= env.images[i].at
                                                  /\ after(i) <= after(k)}
<1>5. \A k \in 0 .. N : k \in S
  <2>1. 0 \in S
    BY <1>1
  <2>2. ASSUME NEW k \in 0 .. (N - 1), k \in S PROVE k + 1 \in S
    <3>1. k + 1 \in 1 .. N /\ k + 1 \in 0 .. N /\ (k + 1) - 1 = k
      BY <1>1
    <3>2. env.images[k + 1].at = IF k + 1 = 1 THEN ImagesAt(env) ELSE after(k)
      BY <1>3, <3>1
    <3>3. \A i \in 1 .. k : i \in 1 .. N /\ ImagesAt(env) <= env.images[i].at
                                         /\ after(i) <= after(k)
      BY <1>1, <2>2
    <3>4. k # 0 => k \in 1 .. k /\ k \in 1 .. N
      BY <1>1
    <3>5. ImagesAt(env) <= env.images[k + 1].at
      <4>1. CASE k = 0
        BY <1>1, <1>4, <3>2, <4>1
      <4>2. CASE k # 0
        <5>1. /\ k \in 1 .. N /\ ImagesAt(env) <= env.images[k].at
              /\ env.images[k + 1].at = after(k)
          BY <1>1, <3>2, <3>3, <3>4, <4>2
        <5>2. /\ env.images[k].at < after(k) /\ env.images[k].at \in Nat
              /\ after(k) \in Nat /\ ImagesAt(env) \in Nat
          BY <1>1, <1>2, <1>4, <5>1
        <5> HIDE DEF after
        <5> QED
          BY <5>1, <5>2
      <4> QED
        BY <4>1, <4>2
    <3>6. \A i \in 1 .. k : after(i) <= after(k + 1)
      <4> HIDE DEF after
      <4> QED
        BY <1>1, <1>2, <1>4, <3>1, <3>2, <3>3, <3>4
    <3>7. \A i \in 1 .. (k + 1) : i \in 1 .. k \/ i = k + 1
      BY <3>1
    <3>8. after(k + 1) <= after(k + 1)
      BY <1>4, <3>1
    <3> HIDE DEF after
    <3> QED
      BY <3>1, <3>3, <3>5, <3>6, <3>7, <3>8
  <2> HIDE DEF S, N
  <2> QED
    BY <1>1, <2>1, <2>2, BoundedInduction
<1>6. \A i \in 1 .. N : ImagesAt(env) <= env.images[i].at /\ after(i) <= after(N)
  <2> HIDE DEF after
  <2> QED
    BY <1>1, <1>5
<1>7. /\ N = 0 => LoadedSize(env) = BootSize
      /\ N # 0 => LoadedSize(env) = after(N) - env.bootAt
  BY <1>1 DEF LoadedSize, TypeOK, EnvType
<1>8. N # 0 => N \in 1 .. N
  BY <1>1
<1>9. /\ LoadedSize(env) \in Nat /\ BootSize <= LoadedSize(env)
      /\ \A i \in 1 .. N : after(i) <= env.bootAt + LoadedSize(env)
  <2> HIDE DEF after, N
  <2>1. CASE N = 0
    BY <1>1, <1>7, <2>1
  <2>2. CASE N # 0
    BY <1>1, <1>2, <1>4, <1>6, <1>7, <1>8, <2>2
  <2> QED
    BY <2>1, <2>2
<1>10. env.bootAt + LoadedSize(env) < Word
  BY <1>3 DEF Apart
<1> HIDE DEF S
<1> QED
  BY <1>1, <1>2, <1>4, <1>6, <1>9, <1>10

\* What the loader, its images and the tags are made of.
LEMMA Initially ==
  ASSUME TypeOK, env \in Envs, NEW x \in Addr
  PROVE  /\ env.bootAt <= x /\ x < env.bootAt + BootSize
            => Original(x) = <<"boot", x - env.bootAt>>
         /\ ImagesAt(env) <= x /\ x < env.bootAt + LoadedSize(env)
            => Original(x) = <<"img", Minus(x, ImagesAt(env))>>
         /\ env.tagsAt <= x /\ x < env.tagsAt + Len(env.tags)
            => Original(x) = <<"tag", x - env.tagsAt>>
<1>1. /\ env.bootAt \in Nat /\ BootSize \in Nat /\ LoadedSize(env) \in Nat
      /\ ImagesAt(env) = env.bootAt + BootSize
      /\ BootSize <= LoadedSize(env)
      /\ env.bootAt + LoadedSize(env) < Word
      /\ env.bootAt + BootSize < Word
      /\ x \in Nat /\ Word \in Nat
  BY Chain, AddrIsNat, WordAssumption
<1>2. /\ env.tagsAt \in Nat /\ Len(env.tags) \in Nat
      /\ env.tagsAt + Len(env.tags) < Word
      /\ \/ env.bootAt + LoadedSize(env) <= env.tagsAt
         \/ env.tagsAt + Len(env.tags) <= env.bootAt
  <2>1. Apart(env.bootAt, LoadedSize(env), env.tagsAt, Len(env.tags))
    BY EnvAssumption
  <2>2. env.tagsAt \in Nat /\ Len(env.tags) \in Nat
    BY AddrIsNat DEF TypeOK, EnvType
  <2> QED
    BY <2>1, <2>2 DEF Apart
<1>3. Original(x) =
         IF Within(x, env.bootAt, BootSize)
         THEN <<"boot", Minus(x, env.bootAt)>>
         ELSE IF Within(x, env.bootAt, LoadedSize(env))
              THEN <<"img", Minus(x, ImagesAt(env))>>
         ELSE IF Within(x, env.tagsAt, Len(env.tags))
              THEN <<"tag", Minus(x, env.tagsAt)>>
         ELSE <<"ram", x>>
  BY DEF Original, InitialMemory
<1>4. /\ Within(x, env.bootAt, BootSize) <=>
            env.bootAt <= x /\ x < env.bootAt + BootSize
      /\ env.bootAt <= x => Minus(x, env.bootAt) = x - env.bootAt
  BY <1>1, WithinPlain
<1>5. Within(x, env.bootAt, LoadedSize(env)) <=>
         env.bootAt <= x /\ x < env.bootAt + LoadedSize(env)
  BY <1>1, WithinPlain
<1>6. /\ Within(x, env.tagsAt, Len(env.tags)) <=>
            env.tagsAt <= x /\ x < env.tagsAt + Len(env.tags)
      /\ env.tagsAt <= x => Minus(x, env.tagsAt) = x - env.tagsAt
  BY <1>2, WithinPlain
<1> DEFINE B == env.bootAt
           L == LoadedSize(env)
           T == env.tagsAt
           K == Len(env.tags)
<1>7. ASSUME B <= x, x < B + BootSize PROVE Original(x) = <<"boot", x - B>>
  BY <1>3, <1>4, <1>7
<1>8. ASSUME ImagesAt(env) <= x, x < B + L
      PROVE  Original(x) = <<"img", Minus(x, ImagesAt(env))>>
  <2>1. ~Within(x, B, BootSize) /\ Within(x, B, L)
    <3> HIDE DEF B, L
    <3> QED
      BY <1>1, <1>4, <1>5, <1>8 DEF B, L
  <2> QED
    BY <1>3, <2>1
<1>9. ASSUME T <= x, x < T + K PROVE Original(x) = <<"tag", x - T>>
  <2>1. /\ ~Within(x, B, BootSize) /\ ~Within(x, B, L)
        /\ Within(x, T, K) /\ Minus(x, T) = x - T
    BY <1>1, <1>2, <1>4, <1>5, <1>6, <1>9, SMTT(30)
  <2> QED
    BY <1>3, <2>1
<1> QED
  BY <1>7, <1>8, <1>9

\* Nothing of what was linked or passed lies where a provisioned boot writes.
LEMMA Clear ==
  ASSUME TypeOK, env \in Envs, Provisioned(env), NEW x \in Addr
  PROVE  /\ env.bootAt <= x /\ x < env.bootAt + LoadedSize(env)
            => ~InPool(x) /\ ~InRam(x)
         /\ env.tagsAt <= x /\ x < env.tagsAt + Len(env.tags) => ~InPool(x)
         /\ Disk.base # 0 /\ Disk.base <= x /\ x < Disk.base + Disk.size
            => ~InPool(x) /\ ~InRam(x)
         /\ Disk.base # 0 => Disk.base + Disk.size < Word
<1> DEFINE tag == env.tags[FirstTag(env, "mem")]
           start == tag.start
           size == tag.size
<1>1. Roomy(env)
  BY DEF Provisioned
<1>2. /\ Apart(env.bootAt, LoadedSize(env), start, ZeroSize)
      /\ Apart(env.bootAt, LoadedSize(env), (start + size) - HeapSize, HeapSize)
      /\ Apart(env.tagsAt, Len(env.tags), (start + size) - HeapSize, HeapSize)
  BY <1>1, Zenon DEF Roomy
<1>3. Disk.base # 0 =>
        /\ Apart(Disk.base, Disk.size, start, ZeroSize)
        /\ Apart(Disk.base, Disk.size, (start + size) - HeapSize, HeapSize)
  BY <1>1, Zenon DEF Roomy, Disk
<1>4. /\ Phys = start /\ Pool = (start + size) - HeapSize
  BY DEF Phys, Pool
<1> HIDE DEF start, size
<1>5. /\ Phys \in Nat /\ Pool \in Nat /\ HeapSize \in Nat /\ ZeroSize \in Nat
      /\ Disk.base \in Nat /\ Disk.size \in Nat /\ x \in Nat
  BY Layout, AddrIsNat
<1>6. /\ env.bootAt \in Nat /\ LoadedSize(env) \in Nat
  BY Chain
<1>7. env.tagsAt \in Nat /\ Len(env.tags) \in Nat
  BY AddrIsNat DEF TypeOK, EnvType
<1>8. env.bootAt <= x /\ x < env.bootAt + LoadedSize(env)
         => ~InPool(x) /\ ~InRam(x)
  BY <1>2, <1>4, <1>5, <1>6 DEF Apart, InPool, InRam
<1>9. env.tagsAt <= x /\ x < env.tagsAt + Len(env.tags) => ~InPool(x)
  BY <1>2, <1>4, <1>5, <1>7 DEF Apart, InPool
<1>10. ASSUME Disk.base # 0
       PROVE  /\ Disk.base <= x /\ x < Disk.base + Disk.size
                 => ~InPool(x) /\ ~InRam(x)
              /\ Disk.base + Disk.size < Word
  BY <1>3, <1>4, <1>5, <1>10 DEF Apart, InPool, InRam
<1> QED
  BY <1>8, <1>9, <1>10

-----------------------------------------------------------------------------
(* Nothing a provisioned boot reads is ever lost.                          *)

LEMMA Intact ==
  ASSUME TypeOK, env \in Envs, Provisioned(env), Untouched
  PROVE  /\ Holds(mem, env.bootAt, BootSize, "boot")
         /\ \A i \in DOMAIN env.images : \A k \in 0 .. env.images[i].size :
               /\ env.images[i].at + k \in Addr
               /\ Linked(mem, env, env.images[i].at + k)
               /\ mem[env.images[i].at + k] = Original(env.images[i].at + k)
         /\ pc \in Early =>
               \A i \in 1 .. Len(env.tags) :
                  mem[Plus(env.tagsAt, i - 1)] = <<"tag", i - 1>>
<1> DEFINE B == env.bootAt
           L == LoadedSize(env)
           T == env.tagsAt
<1>1. /\ B \in Nat /\ BootSize \in Nat /\ L \in Nat
      /\ ImagesAt(env) = B + BootSize /\ BootSize <= L /\ B + L < Word
  BY Chain
<1>2. Word \in Nat \ {0}
  BY WordAssumption
<1>3. ASSUME NEW j \in 0 .. (BootSize - 1)
      PROVE  mem[Plus(B, j)] = <<"boot", j>>
  <2>1. j \in Nat /\ B + j < Word /\ B + j < B + BootSize /\ B + j < B + L
        /\ B <= B + j /\ (B + j) - B = j
    <3> HIDE DEF B, L
    <3> QED
      BY <1>1, <1>2, <1>3
  <2>2. Plus(B, j) = B + j /\ B + j \in Addr
    BY <1>1, <2>1, PlusPlain
  <2>3. Original(B + j) = <<"boot", j>>
    BY <2>1, <2>2, Initially
  <2>4. ~InPool(B + j) /\ ~InRam(B + j)
    BY <2>1, <2>2, Clear
  <2> QED
    BY <2>2, <2>3, <2>4 DEF Untouched
<1>4. ASSUME NEW i \in DOMAIN env.images, NEW k \in 0 .. env.images[i].size
      PROVE  /\ env.images[i].at + k \in Addr
             /\ Linked(mem, env, env.images[i].at + k)
             /\ mem[env.images[i].at + k] = Original(env.images[i].at + k)
  <2> DEFINE x == env.images[i].at + k
  <2>1. /\ env.images[i].at \in Nat /\ env.images[i].size \in Nat
        /\ ImagesAt(env) <= env.images[i].at
        /\ env.images[i].at + 1 + env.images[i].size <= B + L
    BY Chain
  <2>2. /\ x \in Nat /\ x < Word /\ ImagesAt(env) <= x /\ B <= x /\ x < B + L
    <3> HIDE DEF B, L
    <3> QED
      BY <1>1, <1>2, <2>1
  <2>3. x \in Addr
    BY <2>2, AddrDef
  <2>4. Original(x) = <<"img", Minus(x, ImagesAt(env))>>
    BY <2>2, <2>3, Initially
  <2>5. ~InPool(x) /\ ~InRam(x)
    BY <2>2, <2>3, Clear
  <2>6. mem[x] = Original(x)
    BY <2>3, <2>5 DEF Untouched
  <2> HIDE DEF x
  <2>7. x \in Addr /\ Linked(mem, env, x) /\ mem[x] = Original(x)
    BY <2>3, <2>4, <2>6 DEF Linked
  <2> QED
    BY <2>7 DEF x
<1>5. ASSUME pc \in Early, NEW i \in 1 .. Len(env.tags)
      PROVE  mem[Plus(T, i - 1)] = <<"tag", i - 1>>
  <2>1. /\ T \in Nat /\ Len(env.tags) \in Nat
    BY AddrIsNat DEF TypeOK, EnvType
  <2>2. T + Len(env.tags) < Word
    <3>1. Apart(B, L, T, Len(env.tags))
      BY EnvAssumption
    <3> QED
      BY <3>1 DEF Apart
  <2>3. /\ i - 1 \in Nat /\ T + (i - 1) < Word /\ T <= T + (i - 1)
        /\ T + (i - 1) < T + Len(env.tags) /\ (T + (i - 1)) - T = i - 1
    <3> HIDE DEF T
    <3> QED
      BY <1>2, <1>5, <2>1, <2>2
  <2>4. Plus(T, i - 1) = T + (i - 1) /\ T + (i - 1) \in Addr
    BY <2>1, <2>3, PlusPlain
  <2>5. Original(T + (i - 1)) = <<"tag", i - 1>>
    BY <2>3, <2>4, Initially
  <2>6. ~InPool(T + (i - 1))
    BY <2>3, <2>4, Clear
  <2> QED
    BY <1>5, <2>4, <2>5, <2>6 DEF Untouched
<1> QED
  BY <1>3, <1>4, <1>5 DEF Holds

\* A first image of a type is what get_image3 finds, and nothing else.
LEMMA OnlyImage ==
  ASSUME TypeOK, env \in Envs, Provisioned(env), Untouched,
         NEW type, FirstImage(env, type) # 0
  PROVE  GetImage3(type) = {FirstImage(env, type)}
<1> DEFINE f == FirstImage(env, type)
<1>1. /\ f \in DOMAIN env.images /\ FirstOfType(f, type)
      /\ DOMAIN env.images = 1 .. Len(env.images) /\ Len(env.images) \in Nat
  BY ImageFound DEF TypeOK, EnvType
<1>2. \A j \in DOMAIN env.images : Linked(mem, env, env.images[j].at)
  <2> SUFFICES ASSUME NEW j \in DOMAIN env.images
               PROVE  Linked(mem, env, env.images[j].at)
    OBVIOUS
  <2>1. env.images[j].at \in Nat /\ env.images[j].size \in Nat
    BY Chain
  <2>2. 0 \in 0 .. env.images[j].size /\ env.images[j].at + 0 = env.images[j].at
    BY <2>1
  <2> QED
    BY <2>2, Intact
<1>3. f \in GetImage3(type)
  <2>1. \A j \in 1 .. f : j \in DOMAIN env.images
    BY <1>1
  <2> QED
    BY <1>1, <1>2, <2>1 DEF GetImage3, FirstOfType
<1>4. \A i \in GetImage3(type) : i = f
  BY FoundImage, FirstImageIs
<1> QED
  BY <1>3, <1>4

\* An image's contents are the cells behind its header.
LEMMA DataPlain ==
  ASSUME TypeOK, env \in Envs, NEW i \in DOMAIN env.images
  PROVE  /\ env.images[i].at \in Nat /\ env.images[i].size \in Nat
         /\ DataAt(env, i) = env.images[i].at + 1
         /\ DataAt(env, i) + env.images[i].size < Word
         /\ env.bootAt <= DataAt(env, i)
         /\ DataAt(env, i) + env.images[i].size <= env.bootAt + LoadedSize(env)
         /\ \A k \in 0 .. (env.images[i].size - 1) :
               Plus(DataAt(env, i), k) = env.images[i].at + (k + 1)
<1> DEFINE a == env.images[i].at
           n == env.images[i].size
<1>1. /\ a \in Nat /\ n \in Nat /\ env.bootAt \in Nat /\ LoadedSize(env) \in Nat
      /\ BootSize \in Nat
      /\ env.bootAt + BootSize <= a
      /\ a + 1 + n <= env.bootAt + LoadedSize(env)
      /\ env.bootAt + LoadedSize(env) < Word
  BY Chain
<1>2. Word \in Nat
  BY WordAssumption
<1>3. DataAt(env, i) = a + 1
  <2>1. a + 1 < Word
    <3> HIDE DEF a, n
    <3> QED
      BY <1>1, <1>2
  <2> QED
    BY <1>1, <2>1, PlusPlain DEF DataAt
<1>4. \A k \in 0 .. (n - 1) : Plus(a + 1, k) = a + (k + 1)
  <2> SUFFICES ASSUME NEW k \in 0 .. (n - 1) PROVE Plus(a + 1, k) = a + (k + 1)
    OBVIOUS
  <2> HIDE DEF a, n
  <2>1. a + 1 \in Nat /\ k \in Nat /\ (a + 1) + k < Word
        /\ (a + 1) + k = a + (k + 1)
    BY <1>1, <1>2
  <2> QED
    BY <2>1, PlusPlain
<1>5. /\ (a + 1) + n < Word /\ env.bootAt <= a + 1
      /\ (a + 1) + n <= env.bootAt + LoadedSize(env)
  <2> HIDE DEF a, n
  <2> QED
    BY <1>1, <1>2
<1> QED
  BY <1>1, <1>3, <1>4, <1>5

LEMMA NeverLost ==
  ASSUME HandoffInv, env \in Envs, Provisioned(env), Sound
  PROVE  ~LostInput
<1> USE DEF PastRamdisk, PastTree, PastMap, PastMeasure, PastKernel, PastTags
<1>1. /\ TypeOK /\ Untouched /\ HeapReady /\ Entered
  BY DEF HandoffInv, Sound
<1>2. Holds(mem, env.bootAt, BootSize, "boot")
  BY <1>1, Intact
<1>3. ASSUME pc = "atags", cursor <= Len(env.tags)
      PROVE  mem[Plus(env.tagsAt, cursor - 1)] = <<"tag", cursor - 1>>
  <2>1. cursor \in 1 .. Len(env.tags)
    BY <1>1, <1>3 DEF TypeOK, EnvType
  <2> QED
    BY <1>1, <1>3, <2>1, Intact DEF Early
<1>4. ~HeaderLost
  <2> DEFINE f == FirstImage(env, "krnl")
  <2>1. /\ GetImage3("krnl") = {f} /\ f \in DOMAIN env.images
        /\ env.images[f].size > 0
    BY <1>1, OnlyImage, ImageFound DEF Provisioned, Complete
  <2>2. DataAt(env, f) = env.images[f].at + 1 /\ 1 \in 0 .. env.images[f].size
    BY <1>1, <2>1, DataPlain
  <2>3. Linked(mem, env, DataAt(env, f))
    BY <1>1, <2>1, <2>2, Intact
  <2> QED
    BY <2>1, <2>3 DEF HeaderLost
<1>5. ASSUME pc \in PastTags PROVE PoolIntact(mem)
  <2>1. /\ heap = Pool /\ mem[Pool] = <<"pool", 0>>
        /\ mem[Pool + HeapSize - 1] = <<"pool", HeapSize - 1>>
    BY <1>1, <1>5 DEF HeapReady
  <2>2. /\ Pool \in Nat /\ HeapSize \in Nat /\ Pool + HeapSize < Word
        /\ HeapUse \in Nat /\ HeapUse + 2 <= HeapSize
    BY <1>1, Layout
  <2>3. HeapSize - 1 \in Nat /\ Pool + (HeapSize - 1) < Word
        /\ Pool + (HeapSize - 1) = Pool + HeapSize - 1
    BY <2>2, WordAssumption
  <2>4. HeapEnd = Pool + HeapSize - 1
    BY <2>1, <2>2, <2>3, PlusPlain DEF HeapEnd
  <2> QED
    BY <2>1, <2>4 DEF PoolIntact, Provisioned
<1>6. ASSUME pc \in PastTree PROVE NodesIntact
  <2>1. /\ heap = Pool
        /\ \A i \in 0 .. (HeapUse - 1) : mem[Pool + 1 + i] = <<"node", i>>
    BY <1>1, <1>6 DEF HeapReady
  <2>2. /\ Pool \in Nat /\ HeapSize \in Nat /\ Pool + HeapSize < Word
        /\ HeapUse \in Nat /\ HeapUse + 2 <= HeapSize
    BY <1>1, Layout
  <2>3. Plus(heap, 1) = Pool + 1
    <3>1. Pool + 1 < Word
      BY <2>2, WordAssumption
    <3> QED
      BY <2>1, <2>2, <3>1, PlusPlain
  <2>4. \A i \in 0 .. (HeapUse - 1) : Plus(Pool + 1, i) = Pool + 1 + i
    <3> SUFFICES ASSUME NEW i \in 0 .. (HeapUse - 1)
                 PROVE  Plus(Pool + 1, i) = Pool + 1 + i
      OBVIOUS
    <3>1. Pool + 1 \in Nat /\ i \in Nat /\ (Pool + 1) + i < Word
      BY <2>2, WordAssumption
    <3> QED
      BY <3>1, PlusPlain
  <2> QED
    BY <2>1, <2>3, <2>4 DEF NodesIntact, Holds
<1>7. ASSUME pc = "devicetree", NEW i \in GetImage3("xmdt")
      PROVE  /\ env.images[i].data
             /\ \A k \in 0 .. (env.images[i].size - 1) :
                   Linked(mem, env, Plus(DataAt(env, i), k))
  <2>1. /\ i = FirstImage(env, "xmdt") /\ i \in DOMAIN env.images
        /\ env.images[i].data
    BY <1>1, <1>7, OnlyImage, ImageFound DEF Provisioned, Complete
  <2>2. SUFFICES ASSUME NEW k \in 0 .. (env.images[i].size - 1)
                 PROVE  Linked(mem, env, Plus(DataAt(env, i), k))
    BY <2>1
  <2>3. /\ Plus(DataAt(env, i), k) = env.images[i].at + (k + 1)
        /\ k + 1 \in 0 .. env.images[i].size
    BY <1>1, <2>1, DataPlain
  <2> QED
    BY <1>1, <2>1, <2>3, Intact
<1>8. pc = "jump" => entry # Word
  <2>1. PICK c \in DOMAIN env.commands : env.commands[c].cmd = "unixthread"
    BY DEF Provisioned
  <2>2. c \in 1 .. Len(env.commands)
    BY <1>1, EnvFacts
  <2> QED
    BY <1>1, <2>1, <2>2 DEF Entered
<1> QED
  BY <1>2, <1>3, <1>4, <1>5, <1>6, <1>7, <1>8 DEF LostInput

\* The search for a DATA tag is led out of an image that has none.
LEMMA NeverAstray ==
  ASSUME HandoffInv, env \in Envs, Provisioned(env), Sound
  PROVE  Astray = {}
<1> SUFFICES ASSUME NEW i \in Astray PROVE FALSE
  OBVIOUS
<1>1. TypeOK /\ Untouched
  BY DEF HandoffInv, Sound
<1>2. PICK type \in {"krnl", "rdsk", "xmdt"} : i \in GetImage3(type)
  BY DEF Astray, Sought
<1>3. /\ ~env.images[i].data
      /\ i = Len(env.images) \/ ~Linked(mem, env, AfterImage(env, i))
  BY DEF Astray
<1>4. i = FirstImage(env, type)
  BY <1>1, <1>2, OnlyImage DEF Provisioned, Complete
<1>5. type = "rdsk" /\ i < Len(env.images)
  BY <1>2, <1>3, <1>4 DEF Provisioned, Complete, DiskBounded
<1>6. DOMAIN env.images = 1 .. Len(env.images) /\ Len(env.images) \in Nat
  BY <1>1 DEF TypeOK, EnvType
<1>7. i \in 1 .. Len(env.images)
  BY <1>2, <1>6 DEF GetImage3
<1>8. i + 1 \in DOMAIN env.images /\ i + 1 # 1 /\ (i + 1) - 1 = i
  BY <1>5, <1>6, <1>7
<1>9. AfterImage(env, i) = env.images[i + 1].at
  BY <1>8, EnvAssumption DEF Chained
<1>10. 0 \in 0 .. env.images[i + 1].size
       /\ env.images[i + 1].at + 0 = env.images[i + 1].at
  BY <1>1, <1>8, DataPlain
<1>11. Linked(mem, env, env.images[i + 1].at)
  BY <1>1, <1>8, <1>10, Intact
<1> QED
  BY <1>3, <1>5, <1>7, <1>9, <1>11

-----------------------------------------------------------------------------
(* The steps.                                                              *)

\* The layout is the environment's.
LEMMA LayoutFixed ==
  ASSUME env' = env
  PROVE  /\ Phys' = Phys /\ Pool' = Pool /\ Disk' = Disk
         /\ KernelAt' = KernelAt /\ KernelEnd' = KernelEnd
         /\ DiskAt' = DiskAt /\ DiskEnd' = DiskEnd
         /\ TreeSize' = TreeSize /\ TreeEnd' = TreeEnd /\ ArgsAt' = ArgsAt
         /\ \A x : /\ InPool(x)' = InPool(x) /\ InRam(x)' = InRam(x)
                   /\ Original(x)' = Original(x)
                   /\ Offset(x)' = Offset(x) /\ Source(x)' = Source(x)
  BY DEF Phys, Pool, Disk, KernelAt, KernelEnd, DiskAt, DiskEnd, TreeSize,
         TreeEnd, ArgsAt, InPool, InRam, Original, Offset, Source

\* A segment in the reserved range and its file part in the image.
LEMMA SegmentPlain ==
  ASSUME TypeOK, env \in Envs, Provisioned(env), Untouched, NEW c \in Segments(env)
  PROVE  LET s == env.commands[c] IN
         /\ c \in 1 .. Len(env.commands) /\ s.cmd = "segment"
         /\ s.vmsize \in Nat /\ s.filesize \in Nat /\ s.filesize <= s.vmsize
         /\ Offset(c) \in Nat /\ Minus(s.vmaddr, KernelVMAddr) = Offset(c)
         /\ KernelAt + Offset(c) + s.vmsize <= KernelEnd
         /\ Plus(KernelAt, Offset(c)) = KernelAt + Offset(c)
         /\ Source(c) \in Nat /\ Source(c) + s.filesize < Word
         /\ Plus(DataAt(env, FirstImage(env, "krnl")), s.fileoff) = Source(c)
         /\ \A i \in 0 .. (s.filesize - 1) :
               mem[Source(c) + i] = Original(Source(c) + i)
<1> DEFINE s == env.commands[c]
           f == FirstImage(env, "krnl")
           n == s.filesize
           V == VmSize(env.commands)
<1>1. /\ c \in 1 .. Len(env.commands) /\ s.cmd = "segment" /\ s \in LoadCommand
  BY EnvFacts DEF Segments
<1>2. /\ s.vmaddr \in Addr /\ s.vmaddr \in Nat /\ s.vmsize \in Nat /\ n \in Nat
      /\ s.fileoff \in Nat /\ KernelVMAddr \in Addr /\ KernelVMAddr \in Nat
  BY <1>1, AddrIsNat, ConstantTypes DEF LoadCommand
<1>3. /\ s.vmaddr >= KernelVMAddr /\ n <= s.vmsize
      /\ (s.vmaddr - KernelVMAddr) + s.vmsize <= V
  BY DEF Provisioned, SegmentsFit
<1>4. Offset(c) = s.vmaddr - KernelVMAddr /\ Offset(c) \in Nat
  BY <1>2, <1>3 DEF Offset
<1>5. Minus(s.vmaddr, KernelVMAddr) = Offset(c)
  <2> HIDE DEF s
  <2> QED
    BY <1>2, <1>3, <1>4, WrapOnce
<1>6. /\ KernelAt \in Nat /\ V \in Nat /\ KernelEnd \in Nat
      /\ KernelEnd = KernelAt + V
      /\ KernelEnd + RamdiskAlign < Word /\ RamdiskAlign \in Nat
      /\ Word \in Nat
  BY Layout, ConstantTypes, AddrIsNat
<1>7. /\ KernelAt + Offset(c) + s.vmsize <= KernelEnd
      /\ KernelAt + Offset(c) < Word
  <2> HIDE DEF s, V
  <2> QED
    BY <1>2, <1>3, <1>4, <1>6
<1>8. Plus(KernelAt, Offset(c)) = KernelAt + Offset(c)
  BY <1>4, <1>6, <1>7, PlusPlain
<1>9. f \in DOMAIN env.images
  BY ImageFound DEF Provisioned, Complete
<1>10. /\ env.images[f].at \in Nat /\ env.images[f].size \in Nat
       /\ DataAt(env, f) = env.images[f].at + 1
       /\ DataAt(env, f) + env.images[f].size < Word
  BY <1>9, DataPlain
<1>11. s.fileoff + n <= env.images[f].size
  BY DEF Provisioned, FilesFit
<1>12. Source(c) = DataAt(env, f) + s.fileoff
  BY DEF Source
<1>13. /\ Source(c) \in Nat /\ Source(c) + n < Word /\ Source(c) < Word
       /\ DataAt(env, f) \in Nat
  <2> HIDE DEF s, f, n
  <2> QED
    BY <1>2, <1>6, <1>10, <1>11, <1>12
<1>14. Plus(DataAt(env, f), s.fileoff) = Source(c)
  BY <1>2, <1>12, <1>13, PlusPlain
<1>15. ASSUME NEW i \in 0 .. (n - 1)
       PROVE  mem[Source(c) + i] = Original(Source(c) + i)
  <2> DEFINE k == 1 + s.fileoff + i
  <2>1. k \in 0 .. env.images[f].size /\ env.images[f].at + k = Source(c) + i
    <3> HIDE DEF s, f, n
    <3> QED
      BY <1>2, <1>10, <1>11, <1>12
  <2> HIDE DEF k
  <2> QED
    BY <1>9, <2>1, Intact
<1> QED
  BY <1>1, <1>2, <1>3, <1>4, <1>5, <1>7, <1>8, <1>13, <1>14, <1>15

LEMMA SegmentsApart ==
  ASSUME TypeOK, env \in Envs, Provisioned(env),
         NEW c \in Segments(env), NEW d \in Segments(env), c # d
  PROVE  \/ Offset(c) + env.commands[c].vmsize <= Offset(d)
         \/ Offset(d) + env.commands[d].vmsize <= Offset(c)
<1>1. \A k \in Segments(env) : /\ k \in Nat
                              /\ env.commands[k].vmaddr \in Nat
                              /\ env.commands[k].vmsize \in Nat
  <2>1. \A k \in Segments(env) : k \in 1 .. Len(env.commands)
                                /\ env.commands[k] \in LoadCommand
    BY EnvFacts DEF Segments
  <2> QED
    BY <2>1, AddrIsNat DEF LoadCommand
<1>2. KernelVMAddr \in Nat
  BY ConstantTypes, AddrIsNat
<1>3. c < d \/ d < c
  BY <1>1
<1>4. \/ env.commands[c].vmaddr + env.commands[c].vmsize <= env.commands[d].vmaddr
      \/ env.commands[d].vmaddr + env.commands[d].vmsize <= env.commands[c].vmaddr
  BY <1>3 DEF Provisioned, SegmentsFit
<1> QED
  BY <1>1, <1>2, <1>4 DEF Offset

\* A step of a provisioned boot that keeps the invariant so far; the lemmas
\* below show, action by action, that Sound is kept with it.
Provided ==
    /\ HandoffInv /\ HandoffInv'
    /\ env \in Envs /\ env' = env
    /\ Provisioned(env)
    /\ Sound

LEMMA EarlyStep ==
  ASSUME Provided,
         Start \/ CheckMachine \/ PopulateCommandLine \/ PopulateRamdisk \/ SkipTag
  PROVE  Sound'
<1> USE DEF PastRamdisk, PastTree, PastMap, PastMeasure, PastKernel, PastTags
<1>1. Complete(env) /\ LinesFit(env) /\ env' = env /\ Sound /\ TypeOK
  BY DEF Provided, Provisioned, HandoffInv
<1>2. /\ pc \in {"start", "core", "atags"} /\ pc' \in {"core", "atags"}
      /\ mem' = mem /\ heap' = heap /\ rangeRAMDisk' = rangeRAMDisk
      /\ Seen("is_first_region")' = Seen("is_first_region")
      /\ "is_malloc_inited" \in flags => "is_malloc_inited" \in flags'
  <2>1. CASE Start \/ CheckMachine \/ SkipTag
    BY <1>1, <2>1
    DEF Start, CheckMachine, SkipTag, AtTag, At, found, handoff, Complete, Seen
  <2>2. CASE PopulateCommandLine
    <3>1. /\ cursor \in DOMAIN env.tags /\ Current = env.tags[cursor]
          /\ env.tags[cursor].tag = "cmdline"
      BY <1>1, <2>2, EnvFacts DEF PopulateCommandLine, AtTag, Current, TypeOK
    <3>2. Current.size < BootLineLength
      BY <1>1, <3>1 DEF LinesFit
    <3> QED
      BY <2>2, <3>2 DEF PopulateCommandLine, AtTag, At, handoff, Seen
  <2>3. CASE PopulateRamdisk
    BY <2>3 DEF PopulateRamdisk, AtTag, At, handoff, Seen
  <2> QED
    BY <2>1, <2>2, <2>3
<1> QED
  BY <1>1, <1>2, LayoutFixed
  DEF Sound, Alive, Untouched, HeapReady, Placed, KernelInPlace, DiskInPlace,
      TreeInPlace, ArgsInPlace, Early

LEMMA MemoryStep ==
  ASSUME Provided, PopulateMemory
  PROVE  Sound'
<1> USE DEF PastRamdisk, PastTree, PastMap, PastMeasure, PastKernel, PastTags
<1>1. /\ Sound /\ TypeOK /\ env' = env /\ Provisioned(env) /\ Counted
      /\ TerminatedList(env) /\ ~env.stalePool
  BY DEF Provided, Provisioned, HandoffInv, Sound
<1>2. pc = "atags" /\ rangeRAMDisk' = rangeRAMDisk /\ AtTag("mem")
  BY DEF PopulateMemory, AtTag, At, handoff
<1>3. CASE Seen("is_first_region")
  <2>1. UNCHANGED <<pc, flags, heap, mem>>
    BY <1>3 DEF PopulateMemory
  <2> QED
    BY <1>1, <1>2, <2>1, LayoutFixed
    DEF Sound, Alive, Untouched, HeapReady, Placed, KernelInPlace, DiskInPlace,
        TreeInPlace, ArgsInPlace, Early, Seen
<1>4. CASE ~Seen("is_first_region")
  <2>1. /\ cursor \in DOMAIN env.tags /\ Current = env.tags[cursor]
        /\ env.tags[cursor].tag = "mem" /\ TagsRead = cursor - 1
        /\ DOMAIN env.tags = 1 .. Len(env.tags)
    BY <1>1, <1>2, EnvFacts DEF AtTag, Current, TypeOK, TagsRead
  <2>2. FirstOfKind(cursor, "mem")
    <3>1. ReadTags("mem") = {}
      BY <1>1, <1>4 DEF Counted
    <3> QED
      BY <2>1, <3>1 DEF ReadTags, FirstOfKind
  <2>3. cursor = FirstTag(env, "mem")
    BY <1>1, <2>1, <2>2, FirstTagIs
  <2> DEFINE start == Current.start
             size == Current.size
             base == Minus(Plus(start, size), HeapSize)
  <2>4. /\ start \in Nat /\ size \in Nat /\ Phys = start
        /\ Pool = (start + size) - HeapSize
    BY <1>1, <2>1, <2>3, MemoryTag, AddrIsNat DEF Phys, Pool
  <2>5. /\ Pool \in Nat \ {0} /\ HeapSize \in Nat /\ Pool + HeapSize < Word
        /\ HeapUse \in Nat /\ HeapUse + 2 <= HeapSize
        /\ Phys \in Nat /\ ZeroSize \in Nat /\ Phys + ZeroSize <= Pool
    BY <1>1, Layout
  <2>6. base = Pool
    <3> HIDE DEF start, size
    <3>1. start + size < Word /\ HeapSize <= start + size
      BY <2>4, <2>5
    <3>2. Plus(start, size) = start + size /\ start + size \in Addr
      BY <2>4, <3>1, PlusPlain
    <3>3. Minus(start + size, HeapSize) = (start + size) - HeapSize
      BY <2>4, <3>1, <3>2, ConstantTypes, WrapOnce
    <3> QED
      BY <2>4, <3>2, <3>3
  <2>7. /\ pc' = pc /\ heap' = Pool
        /\ flags' = flags \cup {"is_first_region", "is_malloc_inited"}
        /\ mem' = [mem EXCEPT ![Pool] = <<"pool", 0>>,
                              ![Plus(Pool, HeapSize - 1)] = <<"pool", HeapSize - 1>>]
    <3>1. base # 0
      BY <2>5, <2>6
    <3> HIDE DEF base
    <3>2. LET b == base IN
          /\ pc' = pc /\ heap' = b
          /\ flags' = flags \cup {"is_first_region", "is_malloc_inited"}
          /\ mem' = [mem EXCEPT ![b] = <<"pool", 0>>,
                                ![Plus(b, HeapSize - 1)] = <<"pool", HeapSize - 1>>]
      BY <1>1, <1>4, <3>1 DEF PopulateMemory, base
    <3> QED
      BY <2>6, <3>2
  <2>8. /\ Pool \in Addr /\ Pool + (HeapSize - 1) \in Addr
        /\ Plus(Pool, HeapSize - 1) = Pool + (HeapSize - 1)
        /\ Pool + HeapSize - 1 = Pool + (HeapSize - 1)
        /\ Pool # Pool + (HeapSize - 1)
    <3>1. HeapSize - 1 \in Nat /\ Pool + (HeapSize - 1) < Word /\ Pool < Word
      BY <2>5, WordAssumption
    <3> QED
      BY <2>5, <3>1, PlusPlain, AddrDef
  <2>9. /\ mem'[Pool] = <<"pool", 0>>
        /\ mem'[Pool + HeapSize - 1] = <<"pool", HeapSize - 1>>
        /\ \A x \in Addr : ~InPool(x) => mem'[x] = mem[x]
    <3>1. mem \in [Addr -> Cell]
      BY <1>1 DEF TypeOK
    <3>2. InPool(Pool) /\ InPool(Pool + (HeapSize - 1))
      BY <2>5 DEF InPool
    <3> QED
      BY <2>7, <2>8, <3>1, <3>2
  <2> HIDE DEF start, size, base
  <2> QED
    BY <1>1, <1>2, <2>7, <2>9, LayoutFixed
    DEF Sound, Alive, Untouched, HeapReady, Placed, KernelInPlace, DiskInPlace,
        TreeInPlace, ArgsInPlace, Early
<1> QED
  BY <1>3, <1>4

LEMMA LastTagStep ==
  ASSUME Provided, LastTag
  PROVE  Sound'
<1> USE DEF PastRamdisk, PastTree, PastMap, PastMeasure, PastKernel, PastTags
<1>1. /\ Sound /\ TypeOK /\ env' = env /\ Provisioned(env) /\ Counted
  BY DEF Provided, Provisioned, HandoffInv, Sound
<1>2. /\ pc = "atags" /\ cursor > Len(env.tags)
      /\ UNCHANGED <<mem, flags, heap, gBootArgs, rangeRAMDisk>>
      /\ pc' = IF "is_malloc_inited" \in flags THEN "darwin" ELSE "halted"
  BY DEF LastTag, At, found, handoff
<1>3. TagsRead = Len(env.tags)
  BY <1>1, <1>2 DEF TagsRead, Counted, TypeOK, EnvType
<1>4. /\ FirstTag(env, "mem") \in ReadTags("mem")
      /\ FirstOfKind(FirstTag(env, "mem"), "mem")
  BY <1>1, <1>3, MemoryTag, EnvFacts DEF ReadTags, FirstOfKind
<1>5. /\ Seen("is_first_region") /\ gBootArgs.physBase = Phys
  BY <1>1, <1>4 DEF Counted, Phys
<1>6. pc' = "darwin"
  BY <1>1, <1>2, <1>5 DEF Sound, HeapReady
<1> QED
  BY <1>1, <1>2, <1>5, <1>6, LayoutFixed
  DEF Sound, Alive, Untouched, HeapReady, Placed, KernelInPlace, DiskInPlace,
      TreeInPlace, ArgsInPlace, Early, Seen

LEMMA StartDarwinStep ==
  ASSUME Provided, StartDarwin
  PROVE  Sound'
<1> USE DEF PastRamdisk, PastTree, PastMap, PastMeasure, PastKernel, PastTags
<1>1. /\ Sound /\ TypeOK /\ env' = env /\ Provisioned(env)
      /\ pc = "darwin" /\ pc' = "kernel_image"
      /\ UNCHANGED <<flags, heap, rangeRAMDisk>>
      /\ mem \in [Addr -> Cell]
  BY DEF Provided, HandoffInv, StartDarwin, At, found, handoff, TypeOK
<1>2. /\ Pool \in Nat /\ HeapSize \in Nat /\ Pool + HeapSize < Word
      /\ HeapUse \in Nat /\ HeapUse + 2 <= HeapSize
      /\ Phys \in Nat /\ ZeroSize \in Nat /\ Phys + ZeroSize <= Pool
      /\ Word \in Nat
      /\ KernelAt = Phys + PageOffset /\ PageOffset \in Nat /\ KernelAt \in Nat
      /\ KernelAt < Word
  <2>1. /\ KernelEnd = KernelAt + VmSize(env.commands)
        /\ VmSize(env.commands) \in Nat /\ KernelEnd + RamdiskAlign < Word
        /\ RamdiskAlign \in Nat /\ KernelAt \in Nat /\ Word \in Nat
    BY <1>1, Layout, ConstantTypes, AddrIsNat
  <2>2. KernelAt < Word
    BY <2>1
  <2> QED
    BY <1>1, <2>1, <2>2, Layout
<1>3. gBootArgs.physBase = Phys
  BY <1>1 DEF Sound, Placed
<1>4. /\ region'.base = KernelAt /\ region'.pos = KernelAt
      /\ gBootArgs'.physBase = Phys /\ gBootArgs'.virtBase = VirtBase
  <2>1. Plus(gBootArgs.physBase, PageOffset) = KernelAt
    BY <1>2, <1>3, PlusPlain
  <2> QED
    BY <1>1, <1>3, <2>1 DEF StartDarwin, TypeOK, BootArgs
<1>5. \A x \in Addr : mem'[x] = IF InRam(x) THEN Zero ELSE mem[x]
  <2>1. mem' = Bzero(mem, Phys, ZeroSize) /\ Phys + ZeroSize < Word
    BY <1>2, <1>3 DEF StartDarwin
  <2> QED
    BY <1>1, <1>2, <2>1, ClearPlain DEF InRam
<1>6. /\ Pool \in Addr /\ ~InRam(Pool)
      /\ Pool + HeapSize - 1 \in Addr /\ ~InRam(Pool + HeapSize - 1)
  BY <1>2, AddrDef DEF InRam
<1> QED
  BY <1>1, <1>4, <1>5, <1>6, LayoutFixed
  DEF Sound, Alive, Untouched, HeapReady, Placed, KernelInPlace, DiskInPlace,
      TreeInPlace, ArgsInPlace, Early, Seen

LEMMA PrepareKernelStep ==
  ASSUME Provided, PrepareKernel
  PROVE  Sound'
<1> USE DEF PastRamdisk, PastTree, PastMap, PastMeasure, PastKernel, PastTags
<1> DEFINE f == FirstImage(env, "krnl")
<1>1. /\ Sound /\ TypeOK /\ env' = env /\ Provisioned(env) /\ env \in Envs
      /\ Untouched /\ pc = "kernel_image"
      /\ UNCHANGED <<mem, flags, heap, gBootArgs, region, kernelBase, rangeRAMDisk>>
  BY DEF Provided, HandoffInv, PrepareKernel, At, found, handoff, Sound
<1>2. /\ GetImage3("krnl") = {f} /\ f \in DOMAIN env.images
      /\ env.images[f].data /\ env.images[f].size > 0 /\ env.macho
  BY <1>1, OnlyImage, ImageFound DEF Provisioned, Complete
<1>3. Linked(mem, env, DataAt(env, f))
  <2>1. DataAt(env, f) = env.images[f].at + 1 /\ 1 \in 0 .. env.images[f].size
    BY <1>1, <1>2, DataPlain
  <2> QED
    BY <1>1, <1>2, <2>1, Intact
<1>4. pc' = "measure"
  BY <1>2, <1>3 DEF PrepareKernel
<1> QED
  BY <1>1, <1>4, LayoutFixed
  DEF Sound, Alive, Untouched, HeapReady, Placed, KernelInPlace, DiskInPlace,
      TreeInPlace, ArgsInPlace, Early, Seen

LEMMA MeasureCommandStep ==
  ASSUME Provided, MeasureCommand
  PROVE  Sound'
<1>1. /\ Sound /\ env' = env /\ pc = "measure"
      /\ UNCHANGED <<pc, mem, flags, heap, gBootArgs, region, kernelBase,
                     rangeRAMDisk>>
  BY DEF Provided, MeasureCommand, At, found, handoff
<1> QED
  BY <1>1, LayoutFixed
  DEF Sound, Alive, Untouched, HeapReady, Placed, KernelInPlace, DiskInPlace,
      TreeInPlace, ArgsInPlace, Early, Seen, PastRamdisk, PastTree, PastMap,
      PastMeasure, PastKernel, PastTags

LEMMA ReserveKernelStep ==
  ASSUME Provided, ReserveKernel
  PROVE  Sound'
<1> USE DEF PastRamdisk, PastTree, PastMap, PastMeasure, PastKernel, PastTags
<1> DEFINE V == VmSize(env.commands)
<1>1. /\ Sound /\ TypeOK /\ env' = env /\ Provisioned(env) /\ env \in Envs
      /\ Untouched /\ Measured /\ pc = "measure" /\ cursor > Len(env.commands)
      /\ UNCHANGED <<mem, flags, heap, gBootArgs, rangeRAMDisk>> /\ cursor' = 1
  BY DEF Provided, HandoffInv, ReserveKernel, At, found, handoff, Sound
<1>2. kernelSize = V /\ V > 0
  <2>1. cursor - 1 = Len(env.commands)
    BY <1>1 DEF Measured, TypeOK, EnvType
  <2> QED
    BY <1>1, <2>1 DEF Measured, VmSize, Provisioned, Complete
<1>3. /\ V \in Nat /\ KernelAt \in Nat /\ KernelEnd = KernelAt + V
      /\ KernelEnd \in Nat /\ KernelEnd < Word /\ Phys \in Nat /\ ZeroSize \in Nat
      /\ Phys <= KernelAt /\ KernelEnd <= Phys + ZeroSize
  <2>1. /\ V \in Nat /\ KernelAt \in Nat /\ KernelEnd = KernelAt + V
        /\ KernelEnd \in Nat /\ KernelEnd + RamdiskAlign < Word
        /\ KernelAt = Phys + PageOffset /\ PageOffset \in Nat /\ Phys \in Nat
        /\ ZeroSize \in Nat /\ KernelEnd <= DiskAt /\ DiskAt \in Nat
        /\ Disk.size \in Nat /\ DiskAt + Disk.size <= Phys + ZeroSize
        /\ Word \in Nat /\ RamdiskAlign \in Nat
    BY <1>1, Layout, ConstantTypes, AddrIsNat
  <2> HIDE DEF V
  <2> QED
    BY <2>1
<1>4. /\ pc' = "map" /\ kernelBase' = KernelAt
      /\ region'.base = KernelAt /\ region'.pos = KernelEnd
  <2>1. region.base = KernelAt /\ region.pos = KernelAt
    BY <1>1 DEF Sound, Placed
  <2>2. Plus(KernelAt, V) = KernelEnd
    BY <1>3, PlusPlain
  <2> QED
    BY <1>1, <1>2, <2>1, <2>2
    DEF ReserveKernel, Reserve, ReserveStart, ReservePos, TypeOK
<1>5. ASSUME NEW c \in Segments(env), NEW i \in 0 .. (env.commands[c].vmsize - 1)
      PROVE  mem[KernelAt + Offset(c) + i] = Zero
  <2>1. /\ env.commands[c].vmsize \in Nat /\ Offset(c) \in Nat
        /\ KernelAt + Offset(c) + env.commands[c].vmsize <= KernelEnd
    BY <1>1, SegmentPlain
  <2>2. /\ KernelAt + Offset(c) + i \in Addr /\ InRam(KernelAt + Offset(c) + i)
    BY <1>3, <2>1, AddrDef, WordAssumption DEF InRam
  <2> QED
    BY <1>1, <2>2 DEF Sound, KernelInPlace
<1>6. \A c \in Segments(env) : ~(c < 1)
  BY <1>1, EnvFacts DEF Segments
<1>7. KernelInPlace'
  BY <1>1, <1>4, <1>5, <1>6, LayoutFixed DEF KernelInPlace
<1> QED
  BY <1>1, <1>4, <1>7, LayoutFixed
  DEF Sound, Alive, Untouched, HeapReady, Placed, DiskInPlace,
      TreeInPlace, ArgsInPlace, Early, Seen

\* The steps of the mapping loop that copy nothing.
LEMMA MapOtherStep ==
  ASSUME Provided, MapThread \/ MapOther \/ MapDone
  PROVE  Sound'
<1> USE DEF PastRamdisk, PastTree, PastMap, PastMeasure, PastKernel, PastTags
<1>1. /\ Sound /\ TypeOK /\ env' = env /\ pc = "map"
      /\ pc' \in {"map", "devicetree"}
      /\ UNCHANGED <<mem, flags, heap, gBootArgs, region, kernelBase, rangeRAMDisk>>
  BY DEF Provided, HandoffInv, MapThread, MapOther, MapDone, At, found, handoff,
         placement
<1>2. \A c \in Segments(env) : (pc' = "map" => c < cursor') <=> c < cursor
  <2>1. \A c \in Segments(env) : /\ c \in 1 .. Len(env.commands)
                                /\ env.commands[c].cmd = "segment"
    BY <1>1, EnvFacts DEF Segments
  <2>2. cursor \in Nat /\ Len(env.commands) \in Nat
    BY <1>1 DEF TypeOK, EnvType
  <2>3. CASE MapThread \/ MapOther
    <3>1. /\ pc' = "map" /\ cursor' = cursor + 1
          /\ env.commands[cursor].cmd # "segment"
      BY <1>1, <2>3 DEF MapThread, MapOther, At, Command
    <3> QED
      BY <2>1, <2>2, <3>1
  <2>4. CASE MapDone
    <3>1. pc' = "devicetree" /\ cursor > Len(env.commands)
      BY <2>4 DEF MapDone
    <3> QED
      BY <2>1, <2>2, <3>1
  <2> QED
    BY <2>3, <2>4
<1>3. KernelInPlace'
  BY <1>1, <1>2, LayoutFixed DEF KernelInPlace, Sound
<1> QED
  BY <1>1, <1>3, LayoutFixed
  DEF Sound, Alive, Untouched, HeapReady, Placed, DiskInPlace,
      TreeInPlace, ArgsInPlace, Early, Seen

\* The step writes only to the n cells from a on.
Writes(a, n) == \A x \in Addr : ~(a <= x /\ x < a + n) => mem'[x] = mem[x]

\* A write to the RAM that was cleared leaves what lies outside it.
LEMMA WriteInRam ==
  ASSUME Provided, pc \in PastMeasure, pc' \in PastMeasure,
         pc' \in PastTree => pc \in PastTree,
         flags' = flags, heap' = heap,
         NEW a \in Nat, NEW n \in Nat, Phys <= a, a + n <= Phys + ZeroSize,
         Writes(a, n)
  PROVE  Untouched' /\ HeapReady'
<1> USE DEF PastRamdisk, PastTree, PastMap, PastMeasure, PastKernel, PastTags
<1>1. /\ Untouched /\ HeapReady /\ TypeOK /\ env' = env /\ Provisioned(env)
  BY DEF Provided, HandoffInv, Sound
<1>2. /\ Pool \in Nat /\ HeapSize \in Nat /\ Pool + HeapSize < Word
      /\ HeapUse \in Nat /\ HeapUse + 2 <= HeapSize
      /\ Phys \in Nat /\ ZeroSize \in Nat /\ Phys + ZeroSize <= Pool
      /\ Word \in Nat
  BY <1>1, Layout
<1>3. Untouched'
  <2>1. \A x \in Addr : x \in Nat /\ (~InRam(x) => ~(a <= x /\ x < a + n))
    BY <1>2, AddrDef DEF InRam
  <2> QED
    BY <1>1, <2>1, LayoutFixed DEF Untouched, Early, Writes
<1>4. \A x \in Addr : Pool <= x => mem'[x] = mem[x]
  BY <1>2, AddrDef DEF Writes
<1>5. /\ Pool \in Addr /\ Pool + HeapSize - 1 \in Addr
      /\ Pool <= Pool + HeapSize - 1
      /\ \A i \in 0 .. (HeapUse - 1) : /\ Pool + 1 + i \in Addr
                                       /\ Pool <= Pool + 1 + i
  BY <1>2, AddrDef
<1>6. HeapReady'
  <2>1. Seen("is_first_region")' = Seen("is_first_region") /\ pc \in PastTags
    BY DEF Seen
  <2>2. /\ Pool' = Pool /\ mem'[Pool] = mem[Pool]
        /\ mem'[Pool + HeapSize - 1] = mem[Pool + HeapSize - 1]
        /\ \A i \in 0 .. (HeapUse - 1) : mem'[Pool + 1 + i] = mem[Pool + 1 + i]
    BY <1>1, <1>2, <1>4, <1>5, LayoutFixed
  <2> HIDE DEF PastTree, PastTags
  <2> QED
    BY <1>1, <2>1, <2>2 DEF HeapReady
<1> QED
  BY <1>3, <1>6

\* A write behind the kernel leaves its segments.
LEMMA KernelKept ==
  ASSUME Provided, pc \in PastMap, pc' \in PastMap,
         NEW a \in Nat, NEW n \in Nat, KernelEnd <= a, Writes(a, n)
  PROVE  KernelInPlace'
<1> USE DEF PastRamdisk, PastTree, PastMap, PastMeasure, PastKernel, PastTags
<1>1. /\ KernelInPlace /\ TypeOK /\ env' = env /\ Provisioned(env)
      /\ Untouched /\ env \in Envs
  BY DEF Provided, HandoffInv, Sound
<1>2. ASSUME NEW c \in Segments(env), NEW i \in 0 .. (env.commands[c].vmsize - 1)
      PROVE  mem'[KernelAt + Offset(c) + i] = mem[KernelAt + Offset(c) + i]
  <2>1. /\ env.commands[c].vmsize \in Nat /\ Offset(c) \in Nat
        /\ KernelAt + Offset(c) + env.commands[c].vmsize <= KernelEnd
        /\ KernelAt \in Nat /\ KernelEnd \in Nat
        /\ KernelEnd + RamdiskAlign < Word /\ RamdiskAlign \in Nat
        /\ Word \in Nat
    BY <1>1, SegmentPlain, Layout, ConstantTypes, AddrIsNat
  <2>2. KernelAt + Offset(c) + i \in Addr /\ KernelAt + Offset(c) + i < a
    BY <2>1, AddrDef
  <2> QED
    BY <2>2, AddrDef DEF Writes
<1> QED
  BY <1>1, <1>2, LayoutFixed DEF KernelInPlace

\* A write behind the ramdisk leaves it.
LEMMA DiskKept ==
  ASSUME Provided, pc \in PastRamdisk, pc' \in PastRamdisk,
         rangeRAMDisk' = rangeRAMDisk,
         NEW a \in Nat, NEW n \in Nat, DiskEnd <= a, Writes(a, n)
  PROVE  DiskInPlace'
<1>1. /\ DiskInPlace /\ TypeOK /\ env' = env /\ Provisioned(env)
  BY DEF Provided, HandoffInv, Sound
<1>2. ASSUME Disk.base # 0, NEW i \in 0 .. (Disk.size - 1)
      PROVE  mem'[DiskAt + i] = mem[DiskAt + i]
  <2>1. /\ Disk.size \in Nat /\ DiskAt \in Nat /\ DiskEnd = DiskAt + Disk.size
        /\ DiskAt + Disk.size <= Phys + ZeroSize /\ Phys + ZeroSize <= Pool
        /\ Pool + HeapSize < Word /\ Phys \in Nat /\ ZeroSize \in Nat
        /\ Pool \in Nat /\ HeapSize \in Nat /\ Word \in Nat
    BY <1>1, <1>2, Layout
  <2>2. DiskAt + i \in Addr /\ DiskAt + i < a
    BY <2>1, AddrDef
  <2> QED
    BY <2>2, AddrDef DEF Writes
<1> QED
  BY <1>1, <1>2, LayoutFixed DEF DiskInPlace

LEMMA MapSegmentStep ==
  ASSUME Provided, MapSegment
  PROVE  Sound'
<1> USE DEF PastRamdisk, PastTree, PastMap, PastMeasure, PastKernel, PastTags
<1> DEFINE c == cursor
           s == env.commands[c]
           to == KernelAt + Offset(c)
           f == FirstImage(env, "krnl")
<1>1. /\ Sound /\ TypeOK /\ env' = env /\ Provisioned(env) /\ env \in Envs
      /\ Untouched /\ KernelInPlace /\ pc = "map" /\ pc' = "map"
      /\ cursor' = cursor + 1 /\ mem \in [Addr -> Cell]
      /\ UNCHANGED <<flags, heap, gBootArgs, region, kernelBase, rangeRAMDisk>>
  BY DEF Provided, HandoffInv, MapSegment, At, found, handoff, placement, Sound,
         TypeOK
<1>2. c \in Segments(env)
  BY <1>1, EnvFacts DEF MapSegment, Command, Segments, TypeOK
<1>3. /\ s.vmsize \in Nat /\ s.filesize \in Nat /\ s.filesize <= s.vmsize
      /\ Offset(c) \in Nat /\ Minus(s.vmaddr, KernelVMAddr) = Offset(c)
      /\ KernelAt + Offset(c) + s.vmsize <= KernelEnd
      /\ Plus(KernelAt, Offset(c)) = KernelAt + Offset(c)
      /\ Source(c) \in Nat /\ Source(c) + s.filesize < Word
      /\ Plus(DataAt(env, f), s.fileoff) = Source(c)
      /\ \A i \in 0 .. (s.filesize - 1) :
            mem[Source(c) + i] = Original(Source(c) + i)
  BY <1>1, <1>2, SegmentPlain
<1>4. /\ KernelAt \in Nat /\ KernelEnd \in Nat /\ KernelEnd < Word
      /\ Phys \in Nat /\ ZeroSize \in Nat
      /\ Phys <= KernelAt /\ KernelEnd <= Phys + ZeroSize
      /\ Word \in Nat
  <2>1. /\ KernelAt \in Nat /\ KernelEnd \in Nat
        /\ KernelEnd + RamdiskAlign < Word
        /\ KernelAt = Phys + PageOffset /\ PageOffset \in Nat /\ Phys \in Nat
        /\ ZeroSize \in Nat /\ KernelEnd <= DiskAt /\ DiskAt \in Nat
        /\ Disk.size \in Nat /\ DiskAt + Disk.size <= Phys + ZeroSize
        /\ Word \in Nat /\ RamdiskAlign \in Nat
    BY <1>1, Layout, ConstantTypes, AddrIsNat
  <2> QED
    BY <2>1
<1>5. mem' = Bcopy(mem, Source(c), to, s.filesize)
  <2>1. GetImage3("krnl") = {f}
    BY <1>1, OnlyImage DEF Provisioned, Complete
  <2>2. kernelBase = KernelAt
    BY <1>1 DEF Sound, Placed
  <2>3. LoadAddr(s) = to
    BY <1>3, <2>2 DEF LoadAddr
  <2> QED
    BY <1>3, <2>1, <2>3 DEF MapSegment, Command
<1>6. to \in Nat /\ to + s.filesize < Word /\ to + s.vmsize < Word
  <2> HIDE DEF s
  <2> QED
    BY <1>3, <1>4
<1>7. \A x \in Addr : mem'[x] = IF to <= x /\ x < to + s.filesize
                               THEN mem[Source(c) + (x - to)] ELSE mem[x]
  <2> HIDE DEF s, to
  <2> QED
    BY <1>1, <1>3, <1>5, <1>6, CopyPlain
<1>8. Untouched' /\ HeapReady'
  <2> HIDE DEF s
  <2>1. Phys <= to /\ to + s.filesize <= Phys + ZeroSize /\ to \in Nat
    BY <1>3, <1>4
  <2>2. Writes(to, s.filesize)
    BY <1>7 DEF Writes
  <2> QED
    BY <1>1, <1>3, <2>1, <2>2, WriteInRam
<1>9. ASSUME NEW d \in Segments(env), NEW i \in 0 .. (env.commands[d].vmsize - 1)
      PROVE  mem'[KernelAt + Offset(d) + i] =
                IF d < c + 1 /\ i < env.commands[d].filesize
                THEN Original(Source(d) + i) ELSE Zero
  <2>1. /\ env.commands[d].vmsize \in Nat /\ Offset(d) \in Nat
        /\ KernelAt + Offset(d) + env.commands[d].vmsize <= KernelEnd
        /\ d \in Nat /\ c \in Nat
    BY <1>1, <1>2, SegmentPlain
  <2> DEFINE x == KernelAt + Offset(d) + i
  <2>2. x \in Addr /\ x \in Nat /\ i \in Nat
    BY <1>4, <2>1, AddrDef
  <2>3. mem[x] = IF d < c /\ i < env.commands[d].filesize
                 THEN Original(Source(d) + i) ELSE Zero
    BY <1>1 DEF KernelInPlace
  <2>4. CASE d = c
    <3>1. x = to + i /\ x - to = i /\ to <= x
      BY <1>3, <1>4, <2>2, <2>4
    <3>2. mem'[x] = IF i < s.filesize THEN mem[Source(c) + i] ELSE mem[x]
      <4>1. x < to + s.filesize <=> i < s.filesize
        BY <1>3, <1>6, <2>2, <3>1
      <4> HIDE DEF x, to, s
      <4> QED
        BY <1>7, <2>2, <3>1, <4>1
    <3>3. i < s.filesize => i \in 0 .. (s.filesize - 1)
      BY <1>3, <2>2
    <3>4. ~(d < c) /\ d < c + 1
      BY <2>1, <2>4
    <3> HIDE DEF x
    <3>5. mem'[x] = IF d < c + 1 /\ i < env.commands[d].filesize
                    THEN Original(Source(d) + i) ELSE Zero
      BY <1>3, <2>3, <2>4, <3>2, <3>3, <3>4
    <3> QED
      BY <3>5 DEF x
  <2>5. CASE d # c
    <3>1. \/ Offset(c) + s.vmsize <= Offset(d)
          \/ Offset(d) + env.commands[d].vmsize <= Offset(c)
      BY <1>1, <1>2, <2>5, SegmentsApart
    <3>2. ~(to <= x /\ x < to + s.filesize)
      <4> HIDE DEF s
      <4> QED
        BY <1>3, <1>4, <2>1, <2>2, <3>1
    <3>3. mem'[x] = mem[x]
      <4> HIDE DEF x, to, s
      <4> QED
        BY <1>7, <2>2, <3>2
    <3>4. d < c + 1 <=> d < c
      BY <2>1, <2>5
    <3> QED
      BY <2>3, <3>3, <3>4
  <2> QED
    BY <2>4, <2>5
<1>10. KernelInPlace'
  BY <1>1, <1>9, LayoutFixed DEF KernelInPlace
<1> HIDE DEF c, s, to, f
<1> QED
  BY <1>1, <1>8, <1>10, LayoutFixed
  DEF Sound, Alive, Placed, DiskInPlace, TreeInPlace, ArgsInPlace, Early, Seen

LEMMA DeviceTreeStep ==
  ASSUME Provided, PrepareDeviceTree
  PROVE  Sound'
<1> USE DEF PastRamdisk, PastTree, PastMap, PastMeasure, PastKernel, PastTags
<1>1. /\ Sound /\ TypeOK /\ env' = env /\ Provisioned(env) /\ env \in Envs
      /\ Untouched /\ pc = "devicetree" /\ mem \in [Addr -> Cell]
      /\ UNCHANGED <<flags, heap, gBootArgs, region, kernelBase, rangeRAMDisk>>
  BY DEF Provided, HandoffInv, PrepareDeviceTree, At, found, handoff, placement,
         Sound, TypeOK
<1>2. /\ Pool \in Nat /\ HeapSize \in Nat /\ Pool + HeapSize < Word
      /\ HeapUse \in Nat /\ HeapUse + 2 <= HeapSize /\ Word \in Nat
      /\ Phys \in Nat /\ ZeroSize \in Nat /\ Phys + ZeroSize <= Pool
      /\ KernelAt \in Nat /\ KernelEnd \in Nat
      /\ KernelEnd <= DiskAt /\ DiskAt \in Nat /\ Disk.size \in Nat
      /\ DiskAt + Disk.size <= Phys + ZeroSize
  BY <1>1, Layout
<1>3. /\ heap = Pool /\ mem[Pool] = <<"pool", 0>>
      /\ mem[Pool + HeapSize - 1] = <<"pool", HeapSize - 1>>
      /\ "is_malloc_inited" \in flags /\ Seen("is_first_region")
  BY <1>1 DEF Sound, HeapReady
<1>4. PoolIntact(mem)
  <2>1. HeapSize - 1 \in Nat /\ Pool + (HeapSize - 1) < Word
        /\ Pool + (HeapSize - 1) = Pool + HeapSize - 1
    BY <1>2
  <2>2. HeapEnd = Pool + HeapSize - 1
    BY <1>2, <1>3, <2>1, PlusPlain DEF HeapEnd
  <2> QED
    BY <1>1, <1>3, <2>2 DEF PoolIntact, Provisioned
<1>5. GetImage3("xmdt") # {} /\ env.xml
  BY <1>1, OnlyImage DEF Provisioned, Complete
<1>6. pc' = "ramdisk" /\ mem' = Write(mem, Plus(heap, 1), HeapUse, "node")
  BY <1>4, <1>5 DEF PrepareDeviceTree
<1>7. \A x \in Addr : mem'[x] = IF Pool + 1 <= x /\ x < Pool + 1 + HeapUse
                               THEN <<"node", x - (Pool + 1)>> ELSE mem[x]
  <2> DEFINE a == Pool + 1
  <2>1. /\ a \in Nat /\ a < Word /\ a + HeapUse < Word
        /\ HeapUse \in Nat /\ mem \in [Addr -> Cell]
    BY <1>1, <1>2
  <2>2. mem' = Write(mem, a, HeapUse, "node")
    BY <1>2, <1>3, <1>6, <2>1, PlusPlain
  <2> HIDE DEF a
  <2>3. \A x \in Addr : Write(mem, a, HeapUse, "node")[x] =
           IF a <= x /\ x < a + HeapUse THEN <<"node", x - a>> ELSE mem[x]
    BY <2>1, WritePlain
  <2> QED
    BY <2>2, <2>3 DEF a
<1>8. \A x \in Addr : ~InPool(x) => mem'[x] = mem[x]
  <2> SUFFICES ASSUME NEW x \in Addr, ~InPool(x) PROVE mem'[x] = mem[x]
    OBVIOUS
  <2>1. ~(Pool + 1 <= x /\ x < Pool + 1 + HeapUse)
    BY <1>2, AddrDef DEF InPool
  <2> QED
    BY <1>7, <2>1
<1>9. /\ Untouched'
  BY <1>1, <1>6, <1>8, LayoutFixed DEF Untouched, Early
<1>10. HeapReady'
  <2>1. /\ Pool \in Addr /\ Pool + HeapSize - 1 \in Addr
        /\ ~(Pool + 1 <= Pool) /\ ~(Pool + HeapSize - 1 < Pool + 1 + HeapUse)
    BY <1>2, AddrDef
  <2>2. mem'[Pool] = mem[Pool]
        /\ mem'[Pool + HeapSize - 1] = mem[Pool + HeapSize - 1]
    BY <1>7, <2>1
  <2>3. \A i \in 0 .. (HeapUse - 1) : mem'[Pool + 1 + i] = <<"node", i>>
    <3> SUFFICES ASSUME NEW i \in 0 .. (HeapUse - 1)
                 PROVE  mem'[Pool + 1 + i] = <<"node", i>>
      OBVIOUS
    <3>1. /\ Pool + 1 + i \in Addr /\ Pool + 1 <= Pool + 1 + i
          /\ Pool + 1 + i < Pool + 1 + HeapUse
          /\ (Pool + 1 + i) - (Pool + 1) = i
      BY <1>2, AddrDef
    <3> QED
      BY <1>7, <3>1
  <2> QED
    BY <1>1, <1>3, <2>2, <2>3, LayoutFixed DEF HeapReady, Seen
<1>11. KernelInPlace'
  <2>1. ASSUME NEW c \in Segments(env), NEW i \in 0 .. (env.commands[c].vmsize - 1)
        PROVE  mem'[KernelAt + Offset(c) + i] = mem[KernelAt + Offset(c) + i]
    <3>1. /\ env.commands[c].vmsize \in Nat /\ Offset(c) \in Nat
          /\ KernelAt + Offset(c) + env.commands[c].vmsize <= KernelEnd
      BY <1>1, SegmentPlain
    <3>2. KernelAt + Offset(c) + i \in Addr /\ ~InPool(KernelAt + Offset(c) + i)
      BY <1>2, <3>1, AddrDef DEF InPool
    <3> QED
      BY <1>8, <3>2
  <2> QED
    BY <1>1, <1>6, <2>1, LayoutFixed DEF Sound, KernelInPlace
<1> QED
  BY <1>1, <1>6, <1>9, <1>10, <1>11, LayoutFixed
  DEF Sound, Alive, Placed, DiskInPlace, TreeInPlace, ArgsInPlace

LEMMA RamdiskStep ==
  ASSUME Provided, PrepareRamdisk
  PROVE  Sound'
<1> USE DEF PastRamdisk, PastTree, PastMap, PastMeasure, PastKernel, PastTags
<1>1. /\ Sound /\ TypeOK /\ env' = env /\ Provisioned(env) /\ env \in Envs
      /\ Untouched /\ pc = "ramdisk" /\ pc' = "flatten" /\ mem \in [Addr -> Cell]
      /\ UNCHANGED <<flags, heap, gBootArgs, kernelBase>>
      /\ rangeRAMDisk = {} /\ region.pos = KernelEnd /\ region.base = KernelAt
  BY DEF Provided, HandoffInv, PrepareRamdisk, At, Sound, TypeOK, Placed,
         DiskInPlace
<1>2. ramdisk' = Disk
  BY <1>1 DEF Provided, HandoffInv, Counted, Alive, Provisioned, Disk
<1>3. /\ KernelEnd \in Nat /\ DiskAt \in Nat /\ KernelEnd <= DiskAt
      /\ Disk.base \in Nat /\ Disk.size \in Nat
      /\ Phys \in Nat /\ ZeroSize \in Nat /\ Phys <= DiskAt
      /\ DiskAt + Disk.size <= Phys + ZeroSize /\ Word \in Nat
      /\ DiskAt + Disk.size < Word
      /\ Disk.base # 0 => DiskEnd = DiskAt + Disk.size
  <2>1. /\ KernelEnd \in Nat /\ DiskAt \in Nat /\ KernelEnd <= DiskAt
        /\ KernelEnd = KernelAt + VmSize(env.commands)
        /\ VmSize(env.commands) \in Nat /\ KernelAt = Phys + PageOffset
        /\ PageOffset \in Nat
        /\ Disk.base \in Nat /\ Disk.size \in Nat
        /\ Phys \in Nat /\ ZeroSize \in Nat
        /\ DiskAt + Disk.size <= Phys + ZeroSize /\ Phys + ZeroSize <= Pool
        /\ Pool + HeapSize < Word /\ Pool \in Nat /\ HeapSize \in Nat
        /\ Word \in Nat
        /\ Disk.base # 0 => DiskEnd = DiskAt + Disk.size
    BY <1>1, Layout
  <2> QED
    BY <2>1
<1>4. ReserveStart(region.pos, RamdiskAlign) = DiskAt
  BY <1>1, ConstantTypes DEF ReserveStart, DiskAt
<1>5. IF Disk.base = 0 THEN UNCHANGED <<mem, rangeRAMDisk, region, reserved>>
      ELSE /\ Reserve(Disk.size, RamdiskAlign)
           /\ mem' = Bcopy(mem, Disk.base, DiskAt, Disk.size)
           /\ rangeRAMDisk' = {[base |-> DiskAt, size |-> Disk.size]}
  BY <1>2, <1>4 DEF PrepareRamdisk
<1>6. CASE Disk.base = 0
  <2>1. DiskEnd = KernelEnd /\ UNCHANGED <<mem, rangeRAMDisk, region>>
    BY <1>5, <1>6 DEF DiskEnd
  <2> QED
    BY <1>1, <1>6, <2>1, LayoutFixed
    DEF Sound, Alive, Untouched, HeapReady, Placed, KernelInPlace, DiskInPlace,
        TreeInPlace, ArgsInPlace, Early, Seen
<1>7. CASE Disk.base # 0
  <2>1. region'.base = KernelAt /\ region'.pos = DiskEnd
    <3>1. Plus(DiskAt, Disk.size) = DiskEnd
      BY <1>3, <1>7, PlusPlain
    <3> QED
      BY <1>1, <1>4, <1>5, <1>7, <3>1 DEF Reserve, ReservePos, TypeOK
  <2>2. 0 \in Addr /\ Disk.base + Disk.size < Word
    BY <1>1, <1>7, Clear, ConstantTypes
  <2>3. \A x \in Addr : mem'[x] = IF DiskAt <= x /\ x < DiskAt + Disk.size
                                 THEN mem[Disk.base + (x - DiskAt)] ELSE mem[x]
    BY <1>1, <1>3, <1>5, <1>7, <2>2, CopyPlain
  <2>4. Writes(DiskAt, Disk.size)
    BY <2>3 DEF Writes
  <2>5. Untouched' /\ HeapReady' /\ KernelInPlace'
    BY <1>1, <1>3, <2>4, WriteInRam, KernelKept
  <2>6. ASSUME NEW i \in 0 .. (Disk.size - 1)
        PROVE  mem'[DiskAt + i] = Original(Disk.base + i)
    <3>1. /\ DiskAt + i \in Addr /\ DiskAt <= DiskAt + i
          /\ DiskAt + i < DiskAt + Disk.size /\ (DiskAt + i) - DiskAt = i
          /\ Disk.base + i \in Addr /\ Disk.base <= Disk.base + i
          /\ Disk.base + i < Disk.base + Disk.size
      BY <1>3, <2>2, AddrDef
    <3>2. mem'[DiskAt + i] = mem[Disk.base + i]
      BY <2>3, <3>1
    <3>3. ~InPool(Disk.base + i) /\ ~InRam(Disk.base + i)
      BY <1>1, <1>7, <3>1, Clear
    <3> QED
      BY <1>1, <3>1, <3>2, <3>3 DEF Untouched
  <2>7. DiskInPlace'
    BY <1>1, <1>5, <1>7, <2>6, LayoutFixed DEF DiskInPlace
  <2> QED
    BY <1>1, <2>1, <2>5, <2>7, LayoutFixed
    DEF Sound, Alive, Placed, TreeInPlace, ArgsInPlace
<1> QED
  BY <1>6, <1>7

\* The tree's virtual address leads back to where it was put.
LEMMA RoundTrip ==
  ASSUME NEW a \in Addr, NEW p \in Addr, NEW v \in Addr
  PROVE  Plus(Minus(Plus(Minus(a, p), v), v), p) = a
<1> DEFINE d == Minus(a, p)
           q == Plus(d, v)
<1>1. /\ a \in Nat /\ p \in Nat /\ v \in Nat /\ a < Word /\ p < Word
      /\ v < Word /\ Word \in Nat
  BY AddrDef, WordAssumption
<1>2. d \in Addr /\ d = IF p <= a THEN a - p ELSE a - p + Word
  BY AddrArithmetic, WrapOnce
<1>3. q \in Addr /\ q = IF d + v < Word THEN d + v ELSE d + v - Word
  <2> HIDE DEF d
  <2> QED
    BY <1>2, AddrArithmetic, WrapOnce
<1>4. Minus(q, v) = d
  <2>1. Minus(q, v) = IF v <= q THEN q - v ELSE q - v + Word
    <3> HIDE DEF q
    <3> QED
      BY <1>3, WrapOnce
  <2>2. d \in Nat /\ d < Word
    BY <1>2, AddrDef
  <2> HIDE DEF d, q
  <2> QED
    BY <1>1, <1>3, <2>1, <2>2
<1>5. Plus(d, p) = a
  <2>1. Plus(d, p) = IF d + p < Word THEN d + p ELSE d + p - Word
    <3> HIDE DEF d
    <3> QED
      BY <1>2, WrapOnce
  <2> HIDE DEF d
  <2> QED
    BY <1>1, <1>2, <2>1
<1> QED
  BY <1>4, <1>5

LEMMA FlattenStep ==
  ASSUME Provided, FlattenDeviceTree
  PROVE  Sound'
<1> USE DEF PastRamdisk, PastTree, PastMap, PastMeasure, PastKernel, PastTags
<1>1. /\ Sound /\ TypeOK /\ env' = env /\ Provisioned(env) /\ env \in Envs
      /\ pc = "flatten" /\ pc' = "finalize" /\ mem \in [Addr -> Cell]
      /\ UNCHANGED <<flags, heap, kernelBase, rangeRAMDisk>>
      /\ region.pos = DiskEnd /\ region.base = KernelAt
      /\ gBootArgs.physBase = Phys /\ gBootArgs.virtBase = VirtBase
  BY DEF Provided, HandoffInv, FlattenDeviceTree, At, found, handoff, Sound,
         TypeOK, Placed
<1>2. /\ KernelEnd \in Nat /\ DiskEnd \in Nat /\ KernelEnd <= DiskEnd
      /\ Phys \in Nat /\ ZeroSize \in Nat /\ Phys <= DiskEnd
      /\ TreeSize \in Nat /\ TreeEnd = DiskEnd + TreeSize
      /\ DiskEnd + TreeSize <= Phys + ZeroSize
      /\ DiskEnd + TreeSize < Word /\ Word \in Nat
      /\ env.dtLength \in Nat
  <2>1. /\ KernelEnd \in Nat /\ DiskEnd \in Nat /\ KernelEnd <= DiskEnd
        /\ KernelEnd = KernelAt + VmSize(env.commands)
        /\ VmSize(env.commands) \in Nat /\ KernelAt = Phys + PageOffset
        /\ PageOffset \in Nat
        /\ Phys \in Nat /\ ZeroSize \in Nat
        /\ TreeSize \in Nat /\ TreeEnd = DiskEnd + TreeSize /\ TreeEnd \in Nat
        /\ TreeEnd + BootArgsAlign < Word /\ Word \in Nat
        /\ ArgsAt \in Nat /\ TreeEnd <= ArgsAt /\ BootArgsSize \in Nat
        /\ ArgsAt + BootArgsSize <= Phys + ZeroSize
        /\ env.dtLength \in Nat
    BY <1>1, Layout
  <2>2. BootArgsAlign \in Nat
    BY ConstantTypes, AddrIsNat
  <2> QED
    BY <2>1, <2>2
<1>3. DeviceTreeLength(env, rangeRAMDisk) = TreeSize
  <2>1. rangeRAMDisk = {} <=> Disk.base = 0
    BY <1>1 DEF Sound, DiskInPlace
  <2>2. Disk.base # 0 => Plus(env.dtLength, 1) = TreeSize
    <3>1. Disk.base # 0 => TreeSize = env.dtLength + 1 /\ env.dtLength + 1 < Word
      BY <1>2 DEF TreeSize
    <3> QED
      BY <1>2, <3>1, PlusPlain
  <2> QED
    BY <2>1, <2>2 DEF DeviceTreeLength, TreeSize
<1>4. ReserveStart(region.pos, 0) = DiskEnd
  BY <1>1 DEF ReserveStart
<1>5. /\ region'.base = KernelAt /\ region'.pos = TreeEnd
  <2>1. Plus(DiskEnd, TreeSize) = TreeEnd
    BY <1>2, PlusPlain
  <2> QED
    BY <1>1, <1>3, <1>4, <2>1 DEF FlattenDeviceTree, Reserve, ReservePos, TypeOK
<1>6. /\ gBootArgs'.deviceTreeLength = TreeSize
      /\ gBootArgs'.deviceTreeP = Plus(Minus(DiskEnd, Phys), VirtBase)
      /\ gBootArgs'.physBase = Phys /\ gBootArgs'.virtBase = VirtBase
  BY <1>1, <1>3, <1>4 DEF FlattenDeviceTree, TypeOK, BootArgs
<1>7. Plus(Minus(gBootArgs'.deviceTreeP, VirtBase), Phys) = DiskEnd
  <2>1. DiskEnd \in Addr /\ Phys \in Addr
    BY <1>2, AddrDef
  <2> QED
    BY <1>6, <2>1, RoundTrip, ConstantTypes
<1>8. \A x \in Addr : mem'[x] = IF DiskEnd <= x /\ x < DiskEnd + TreeSize
                               THEN <<"dt", x - DiskEnd>> ELSE mem[x]
  <2>1. mem' = Write(mem, DiskEnd, TreeSize, "dt")
    BY <1>3, <1>4 DEF FlattenDeviceTree
  <2> QED
    BY <1>1, <1>2, <2>1, WritePlain
<1>9. Untouched' /\ HeapReady' /\ KernelInPlace' /\ DiskInPlace'
  <2>1. Writes(DiskEnd, TreeSize)
    BY <1>8 DEF Writes
  <2>2. DiskEnd <= DiskEnd
    BY <1>2
  <2> QED
    BY <1>1, <1>2, <2>1, <2>2, WriteInRam, KernelKept, DiskKept
<1>10. \A i \in 0 .. (TreeSize - 1) : mem'[DiskEnd + i] = <<"dt", i>>
  <2> SUFFICES ASSUME NEW i \in 0 .. (TreeSize - 1)
               PROVE  mem'[DiskEnd + i] = <<"dt", i>>
    OBVIOUS
  <2>1. /\ DiskEnd + i \in Addr /\ DiskEnd <= DiskEnd + i
        /\ DiskEnd + i < DiskEnd + TreeSize /\ (DiskEnd + i) - DiskEnd = i
    BY <1>2, AddrDef
  <2> QED
    BY <1>8, <2>1
<1>11. TreeInPlace'
  BY <1>1, <1>6, <1>7, <1>10, LayoutFixed DEF TreeInPlace
<1>12. Placed'
  BY <1>1, <1>5, <1>6, LayoutFixed DEF Sound, Placed
<1> QED
  BY <1>1, <1>9, <1>11, <1>12, LayoutFixed DEF Sound, Alive, ArgsInPlace

LEMMA FinalizeStep ==
  ASSUME Provided, FinalizeBootArgs
  PROVE  Sound'
<1> USE DEF PastRamdisk, PastTree, PastMap, PastMeasure, PastKernel, PastTags
<1>1. /\ Sound /\ TypeOK /\ env' = env /\ Provisioned(env) /\ env \in Envs
      /\ pc = "finalize" /\ pc' = "jump" /\ mem \in [Addr -> Cell]
      /\ UNCHANGED <<flags, heap, kernelBase, rangeRAMDisk>>
      /\ region.pos = TreeEnd /\ region.base = KernelAt
      /\ gBootArgs.physBase = Phys /\ gBootArgs.virtBase = VirtBase
  BY DEF Provided, HandoffInv, FinalizeBootArgs, At, found, handoff, Sound,
         TypeOK, Placed
<1>2. /\ KernelEnd \in Nat /\ DiskEnd \in Nat /\ KernelEnd <= DiskEnd
      /\ Phys \in Nat /\ ZeroSize \in Nat /\ Phys <= ArgsAt
      /\ TreeSize \in Nat /\ TreeEnd = DiskEnd + TreeSize
      /\ ArgsAt \in Nat /\ BootArgsSize \in Nat /\ TreeEnd <= ArgsAt
      /\ DiskEnd <= ArgsAt /\ KernelEnd <= ArgsAt
      /\ ArgsAt + BootArgsSize <= Phys + ZeroSize
      /\ ArgsAt + BootArgsSize < Word /\ Word \in Nat
  <2>1. /\ KernelEnd \in Nat /\ DiskEnd \in Nat /\ KernelEnd <= DiskEnd
        /\ KernelEnd = KernelAt + VmSize(env.commands)
        /\ VmSize(env.commands) \in Nat /\ KernelAt = Phys + PageOffset
        /\ PageOffset \in Nat
        /\ Phys \in Nat /\ ZeroSize \in Nat
        /\ TreeSize \in Nat /\ TreeEnd = DiskEnd + TreeSize
        /\ Word \in Nat
        /\ ArgsAt \in Nat /\ TreeEnd <= ArgsAt /\ BootArgsSize \in Nat
        /\ ArgsAt + BootArgsSize <= Phys + ZeroSize
        /\ Phys + ZeroSize <= Pool /\ Pool \in Nat
        /\ Pool + HeapSize < Word /\ HeapSize \in Nat
    BY <1>1, Layout
  <2> QED
    BY <2>1
<1>3. ReserveStart(region.pos, BootArgsAlign) = ArgsAt
  BY <1>1, ConstantTypes DEF ReserveStart, ArgsAt
<1>4. /\ args' = ArgsAt /\ mem' = Write(mem, ArgsAt, BootArgsSize, "args")
      /\ region'.base = KernelAt
      /\ gBootArgs'.physBase = Phys /\ gBootArgs'.virtBase = VirtBase
      /\ gBootArgs'.deviceTreeLength = gBootArgs.deviceTreeLength
      /\ gBootArgs'.deviceTreeP = gBootArgs.deviceTreeP
  BY <1>1, <1>3 DEF FinalizeBootArgs, Reserve, TypeOK, BootArgs
<1>5. \A x \in Addr : mem'[x] = IF ArgsAt <= x /\ x < ArgsAt + BootArgsSize
                               THEN <<"args", x - ArgsAt>> ELSE mem[x]
  BY <1>1, <1>2, <1>4, WritePlain
<1>6. Untouched' /\ HeapReady' /\ KernelInPlace' /\ DiskInPlace'
  <2>1. Writes(ArgsAt, BootArgsSize)
    BY <1>5 DEF Writes
  <2> QED
    BY <1>1, <1>2, <2>1, WriteInRam, KernelKept, DiskKept
<1>7. \A i \in 0 .. (BootArgsSize - 1) : mem'[ArgsAt + i] = <<"args", i>>
  <2> SUFFICES ASSUME NEW i \in 0 .. (BootArgsSize - 1)
               PROVE  mem'[ArgsAt + i] = <<"args", i>>
    OBVIOUS
  <2>1. /\ ArgsAt + i \in Addr /\ ArgsAt <= ArgsAt + i
        /\ ArgsAt + i < ArgsAt + BootArgsSize /\ (ArgsAt + i) - ArgsAt = i
    BY <1>2, AddrDef
  <2> QED
    BY <1>5, <2>1
<1>8. \A i \in 0 .. (TreeSize - 1) : mem'[DiskEnd + i] = mem[DiskEnd + i]
  <2> SUFFICES ASSUME NEW i \in 0 .. (TreeSize - 1)
               PROVE  mem'[DiskEnd + i] = mem[DiskEnd + i]
    OBVIOUS
  <2>1. DiskEnd + i \in Addr /\ ~(ArgsAt <= DiskEnd + i)
    BY <1>2, AddrDef
  <2> QED
    BY <1>5, <2>1
<1>9. TreeInPlace' /\ ArgsInPlace'
  BY <1>1, <1>4, <1>7, <1>8, LayoutFixed DEF Sound, TreeInPlace, ArgsInPlace
<1>10. Placed'
  BY <1>1, <1>4, LayoutFixed DEF Sound, Placed
<1> QED
  BY <1>1, <1>6, <1>9, <1>10 DEF Sound, Alive

LEMMA JumpStep ==
  ASSUME Provided, Jump
  PROVE  Sound'
<1>1. /\ Sound /\ env' = env /\ pc = "jump" /\ pc' = "kernel"
      /\ UNCHANGED <<mem, flags, heap, gBootArgs, region, kernelBase,
                     rangeRAMDisk, args>>
  BY DEF Provided, Jump, At, found, handoff, placement
<1> QED
  BY <1>1, LayoutFixed
  DEF Sound, Alive, Untouched, HeapReady, Placed, KernelInPlace, DiskInPlace,
      TreeInPlace, ArgsInPlace, Early, Seen, PastRamdisk, PastTree, PastMap,
      PastMeasure, PastKernel, PastTags

LEMMA SoundInit ==
  ASSUME Init, HandoffInv, env \in Envs, Provisioned(env)
  PROVE  Sound
<1>1. /\ pc = "start" /\ flags = {} /\ rangeRAMDisk = {} /\ args = Word
      /\ \A x \in Addr : mem[x] = Original(x)
  BY DEF Init, Original
<1> QED
  BY <1>1
  DEF Sound, Alive, Untouched, HeapReady, Placed, KernelInPlace, DiskInPlace,
      TreeInPlace, ArgsInPlace, Seen, PastRamdisk, PastTree, PastMap,
      PastMeasure, PastKernel, PastTags

LEMMA SoundStep ==
  ASSUME Provided, [Next]_vars
  PROVE  Sound'
<1>1. CASE UNCHANGED vars
  <2>1. /\ Sound /\ env' = env
        /\ UNCHANGED <<pc, cursor, mem, flags, heap, gBootArgs, region,
                       kernelBase, rangeRAMDisk, args>>
    BY <1>1 DEF Provided, vars
  <2> QED
    BY <2>1, LayoutFixed
    DEF Sound, Alive, Untouched, HeapReady, Placed, KernelInPlace, DiskInPlace,
        TreeInPlace, ArgsInPlace, Seen
<1>2. CASE \/ Start \/ CheckMachine \/ PopulateCommandLine \/ PopulateRamdisk
           \/ SkipTag
  BY <1>2, EarlyStep
<1>3. CASE PopulateMemory \/ LastTag \/ StartDarwin
  BY <1>3, MemoryStep, LastTagStep, StartDarwinStep
<1>4. CASE PrepareKernel \/ MeasureCommand \/ ReserveKernel
  BY <1>4, PrepareKernelStep, MeasureCommandStep, ReserveKernelStep
<1>5. CASE MapSegment \/ MapThread \/ MapOther \/ MapDone
  BY <1>5, MapSegmentStep, MapOtherStep
<1>6. CASE PrepareDeviceTree \/ PrepareRamdisk
  BY <1>6, DeviceTreeStep, RamdiskStep
<1>7. CASE FlattenDeviceTree \/ FinalizeBootArgs \/ Jump
  BY <1>7, FlattenStep, FinalizeStep, JumpStep
<1>8. CASE NoKernel \/ NoRamdisk
  <2>1. /\ GetImage3("krnl") # {} /\ GetImage3("rdsk") # {}
    BY OnlyImage DEF Provided, HandoffInv, Sound, Provisioned, Complete
  <2> QED
    BY <1>8, <2>1 DEF NoKernel, NoRamdisk
<1>9. CASE LoseControl \/ SearchAstray
  BY <1>9, NeverLost, NeverAstray DEF Provided, LoseControl, SearchAstray
<1> QED
  BY <1>1, <1>2, <1>3, <1>4, <1>5, <1>6, <1>7, <1>8, <1>9 DEF Next

LEMMA PayloadCorrect == Spec => []PayloadInv
<1>1. Init /\ HandoffInv => PayloadInv
  BY SoundInit DEF PayloadInv, Init
<1>2. PayloadInv /\ HandoffInv' /\ [Next]_vars => PayloadInv'
  <2> SUFFICES ASSUME PayloadInv, HandoffInv', [Next]_vars PROVE PayloadInv'
    OBVIOUS
  <2>1. env' = env
    BY EnvFixed
  <2>2. ASSUME Provisioned(env) PROVE Sound'
    BY <2>1, <2>2, SoundStep DEF PayloadInv, Provided
  <2> QED
    BY <2>1, <2>2 DEF PayloadInv
<1> QED
  BY <1>1, <1>2, HandoffCorrect, PTL DEF Spec

-----------------------------------------------------------------------------

\* A boot with all that it needs never panics, never fails an assert, never
\* reads what is gone and is never caught in the search for a tag.
NeverStopsShort == Provisioned(env) => Alive

\* A provisioned boot is never halted, never undefined and never searches for
\* ever (image3.c:57-63), at any stage.
THEOREM ProvisionedBootsOn == Spec => []NeverStopsShort
<1>1. PayloadInv => NeverStopsShort
  BY DEF PayloadInv, Sound, NeverStopsShort
<1> QED
  BY <1>1, PayloadCorrect, PTL

\* When the kernel gets control of such a boot, every segment's file part is
\* where macho_file_map was told to put it and the rest of it is clear.
THEOREM KernelLoadedCorrect == Spec => []KernelLoaded
<1>1. PayloadInv => KernelLoaded
  <2> SUFFICES ASSUME PayloadInv, InKernel, Provisioned(env),
                      NEW c \in Segments(env),
                      NEW i \in 0 .. (env.commands[c].vmsize - 1)
               PROVE  mem[Plus(LoadAddr(env.commands[c]), i)] =
                        IF i < env.commands[c].filesize
                        THEN Original(Plus(Plus(DataAt(env, FirstImage(env, "krnl")),
                                                env.commands[c].fileoff), i))
                        ELSE Zero
    BY DEF KernelLoaded
  <2> DEFINE s == env.commands[c]
  <2>1. /\ Sound /\ TypeOK /\ env \in Envs /\ Untouched /\ pc = "kernel"
        /\ kernelBase = KernelAt
    BY DEF PayloadInv, HandoffInv, Sound, InKernel, Placed, PastMeasure, PastMap
  <2>2. /\ s.vmsize \in Nat /\ s.filesize \in Nat /\ Offset(c) \in Nat
        /\ Minus(s.vmaddr, KernelVMAddr) = Offset(c)
        /\ KernelAt + Offset(c) + s.vmsize <= KernelEnd
        /\ Plus(KernelAt, Offset(c)) = KernelAt + Offset(c)
        /\ Source(c) \in Nat /\ Source(c) + s.filesize < Word
        /\ Plus(DataAt(env, FirstImage(env, "krnl")), s.fileoff) = Source(c)
    BY <2>1, SegmentPlain
  <2>3. /\ KernelAt \in Nat /\ KernelEnd \in Nat /\ KernelEnd < Word /\ Word \in Nat
    <3>1. /\ KernelAt \in Nat /\ KernelEnd \in Nat /\ Word \in Nat
          /\ KernelEnd + RamdiskAlign < Word /\ RamdiskAlign \in Nat
      BY <2>1, Layout, ConstantTypes, AddrIsNat
    <3> QED
      BY <3>1
  <2>4. LoadAddr(s) = KernelAt + Offset(c)
    BY <2>1, <2>2 DEF LoadAddr
  <2>5. Plus(KernelAt + Offset(c), i) = KernelAt + Offset(c) + i
    <3>1. KernelAt + Offset(c) \in Nat /\ i \in Nat
          /\ (KernelAt + Offset(c)) + i < Word
      <4> HIDE DEF s
      <4> QED
        BY <2>2, <2>3 DEF s
    <3> QED
      BY <3>1, PlusPlain
  <2>6. ASSUME i < s.filesize PROVE Plus(Source(c), i) = Source(c) + i
    <3>1. i \in Nat /\ Source(c) + i < Word
      BY <2>2, <2>3, <2>6
    <3> QED
      BY <2>2, <3>1, PlusPlain
  <2>7. mem[KernelAt + Offset(c) + i] =
           IF i < s.filesize THEN Original(Source(c) + i) ELSE Zero
    BY <2>1 DEF Sound, KernelInPlace, PastMeasure, PastMap
  <2> QED
    BY <2>2, <2>4, <2>5, <2>6, <2>7
<1> QED
  BY <1>1, PayloadCorrect, PTL

\* When the kernel gets control of such a boot, the RAMDisk range of the
\* memory map holds the ramdisk, and the device tree and the boot arguments
\* are where boot_args and r0 say.
THEOREM DataLoadedCorrect == Spec => []DataLoaded
<1>1. PayloadInv => DataLoaded
  <2> SUFFICES ASSUME PayloadInv, InKernel, Provisioned(env)
               PROVE  /\ \A r \in rangeRAMDisk : \A i \in 0 .. (r.size - 1) :
                           mem[Plus(r.base, i)] = Original(Plus(Disk.base, i))
                      /\ rangeRAMDisk = {} <=> Disk.base = 0
                      /\ Holds(mem, Plus(Minus(gBootArgs.deviceTreeP, VirtBase),
                                         gBootArgs.physBase),
                               gBootArgs.deviceTreeLength, "dt")
                      /\ Holds(mem, args, BootArgsSize, "args")
    BY DEF DataLoaded, Disk
  <2>1. /\ Sound /\ TypeOK /\ env \in Envs /\ pc = "kernel"
        /\ gBootArgs.physBase = Phys
    BY DEF PayloadInv, HandoffInv, Sound, InKernel, Placed, PastTags,
           PastKernel, PastMeasure, PastMap
  <2>2. /\ DiskAt \in Nat /\ Disk.base \in Nat /\ Disk.size \in Nat
        /\ DiskEnd \in Nat /\ TreeSize \in Nat /\ ArgsAt \in Nat
        /\ BootArgsSize \in Nat /\ Word \in Nat
        /\ DiskAt + Disk.size < Word
        /\ DiskEnd + TreeSize < Word
        /\ ArgsAt + BootArgsSize < Word
    <3>1. /\ DiskAt \in Nat /\ Disk.base \in Nat /\ Disk.size \in Nat
          /\ DiskEnd \in Nat /\ TreeSize \in Nat /\ TreeEnd = DiskEnd + TreeSize
          /\ ArgsAt \in Nat /\ TreeEnd <= ArgsAt /\ BootArgsSize \in Nat
          /\ Word \in Nat /\ DiskAt + Disk.size <= Phys + ZeroSize
          /\ ArgsAt + BootArgsSize <= Phys + ZeroSize
          /\ Phys + ZeroSize <= Pool /\ Pool \in Nat
          /\ Pool + HeapSize < Word /\ HeapSize \in Nat
          /\ Phys \in Nat /\ ZeroSize \in Nat
      BY <2>1, Layout
    <3> QED
      BY <3>1
  <2>3. rangeRAMDisk = {} <=> Disk.base = 0
    BY <2>1 DEF Sound, DiskInPlace, PastRamdisk, PastTree, PastMap
  <2>4. ASSUME NEW r \in rangeRAMDisk, NEW i \in 0 .. (r.size - 1)
        PROVE  mem[Plus(r.base, i)] = Original(Plus(Disk.base, i))
    <3>1. Disk.base # 0
      BY <2>3, <2>4
    <3>2. /\ r = [base |-> DiskAt, size |-> Disk.size]
          /\ \A k \in 0 .. (Disk.size - 1) :
                mem[DiskAt + k] = Original(Disk.base + k)
      BY <2>1, <2>4, <3>1 DEF Sound, DiskInPlace, PastRamdisk, PastTree, PastMap
    <3>3. i \in 0 .. (Disk.size - 1) /\ r.base = DiskAt
      BY <3>2
    <3>4. 0 \in Addr /\ Disk.base + Disk.size < Word
      BY <2>1, <3>1, Clear, ConstantTypes DEF PayloadInv
    <3>5. i \in Nat /\ DiskAt + i < Word /\ Disk.base + i < Word
      BY <2>2, <3>3, <3>4
    <3>6. Plus(DiskAt, i) = DiskAt + i /\ Plus(Disk.base, i) = Disk.base + i
      BY <2>2, <3>5, PlusPlain
    <3> QED
      BY <3>2, <3>3, <3>6
  <2>5. Holds(mem, DiskEnd, TreeSize, "dt")
    <3>1. \A i \in 0 .. (TreeSize - 1) : mem[DiskEnd + i] = <<"dt", i>>
      BY <2>1 DEF Sound, TreeInPlace
    <3>2. \A i \in 0 .. (TreeSize - 1) : i \in Nat /\ DiskEnd + i < Word
      BY <2>2
    <3> QED
      BY <2>2, <3>1, <3>2, PlusPlain DEF Holds
  <2>6. Holds(mem, ArgsAt, BootArgsSize, "args")
    <3>1. \A i \in 0 .. (BootArgsSize - 1) : mem[ArgsAt + i] = <<"args", i>>
      BY <2>1 DEF Sound, ArgsInPlace
    <3>2. \A i \in 0 .. (BootArgsSize - 1) : i \in Nat /\ ArgsAt + i < Word
      BY <2>2
    <3> QED
      BY <2>2, <3>1, <3>2, PlusPlain DEF Holds
  <2>7. /\ gBootArgs.deviceTreeLength = TreeSize /\ args = ArgsAt
        /\ Plus(Minus(gBootArgs.deviceTreeP, VirtBase), gBootArgs.physBase) = DiskEnd
    BY <2>1 DEF Sound, TreeInPlace, ArgsInPlace
  <2> QED
    BY <2>3, <2>4, <2>5, <2>6, <2>7
<1> QED
  BY <1>1, PayloadCorrect, PTL

=============================================================================

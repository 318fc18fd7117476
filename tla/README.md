# GenericBooter: TLA+ models, checks and proofs

GenericBooter is a boot loader for the ARM RealView PB-A8 board.  U-Boot starts
it as if it were a Linux kernel; it finds a Darwin kernel, a ramdisk and a
device tree source in a chain of Image3 containers linked behind it, puts
everything the kernel needs into memory, and jumps to it.

The loader is one thread with interrupts off.  Nothing in it is concurrent:
what is hard about it is memory.  Every stage computes addresses from what the
stage before it, U-Boot or an image said; hardly any of them is compared with
anything; and the loader, its heap, the images, the tags and what it builds all
lie in the same flat memory.  The data structures (TLSF, tag pools, the tree
with its counters) are linked by hand, shared by reference count or measured in
one way and written in another.

## 1. Inventory

| component | source | state it keeps | operations | how it meets the others |
|---|---|---|---|---|
| start-up, ATAGs | `start.S`, `main.c` | three static flags, `gBootArgs`, `ramdisk_base/size` | `_start`, `corestart_main`, `populate_memory_info`, `populate_commandline_info`, `populate_ramdisk_info` | the first memory tag creates the heap at the top of RAM; then `start_darwin` |
| boot sequence | `bootx.c` | `gBootArgs`, `kernel_region`, `kernel_entrypoint`, `ramdisk_base`, `ramdisk_size`, `deviceTreeP`, `gChosen`, `gOptions` | `start_darwin` and its five stages | calls everything below; asserts halt the machine |
| Mach-O loader | `macho_loader.c` | a context with bias and entry | `macho_get_vmsize`, `macho_file_map` | copies into the kernel region |
| memory region | `memory_region.c` | base and cursor | `memory_region_reserve` | kernel, ramdisk, flattened tree and boot arguments come from it in turn |
| heap | `tlsf.c`, `malloc.c` | pool with headers, lists, bitmaps | `malloc`, `free`, `realloc` | tags, symbols, nodes and property values |
| device tree | `device_tree.c` | nodes, properties, pools, `DTInfo` counters | `DT__Initialize`, `DT__AddChild`, `DT__AddProperty`, `DT__FlattenDeviceTree` | filled from XML, measured, then written to the region |
| XML property lists | `xml.c` | tag pool, symbols with reference counts | `XMLParseNextTag` and the recursive `ParseTag...`, `XMLFreeTag` | result handed to `prepare_devicetree` through a pointer |
| device tree from XML | `bootx.c` | none of its own | `prepare_devicetree`, `PopulateDeviceTreeNode`, `WalkDeviceTreeNodeChildren`, `ArrayToDeviceTreeData` | XML to device tree |
| loader's own entries | `bootx.c` | `gChosen`, `gOptions` | `CreateMemoryMapNode`, `CreateDeviceTreeNode`, `AllocateMemoryRange` | added to the tree between XML and flattening |
| Image3 | `image3.c`, `get_image3` | none | search for an image, for a tag in it | where kernel, ramdisk and XML come from |
| block copy and clear | `bcopy.S`, `bzero.S` | none | `bcopy`, `memmove`, `memset`, `bzero` | every stage of the boot |
| output | `printf.c`, `debug.c` | UART base | formatting, `panic` | - |
| C library | `libc_stub.c`, `str*.S` | `strtok`'s static pointer | string functions, numbers | names of tags, nodes and properties |
| JSON parser | `json_parser.c` | the parser's position, its tokens | `jsmn_init`, `jsmn_parse` | never called |

What makes each correct, in a line:

- *boot sequence*: when the kernel gets control, its segments, the ramdisk, the
  tree and the boot arguments are where it is told, whole, and below the
  address from which it takes memory as free; if something was missing it never
  gets control; and the loader does not hang;
- *memory region*: no cell is handed out twice;
- *heap*: a buffer keeps its place and contents, buffers do not overlap, and
  after any sequence of calls everything can be had again;
- *device tree*: what the walk writes is what the counters measured, and reads
  back as the tree that was built;
- *Image3*: a search ends, and finds what the images hold;
- *copying*: whatever path is taken for a length, an alignment and an overlap,
  the same bytes arrive, and nothing is accessed that the hardware cannot;
- *C library*: the answers do not depend on alignment or on what is around a
  string; numbers that were printed read back;
- *JSON*: coming back for tokens or bytes makes no difference to the result;
- *XML*: no tag is lost or freed twice, a symbol lives as long as a tag of its
  name, the caller never reads a pointer that was not set, and the tree is the
  document's.

The hazards behind these, each at its line, are listed in `PROJECT.json`.

## 2. Modules

| module | models | composed of |
|---|---|---|
| `Memory` | flat memory, wrapping address arithmetic, alignment, `memory_region_reserve`, `bcopy`, `bzero` | |
| `Booter` | `start.S`, `main.c`, `bootx.c`, `macho_loader.c` as one state machine | `Memory` |
| `BooterProofs` | reservations, what the kernel is told, what is in memory, proved | `Booter`, `Induction` |
| `Heap` | what `malloc`, `free`, `realloc` promise (abstract) | |
| `Tlsf` | `malloc_ex`, `free_ex`, `realloc_ex` in full (detailed) | implements `Heap` |
| `TlsfProofs` | the heap's structure after any calls, and that `Tlsf` implements `Heap`, proved | `Tlsf`, `Induction` |
| `Induction` | induction, least elements and recursion on numbers, as lemmas | `FiniteSetTheorems`, `TLAPS` |
| `TreeNodes` | nodes, properties, pools, counters | |
| `DeviceTree` | building and flattening a tree | `TreeNodes` |
| `Xml` | `prepare_devicetree`: parser, symbols, population | `TreeNodes` |
| `XmlProofs` | tags, symbols and pointers after any document, proved | `Xml`, `Induction` |
| `Stage2` | what the loader enters into the tree, then flattening | `DeviceTree` |
| `DeviceTreeProofs` | types, counters, the size measured and what is read back, proved of a client's trees and of the loader's; that the ramdisk is found | `Stage2`, `Induction` |
| `DevicePaths` | `DT__FindNode`: nodes by path, made if missing | `TreeNodes` |
| `Image3` | `get_image3`, `image3_find_tag`, `image3_get_tag_data` | |
| `Image3Proofs` | a search finds what is laid out, proved | `Image3`, `Induction` |
| `BlockMove` | `bcopy.S`, `bzero.S`, a path at a time | implements `Memory`'s `Bcopy`, `Bzero` |
| `BlockMoveProofs` | copying and clearing, proved | `BlockMove`, `TLAPS` |
| `Strings` | `strlen.S`, `strcmp.S`, `strncmp.S`, `strchr.S` | |
| `Numbers` | number conversion of `printf.c`; `strtol`, `strtoul` | |
| `Strtok` | `strtok` | |
| `Jsmn` | `json_parser.c` | |
| `Routines` | the routines that know nothing of booting, side by side | `Strings`, `Numbers`, `Strtok`, `Jsmn` |
| `RoutinesProofs` | answers and loads of the string functions, pieces of `strtok`, proved | `Routines`, `Induction` |
| `MCBooter`, `MCTlsf`, `MCXml`, `MCImage3`, `MCBlockMove`, `MCRoutines` | instances for TLC of the module each is named after | that module |
| `MCDeviceTree` | trees of a client, the loader's tree, paths, as one instance | `DeviceTree`, `Stage2`, `DevicePaths` |

### Booter

`env` is the machine state at power on: registers, ATAGs, where the loader and
its images lie, what the kernel's load commands say.  It never changes, and
every property is checked for every `env` in `Envs`.  `pc` is the stage; each
stage of the code is an action: `Start` (`start.S`), `CheckMachine`, one action
per kind of tag (`PopulateMemory`, `PopulateCommandLine`, `PopulateRamdisk`,
`SkipTag`, `LastTag`), `StartDarwin` (clearing 128 MB, `prepare_boot_args`),
`PrepareKernel`, `MeasureCommand`, `ReserveKernel`, `MapSegment`, `MapThread`,
`MapOther`, `MapDone`, `PrepareDeviceTree`, `PrepareRamdisk`,
`FlattenDeviceTree`, `FinalizeBootArgs`, `Jump`.  `SearchAstray` is
`image3_find_tag` in an image that has no DATA tag and no other image behind it:
with zeros there it stays at `searching`, otherwise it may also take what is
there for the tag.

`mem` has a cell per unit of memory, and a cell holds where its contents came
from: `<<"img", 3>>` is the fourth cell of the linked images.  Copying moves
provenance, so "the segment is in place" is an equation between cells.  A stage
that needs an input which an earlier write destroyed, or a pointer that was
never set, goes to `undefined`; a failed assertion goes to `halted`; both are
ends, `kernel` is the third.

`Provisioned(e)` is what the loader needs and never checks: an image of each
kind, the search for a DATA tag in each of them led out of it at least
(`DiskBounded`: only the ramdisk's may be without, and only with another image
behind it), a terminated tag list, memory enough, segments within the sum of their
sizes and their file parts within the image (`FilesFit`), no heap signature
left over from before a reset. The properties of the result assume it, and only
it; `NothingMissing`, `TagsCounted`, `ReservationsDisjoint`, `PayloadBelowTop`
and `WritesReserved` do not.

The constants' assumptions are what linking and the sources' constants give:
`EnvAssumption` that the images follow the loader and that U-Boot's tag list
does not overlap them, `SizeAssumption` that sizes are words and that the part
of the heap in use fits between its control structure and its sentinel.

### Heap and Tlsf

`Tlsf` keeps headers by address, the matrix of list heads and the two bitmaps,
in words of four bytes, and performs `malloc_ex`, `free_ex` and `realloc_ex` as
the code does: search class, split, coalesce both ways, shrink, grow into the
next block, move.  `Heap` says only that buffers are disjoint and keep their
contents; `HeapSpec` is the refinement `H!Spec` under the mapping that reads a
buffer's contents out of the cells it points to.

`ms_bit` is `MsBit`, by `Pow2`, a function so that it can be reasoned about.
`TlsfAssumption` bounds the parameters as the code's do: the
matrix has a list for every size a block of the pool can have, and a request is
small enough not to overflow when it is rounded (see 6).

### TreeNodes, DeviceTree, Xml

`TreeNodes` has the tree as a record and an operator per function that changes
it.  A buffer of the pools is one call of `malloc`; `room` says how many more
succeed.  `DeviceTree` lets a client build any tree and then flattens it one
loop turn at a time with an explicit stack; `Entry` is how a reader gets through
the result by its counts and lengths.

`Xml` runs the recursive parser on a sequence of tokens, again with an explicit
stack, whose frames hold the local variables: `tag` is the variable whose
address is passed down, and starts out `Unset`.  `pc` is `returned` or `failed`
after a call, and the action of the frame on top is what the caller does then.
Tags are numbers into a memory of tags, the free list is `free`, the symbols
are a bag of strings.  `undefined` is what is not followed further; `ring` is a
list that goes round, after a `<plist>` in it has made the parser link a tag to
itself (`ListRing`), and no end: `XMLFreeTag` or the walk stays in it.
A dictionary found by the outermost loop is walked by
`EntryScalar`, `EntryArray`, `EntryChildren`, `EntrySkip`, `Member` and
`WalkEnd`, then freed.  `EntryArray` needs to know sizes, since an integer is
stored as a word wherever the strings before it end (`WordsAligned`).  Letters, white space and comments are abstracted: a
token is a tag's name with the text after it.

### Stage2, DevicePaths

`Stage2` continues where `Xml` ends: from a tree the XML may have left (a root
alone, or one that has a `/chosen`, a memory map and a ramdisk of its own) it
adds the nodes, the seventeen properties and the ramdisk's range, each with the
`malloc` of its name, which may be refused like any other, and flattens the tree
with `DeviceTree`'s actions.  `Announced` is what a kernel finds when it looks
up `/chosen/memory-map`'s `RAMDisk` in the flattened words; `RamdiskAnnounced`
says what that should be; `gChosen`, which only the loader sets, marks its tree.
Of what the XML may say of a ramdisk `StageAssumption` has only that it is told
apart from what the loader says (`SaysOther`): such properties have the value
`OtherValue`.  `room` counts calls of `malloc` that succeed, a name, a range or a
buffer of a pool alike.

`DevicePaths` has `DT__FindNode` a turn of its outer loop at a time, called by
clients in any order; `path` is what is left, a sequence of characters, since
how slashes and the limit cut it up is what the function is about.

### Image3

A `layout` is what is really there, images with tags of real lengths; the sizes
in their headers claim something, right or wrong.  `mem` is the layout as words
(sizes and addresses are in words of four bytes, and wrap), and the searches
read nothing but `mem`.  A payload reads like a header, so that a search that
has lost its way finds something.  `Image3Assumption` says that a layout lies in
memory without wrapping around its end, that magics differ, and that there is no
image at 0.  `Right` are the layouts of which `AsLaidOut` speaks: the headers say
what is there, and the word behind the last image, which the code takes for a
size, does not lead past the last address and round to the images again.

### BlockMove

Control as in the assembly: an action for each stretch between two labels, with
the registers `r0`, `r1`, `r2`, `r12`, and `r4` with the bytes carried from one
word to the next.  Memory is bytes, each with a value of its own.  `Flags` is
what `msr cpsr_f` makes of a count, `Rising`, `Falling` and `FromTop` the order
in which the code then moves the pieces.  The prefetches and the saving of
registers are left out.

### Strings, Numbers, Strtok, Jsmn

`Strings` has a call per execution, with its strings in memories of their own;
the two word loops keep in `ahead` the bytes that the code keeps shifted in a
register.  `HasNUL` is the subtraction with its borrows, not the test it stands
for.  `Numbers` prints a number and reads it again, or reads a text; `bf` is the
array, `d` the power of the radix.  `Strtok` has two texts one behind the other
and a caller who may change delimiters and begin again at any time.  `Jsmn`
takes classes of characters; `given` says how much of the text the caller has,
`num_tokens` how many tokens, and `Again` is the caller who provides more of
what was missing.

## 3. Runs

| run | what is asked | size |
|---|---|---|
| `boot` | the kernel is entered only with everything in place; reservations, tags, writes; a boot ends whose images have DATA tags, and in the kernel when provisioned | 96 cells of memory, some 10,000 environments |
| `heap` | structure and contents of TLSF; refinement of `Heap` | 3 buffers, 5 sizes, 36 words |
| `device_tree` | measuring, writing, reading back, counting | 4 nodes, 4 properties |
| | is the ramdisk announced to the kernel, whatever the XML had | 3 trees, 15 heaps |
| | does a path name one node | 9 paths, 6 nodes, 6 heaps |
| `xml` | tags, symbols, error paths, the tree that results | 8,500 documents, 4 heaps |
| `image3` | do searches end, and find what is there | chains of up to 2 images, 64 words |
| `block_move` | every path of copying and clearing | 304 bytes, 4,000 calls |
| `routines` | answers and loads of the string functions, for all alignments | strings of up to 21 characters |
| | printing and reading back; overflow | all 8-bit numbers, all texts of 4 |
| | pieces of a text, through changing calls of `strtok` | 121 texts, 4 calls |
| | coming back to the tokenizer for tokens and bytes | some 2,000 texts, 6 tokens |
| `boot_args_top`, `command_line`, `device_tree_names`, `xml_integers`, `stage2_ramdisk` | disagreements, see 5 | small |

`device_tree` and `routines` each explore several machines that do not interact:
`tree` and `running` say which an execution is of, the variables of the others
are `None` all along, every action is that of one machine, and a property says
what its module's says of the executions of that machine.

**Bounds, and why they are enough.**  `MCBooter` keeps the order of the real
sizes (boot_args below its alignment, below a page, below 1 MB, below heap,
below cleared RAM) in 96 cells; tag lists run through all sequences of up to
three of ten tags, image chains through all of up to three of eight images, load
commands through all of up to three of ten commands, among them segments that
overlap, leave the range, or are larger than memory; sizes walk past every
alignment on both sides; the last image may lie at the end of what is cleared,
with zeros or with something else behind it.  Three is the first length at which a repeated tag, a
stage in between and a last one can all occur.

`MCTlsf`: in an area of 36 words the first block is of the third level; requests
of 0, 3, 6, 10 and 17 words fall in the linear row, in two levels above it and
on either side of a class boundary, and three buffers are the fewest with which
a block has two neighbours to coalesce with while a list has two members.

`MCDeviceTree`: three elements to a buffer, of which the first is not used, so
that pools are refilled twice with four elements, or cannot be; values of 0 and
of 5 bytes (no word; a padded word), a name as long as its field.

`MCXml`: property lists of every small shape and their prefixes (the error paths
at every depth), all sequences of up to three tokens, and all of four behind
`<dict>`; arrays in which an integer is behind a string of two bytes and behind
one of four; three tags to a block; heaps that run out at the root, in the parser
and while the tree is filled.

`MCBlockMove`: every constant the code compares a length or a distance with (2,
4, 8, 16, 32, 64) has values on both sides; starts are at all four places of a
word and on both sides of 16 and 32; distances are positive and negative.

For `Stage2`, rooms go from 0 to more than the 24 calls of `malloc` there are,
so that the heap is used up at the nodes, at each kind of property and at the
range's name and its value.  For `DevicePaths` the limit is 3 instead of 31,
with entries of up to one less.  `MCImage3`: sizes too short, right, too long
and zero; two images are the fewest with which a step beyond an image leads
somewhere.

`MCRoutines`: `strncmp` leaves its bytewise loop at 16, and its words end at
any of four places, hence strings of up to 21 and `n` from 15 to 23; characters
are those whose bits come close to 0 for the test.  A byte's digits with sign
and terminator fill an array of 5 as an int's fill one of 12, and three digits
overflow in every base.  Three calls of `strtok` exhaust the texts, a fourth
comes after the end.  Documents are all short ones, and longer ones where
brackets nest three deep.

**Fairness.**  One processor executes the loader and nothing preempts it, so
weak fairness of the step relation is what the hardware gives: `FairSpec` of
`Booter`, `Xml` and `Image3` has `WF_vars(Next)`, those of `DeviceTree` and
`MCDeviceTree` fairness of the walk only, because a client need not ever ask
for it.  What ends under it is said where it does: `AlwaysEnds` is about terminated
tag lists and images with DATA tags, `Ends` about documents with headers, since
otherwise the loader can go on for ever (`SearchAstray`, `ListRing`), and
`SearchEnds` about sizes that lead onwards.  `CHECK_DEADLOCK FALSE`
where the system stops by itself (in the kernel, halted, at the end of a
document, walk, search or call); the heap's run checks deadlock.

Each property of each passing run has a mutant in `PROJECT.json`: a plausible
slip in one definition of the model (an alignment rounded down, a header
forgotten in coalescing, a pointer not cleared) under which TLC finds the
property violated.

## 4. Theorems

Proved, for every value of the constants that satisfies the named assumptions:
every safety property that the runs `boot`, `heap`, `block_move` and `image3`
check, and that `Tlsf` implements `Heap`; of `device_tree` the types, the
counters, that the walk fits what was measured, that what it writes is read back
as the tree it was, and that the kernel finds the ramdisk; of `xml` the tags and
symbols and that nothing undefined is read; of `routines` what concerns the string
functions and `strtok`.  The rest is at the end of this section.

### The boot: `BooterProofs`

From `WordAssumption`, `EnvAssumption` and `SizeAssumption`, so for every size
of memory, every set of environments and every alignment and size.

- `TypeCorrect`. Much of it is that wrapping arithmetic stays within addresses,
  which `PlusType`, `MinusType`, `AlignDownBound` and `ReserveType` state once.
- `ReservationsCorrect`, `TopCorrect`, from `RegionInv`: the types, `Stages`
  (before `start_darwin` sets up the region there are no reservations, and no
  boot arguments are placed before the last stage) and the two properties.
  `Stages` is needed because `StartDarwin` resets the region's cursor, which is
  harmless only while nothing has been reserved, and because the boot arguments
  are the one reservation that `PayloadBelowTop` leaves out. A step that
  reserves is covered by `ReserveKeepsDisjoint`, from the two facts of
  `ReserveBound`: without overflow, a reservation starts at or after the cursor
  and the cursor moves past it.
- `NothingMissingCorrect`, `TagsCountedCorrect`, `EntryCorrect`,
  `WritesReservedCorrect`, from `HandoffInv`. It says what the stages so far
  have established: `Checked` what each found before it let the next begin,
  `Measured` that the kernel's reservation is as large as its segments' sizes
  add up to, `Counted` what has been taken from the tags read so far (the first
  memory tag and ramdisk tag, the last command line), `Entered` that the entry
  point is that of the last thread command mapped so far. `WritesReserved` is
  about steps: it is proved of each step from `HandoffInv`, which has the
  kernel's reservation where `MapSegment` puts its segments.
- `ProvisionedBootsOn`, `KernelLoadedCorrect`, `DataLoadedCorrect`, from
  `PayloadInv`: `HandoffInv` and, in a provisioned boot, `Sound`. The layout
  comes first, as plain numbers that do not wrap (`Phys`, `KernelAt`,
  `KernelEnd`, `DiskAt`, `TreeEnd`, `ArgsAt`, below all of them the loader and
  its images, above them the `Pool`); `Sound` then has a part for each thing in
  memory. `Untouched` is needed for the sources of copies: the images are read
  stages after the loader began to write. `ProvisionedBootsOn` is the safety
  half of `BootsWhenProvisioned`: a provisioned boot takes none of the ways
  out, an assertion, an input that was overwritten or a search that does not
  end (`NeverAstray`).

### The heap: `TlsfProofs`

From `TlsfAssumption`, for every pool, every matrix, every set of buffers and
sizes, and every sequence of calls.

The inductive invariant (`HeapKept`) has three parts, none of which is
inductive without the others, as each operation trusts all three structures.

- `Sound`: headers tile the area from `Area` to the sentinel, every header
  knows the state of the block before it, a free one has a used one behind it.
  `SoundBut` leaves out some blocks' tags: between two assignments of
  `free_ex` the tags around the freed block are wrong, and are put right later.
- `Lists`: links are mutual and stay in the class, heads have nothing before
  them, the bitmaps are those of the heads, and the lists are `Ranked`: some
  number grows along the links.  `Ranked` is what forbids a list that comes
  round; without it every free block is linked, but `ListsExact`, which walks
  from the head, does not follow.
- `Held`: the used blocks are those of the buffers, a buffer to a block.

From it: `TypeCorrect`, `TiledCorrect`, `BoundaryTagsCorrect`, `OwnedCorrect`,
`GoodFitCorrect` (the search takes the first block of the list it finds, which
is enough because it rounds the size up to a class), `ListsExactCorrect` (a
free block is met on the walk from its list's head: walking back from it ends,
as ranks fall, and only at the head) and `NothingLeaksCorrect` (without used
blocks two neighbours would be free, so there is one block, and all else
follows).

`HeapRefined`: `Spec => HeapSpec`.  Each call maps to a step of `Heap`, or to a
stutter when it has no effect there.  It takes `Inv` and `Idle` (nothing is
asked for by a pointer that is `NULL`).  The lemma that carries it is
`Undisturbed`: what an operation writes into the pool, headers and links, is no
cell of a block that is used before and after it.  `TakenStays` and `FreedStays`
then follow a buffer through `realloc_ex`, which when it moves a buffer takes a
block, copies, and frees.

### Copying and clearing: `BlockMoveProofs`

From `BlockAssumption`, for every memory, every pair of ranges, overlapping or
not, and every length: `MovedCorrect` and `AccessesSoundCorrect`. `MoveInv`
has, for each label, what the registers and memory are there: upwards, the
first `r0 - call.dst` bytes have been moved and no others; downwards, the last
ones; between two words, what `r4` carries. `ForwardStep`, `BackwardStep` and
`StoreStep` treat a move of `k` bytes in any pieces that cover them. The side
conditions at the labels are what keeps the code from going beyond the end
(`Lunaligned_32` leaves at least 49 bytes after aligning, `Lwordalignloop2` has
a whole word), and the alignments are what `AccessesSound` needs at the next
stretch.

### The device tree: `DeviceTreeProofs`

From `PerBufferAssumption`, `TreeAssumption` and `StageAssumption`, for every tree
a client can build, however deep, and every heap: `TreeTypeCorrect`,
`CountsCorrect`, `FitsCorrect`, `ReadsBackCorrect`, and the same of the loader's
entries, which go into any tree that the XML may have given: `LoaderTypeCorrect`,
`LoaderCountsCorrect`, `LoaderFitsCorrect`, `LoaderReadsBackCorrect`; and of these
`RamdiskCorrect`.

`DT__FlattenDeviceTree` measures with three counters that `DT__AddChild` and
`DT__AddProperty` keep, and writes by following links.  That the two agree is
not a fact about one function, and neither side mentions the other.

- `Kept` is what building maintains: the types, `Linked` (every node but the
  root is one node's child, once, and was made after its parent),
  and `SumsHold` (the counters are sums over all nodes, whether linked or not).
- `TreeInv` adds what the walk is at.  `Walked` says there is a set of nodes
  come to so far (`Visited`: closed under parents, the nodes on the stack pairwise
  different, all children of a finished node in it) of which what has been
  written is the sum of the sizes (`Reached`).  When the stack is empty the set
  is closed under children too, so with `Linked` it has every node, and what
  has been written is what was measured.  On the way it is a part of that.
- `Behind`: names that fit their fields end before what is written next, and
  the counts put into a node's header go to a place already passed.

The sums and their parts are lemmas of their own (`SumOfExcept`, `PartOfMore` and
others): the code's counters are changed by one term at a time.

That the words are read back as the tree needs to know where each node lies.

- `Laid` says there is a set of triples, a finished node with where it starts and
  ends, of which each is `Whole`: its header and properties are in place, and its
  children lie behind them, in order, each another triple.  A node still on the
  stack is `Framed`: as much of that as has been done.  A step only adds words
  behind all of these, or sets a count in a header that nothing else is in, so
  each word keeps what it was given.
- The readers `Starts`, `EndOf`, `Entry` and `Tree` are recursive functions of the
  memory read, and a recursive function has a value only where one is shown to
  exist (`EndExists`, `EntryExists`, `TreeExists`): each asks only for what lies
  further on, and memory ends.  That they come to the tree is then an induction
  from the node made last to the root (`AllRead`), a child being made after its
  parent.

For the ramdisk `RamdiskInv` follows the entries: `Says` (of a ramdisk nobody
speaks but the loader and the XML), `Mapped` (the loader's `/chosen` and memory
map are the first of their names, as long as the heap has refused nothing), and
in that map no `RAMDisk` but the loader's, and none before its turn
(`HasDisk`, `Disks`).  With `ReadsBack` a lookup in the words is one in the tree
(`LookedUp`), and the property follows (`RamdiskFollows`).

### Property lists: `XmlProofs`

From `XmlAssumption` (documents are sequences of tokens, buffers in the pools are
of at least one element), for every document, well-formed or not, and every
heap: `StoreConsistentCorrect` and `StaysDefinedCorrect`.

`Parsing` (`ParsingInvariant`) has for each `pc` what the store and the stack are:

- `Stored`: pointers are in range (`Inside`), the tags on the free list are clear
  and on it once (`Pooled`), every tag in use that is not in a local
  variable is pointed to once, one that is in a variable by no tag (`Owned`), and
  a rank falls along the pointers (`Graded`). Without `Graded` tags could own
  one another in a ring, and neither `XMLFreeTag`'s recursion nor a walk along a
  list would come to an end; it is found again after each assignment to a
  pointer, and an assignment only ever links trees that were apart.
- `Counted`: the bag of symbols has a copy of a string for each tag that refers to it.
- `Stacked`, `Apart`, `Patient`, `Held`: the activations' lists and the last result
  are different roots of trees; frames below the top wait for what a call gets
  them; what a call has returned has no next tag yet.

The lemmas `FreeTagKeeps`, `MakeTag`, `LinkKeeps` say what the functions on tags
leave true; each action of the parser is one or two of them with what it does
to the stack.  `FreeTagKeeps` is by the set of tags below the one given back:
these are all that is taken out, and nothing outside points into them.

`StaysDefined` takes `Behaved` (after headers, the variable that a caller reads
has been set, unless the call failed) and `Defined`: keys have names
(`Labelled`), the root exists once the loop runs, and what the walk has on its
stack are nodes, unless the heap is used up, and tags that are in use, at
entries those of the list of some dictionary (`Walking`). `ChainGoesOn` is why
going on along a list stays in it.  What the property leaves out are the places
where the code does go wrong: `Keyed` and `Aligned` are about the document's
dictionaries and arrays as the parser has them.  With headers, what a call has
returned is new, so that no list comes to go round (`StrayDefined`).

### Images: `Image3Proofs`

From `Image3Assumption`, for every chain of images whose headers are right, with
any tags and payloads: `AsLaidOutCorrect`.  `SearchInv` says that memory is the
layout, which is never written, and `Searching`: the pointer is where some image
or tag begins, or just behind the last, and none that is searched for has been
passed.  The lemmas say what the words at such a place are, by joining sequences
of images of sequences of tags, and that the addition of sizes does not wrap on
the way.  The second part of `Right` came out of the proof: with a size behind
the last image that is large enough, the search wraps around memory and may come
upon the images once more.

### Strings and `strtok`: `RoutinesProofs`

From `CallsAssumption` (each string has a 0), for strings of every length and
bytes, at every alignment, with anything around them: `AnswersCorrect` and
`LoadsSoundCorrect`.  `StringsInv` says at each label how many characters were
compared and found the same, that `n` is less by the bytes loaded of the second
string, which are more than were compared (`NLeft`), and which bytes those are
that a register holds shifted (`AtWords`).  `strncmp` chooses words when `n` is at
least 16; `AtAlign` and `AtPreload` are why `n` does not run out before they begin.
Loads are sound because a word is loaded only after every byte before it was seen
not to be 0.
The lemmas on `Borrows` say that the subtraction tests for a 0 byte exactly,
borrows included.

From `StrtokAssumption` (texts have no NUL, and delimiters are characters), for
all texts, all delimiters of every call and a text begun anew at any time:
`SeparatesCorrect`, of `RoutinesSpec`, as `Strtok` is an instance there.
`Separating` says that there is a sequence of rests, one for each call since the
text was begun: between calls `last` is where the present rest begins in memory
(`Left`), and each piece that was returned is still there, ended by a NUL before
the rest begins (`Stay`).  The loops have passed delimiters, then characters that
are none (`Passed`).  `Piece`, which says what a text's next piece is, is no
recursion but two places that are determined by what is before and at them
(`PieceOf`), which are those where the loops stop (`PieceIn`); so no induction over
the text is needed, only over the calls, and that is the machine's own.

### Induction

The library's induction theorems take an operator as a parameter, which the
prover cannot instantiate.  `Induction` has what the proofs need about sets and
functions instead: a set that has 0 and successors has
all numbers, a set of numbers has a least element, a step of a set into itself
can be repeated, a function can be defined by its value at 0 and at successors.
They rest on the library's theorem that finite sets are well founded under
strict inclusion.  The sums of `macho_get_vmsize`, powers of two and walks along
lists are reasoned about with them.

### Only model-checked

- Liveness under fairness, which the prover does not do: `AlwaysEnds`,
  `BootsWhenProvisioned` (its safety half is proved), `FlattenEnds`, `Ends`,
  `SearchEnds`.
- `FindsByPath` and `TreeFromDocument`, which compare what a search or a parser
  does with a recursive definition on trees of every depth, and `PrintedReadsBack`,
  `Clamped` and `Tokenizes`, which do so with recursive functions over texts.
  They need an induction over the data in lock step with the machine, beyond
  what `Induction` has.

## 5. Disagreements found

- `boot_args_top`: `topOfKernelData` is computed before the boot arguments are
  reserved, so they can lie above it (`bootx.c:484`).
- `command_line`: a command line of `BOOT_LINE_LENGTH` characters has no
  terminator inside its array (`main.c:73`, `libc_stub.c:41`).
- `device_tree_names`: the measured size is not "the buffer size needed" when a
  name is longer than its field (`device_tree.c:239`, `259`).
- `xml_integers`: integers of the document become 0 (`xml.c:361`); the tree in
  `xmdt.img3` depends on them.
- `stage2_ramdisk`: with the heap used up, stage 2 succeeds without having
  entered the ramdisk (`bootx.c:451`, `528`).

Consequences of other properties that are worth knowing:

- `TreeFromDocument`: properties of a node and members of an array reach the
  kernel in the reverse of the document's order (`xml.c:237`), children in its
  order, being reversed twice.
- `SearchEnds`: the search for a tag reads one header behind the image
  (`image3.c:61`).  In the last image, if that has no DATA tag and zeros follow,
  it stays there for ever, and so does the boot: of the kernel and the device
  tree source (`bootx.c:245`, `364`), and of the ramdisk (`bootx.c:440`), where it
  would otherwise go on with the ATAG's.  An image of size 0 does the same to
  `get_image3`.
- `StaysDefined`: an array with an integer before strings that are not of whole
  words together, reversed, has the integer behind them, where it is stored
  unaligned (`bootx.c:110`).  A `<plist>` inside a list links the tag before it
  to itself (`xml.c:237`).
- `RamdiskAnnounced`: a `/chosen` in the XML is shadowed whole, since the loader
  adds another, which comes first.
- `FindsByPath`: an entry of exactly `kDTMaxEntryNameLength` characters, which
  `device_tree.c:30` allows, is torn in two (`device_tree.c:334`).
- `Tokenizes`: bytes that end in the middle of a primitive make two of it, and
  bytes that end behind a backslash are called invalid, not incomplete
  (`json_parser.c:138`, `jsmn.h:21`).
- `PrintedReadsBack`: of a negative number padded with zeros the sign comes
  behind the zeros, and the number does not read back.

## 6. Not modelled

`calloc`, further areas and statistics of TLSF, `DT__Finalize` and the
destructors of the device tree, `XMLGetProperty` and `XMLParseFile`: never
called on the way to the kernel.  `bsearch` and the bytewise C string functions
keep no state; `strncpy`'s terminator is part of `PopulateCommandLine`.  Of
`printf`, the copying of text, `%c`, `%s` and the reading of a width; of the
UART, everything.  `Booter` assumes image chains that the linker built, and says
of an image only whether it has a DATA tag, and what the search comes to behind
one that has none: `Image3` has the searches for any chain.  The contents of the device tree are not part of `Booter`, which has its
length: `Xml` and `Stage2` have them.  The ARMv6 paths of the string functions
(`uqsub8`) are not modelled: nothing in the repository defines `_ARM_ARCH_6`,
which selects them, and so they are not assembled.
A request to the heap close to 2^32, which rounding makes 0 (`tlsf.c:698`), is
not among `Tlsf`'s: the loader's are lengths of what is in memory.

## 7. What is left

Every module of the plan is written, and every safety property a run checks is
proved but those listed under "Only model-checked".  Of these `TreeFromDocument`
would say most: it takes an invariant that has, for each frame of the stack, the
tree of the tokens read so far, on top of `Parsing`.

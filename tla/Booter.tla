------------------------------- MODULE Booter -------------------------------
(***************************************************************************)
(* The boot sequence of GenericBooter: from the entry point (start.S),     *)
(* through the walk of the ATAG list (main.c), to the loading of the       *)
(* kernel, the ramdisk, the device tree and the boot arguments (bootx.c,   *)
(* macho_loader.c, memory_region.c, image3.c) and the jump to the kernel.  *)
(*                                                                         *)
(* The loader is one thread with interrupts off, so its hazards are about  *)
(* memory: every stage writes to addresses computed from what the previous *)
(* boot stage and the linked images say, and nothing checks that the       *)
(* ranges are disjoint.  A stage that reads something an earlier stage     *)
(* destroyed has no defined behaviour, and the machine is "undefined".     *)
(***************************************************************************)
EXTENDS Memory

CONSTANTS
    Envs,            \* the machine states the loader may be started in
    ZeroSize,        \* the 128 MB of RAM that start_darwin clears
    HeapSize,        \* MALLOC_SIZE
    HeapUse,         \* cells of the heap the device tree takes
    BootSize,        \* the loader itself, from _start to __end
    PageOffset,      \* 0x1000, the kernel's distance from the start of RAM
    RamdiskAlign,    \* 4096
    TopAlign,        \* 1 MB
    BootArgsAlign,   \* 1024
    BootArgsSize,    \* sizeof(boot_args)
    BootLineLength,  \* BOOT_LINE_LENGTH
    VirtBase,        \* 0x80000000
    KernelVMAddr     \* KERNEL_VMADDR

Flags == {"is_first_region", "is_first_ramdisk", "is_malloc_inited"}

TagKind == {"core", "mem", "cmdline", "initrd2", "other"}

\* An ATAG: its kind, the start and size of a memory or initrd2 tag (for a
\* command line, size is the length of the string) and the distance to the
\* next tag, which is 0 only in a list that was never terminated properly.
Tag == [tag : TagKind, start : Addr, size : Addr, words : {0, 1}]

\* An image of the chain behind the loader: a header cell at an address, then
\* a body of some size, which is the contents of a DATA tag or something else.
Image == [type : {"krnl", "rdsk", "xmdt"}, data : BOOLEAN, at : Addr,
          size : Addr]

\* A Mach-O load command; a thread's pc is in the field vmaddr.
LoadCommand ==
    [cmd : {"segment", "unixthread", "other"},
     vmaddr : Addr, vmsize : Addr, fileoff : Addr, filesize : Addr]

EnvType ==
    [r2 : BOOLEAN,              \* register r2 is not null
     machine : BOOLEAN,         \* r1 is the RealView PB-A8's machine number
     tagsAt : Addr,             \* the ATAG list's address, and its tags
     tags : Seq(Tag),
     stalePool : BOOLEAN,       \* RAM kept a heap signature over a reset
     bootAt : Addr,             \* where the loader runs
     images : Seq(Image),       \* the chain from __end on
     macho : BOOLEAN,           \* the kernel is a Mach-O executable
     commands : Seq(LoadCommand),
     xml : BOOLEAN,             \* the device tree source has a dictionary
     dtLength : Addr]           \* flattened size, without the RAMDisk entry

\* The chain starts at __end; the cell after image i, where the next one is.
\* What is linked lies in memory without wrapping, so these are plain sums.
ImagesAt(e) == e.bootAt + BootSize
AfterImage(e, i) == e.images[i].at + 1 + e.images[i].size
DataAt(e, i) == Plus(e.images[i].at, 1)

Chained(e) ==
    \A i \in DOMAIN e.images :
        e.images[i].at = IF i = 1 THEN ImagesAt(e) ELSE AfterImage(e, i - 1)

\* The loader and its images take this many cells from bootAt on.
LoadedSize(e) ==
    IF e.images = <<>> THEN BootSize
    ELSE AfterImage(e, Len(e.images)) - e.bootAt

\* The two ranges of cells have none in common, and neither wraps.
Apart(a, n, b, k) ==
    /\ a + n < Word
    /\ b + k < Word
    /\ a + n <= b \/ b + k <= a

\* The machine starts with the loader, its images and the tags in memory,
\* none over another.
ASSUME EnvAssumption ==
    /\ Envs \subseteq EnvType
    /\ \A e \in Envs : /\ Chained(e)
                        /\ Apart(e.bootAt, LoadedSize(e),
                                 e.tagsAt, Len(e.tags))

ASSUME SizeAssumption ==
    /\ {ZeroSize, HeapUse, BootSize, PageOffset, BootArgsSize,
        BootLineLength, VirtBase, KernelVMAddr} \subseteq Addr
    /\ {HeapSize, RamdiskAlign, TopAlign, BootArgsAlign} \subseteq Addr \ {0}
    /\ HeapUse + 2 <= HeapSize    \* between the control structure and the sentinel

VARIABLES
    env,           \* the machine state at power on, never changed
    pc,            \* the stage the loader has reached
    cursor,        \* index of the next ATAG, or of the next load command
    mem,           \* what each cell of memory holds
    flags,         \* main.c's static flags that are set
    heap,          \* TLSF's default pool; Word when there is none
    gBootArgs,     \* the boot arguments built so far
    ramdisk,       \* ramdisk_base and ramdisk_size
    region,        \* kernel_region
    kernelSize,    \* the sum of its segments' sizes, so far
    kernelBase,    \* where the kernel's segments go
    entry,         \* ctx.entry, then kernel_entrypoint; Word when unset
    rangeRAMDisk,  \* the RAMDisk entry of /chosen/memory-map, if entered
    args,          \* where the finished boot arguments are; Word before
    reserved       \* history: the reservations made, in order

vars == <<env, pc, cursor, mem, flags, heap, gBootArgs, ramdisk, region,
          kernelSize, kernelBase, entry, rangeRAMDisk, args, reserved>>

\* What the tags told, where the region stands, what the kernel will be told.
found     == <<flags, heap, ramdisk>>
placement == <<region, kernelSize, kernelBase, reserved>>
handoff   == <<entry, rangeRAMDisk, args>>

Range0 == [base : Addr, size : Addr]

BootArgs ==
    [virtBase : Addr, physBase : Addr, memSize : Addr, topOfKernelData : Addr,
     deviceTreeP : Addr, deviceTreeLength : Addr,
     commandLine : Nat,      \* the tag it was copied from, 0 when empty
     terminated : BOOLEAN]   \* it has a NUL within BOOT_LINE_LENGTH

EmptyBootArgs ==
    [virtBase |-> 0, physBase |-> 0, memSize |-> 0, topOfKernelData |-> 0,
     deviceTreeP |-> 0, deviceTreeLength |-> 0,
     commandLine |-> 0, terminated |-> TRUE]

Reservation == [start : Addr, size : Addr, fits : BOOLEAN]

Running == {"start", "core", "atags", "darwin", "kernel_image", "measure", "map",
            "devicetree", "ramdisk", "flatten", "finalize", "jump"}

Terminal == {"halted", "undefined", "kernel"}

\* image3_find_tag goes round for ever.
Searching == "searching"

\* The types of the variables.
TypeOK ==
    /\ env \in EnvType
    /\ pc \in Running \cup Terminal \cup {Searching}
    /\ cursor \in Nat \ {0}
    /\ mem \in [Addr -> Cell]
    /\ flags \in SUBSET Flags
    /\ heap \in Addr \cup {Word}
    /\ gBootArgs \in BootArgs
    /\ ramdisk \in Range0
    /\ region \in [base : Addr, pos : Addr]
    /\ kernelSize \in Addr
    /\ kernelBase \in Addr
    /\ entry \in Addr \cup {Word}
    /\ rangeRAMDisk \in SUBSET Range0
    /\ args \in Addr \cup {Word}
    /\ reserved \in Seq(Reservation)

-----------------------------------------------------------------------------
(* The images linked behind the loader.                                    *)

\* Cell a, which lies in the image chain, holds what was linked there.
Linked(m, e, a) == m[a] = <<"img", Minus(a, ImagesAt(e))>>

\* Mutants: the search never leaves the first image; it takes any image.
GetImage3AtStart(type) == {i \in DOMAIN env.images \cap {1} :
                              env.images[i].type = type}
GetImage3Any(type) == DOMAIN env.images \cap {1}

\* get_image3: the first image of the type, when every header on the way to
\* it still has its magic number.  A set of at most one index.
GetImage3(type) ==
    {i \in DOMAIN env.images :
        /\ env.images[i].type = type
        /\ \A j \in 1 .. i : Linked(mem, env, env.images[j].at)
        /\ \A j \in 1 .. (i - 1) : env.images[j].type # type}

\* The type of image whose DATA tag a stage searches for.
Sought == CASE pc = "kernel_image" -> {"krnl"}
            [] pc = "devicetree"   -> {"xmdt"}
            [] pc = "ramdisk"      -> {"rdsk"}
            [] OTHER               -> {}

\* The image searched when it has no such tag, and no other image's header
\* is behind it.  image3_find_tag takes what is there for a header of one
\* tag more; an image's header would lead it out of the image.
Astray ==
    {i \in UNION {GetImage3(type) : type \in Sought} :
        /\ ~env.images[i].data
        /\ \/ i = Len(env.images)
           \/ ~Linked(mem, env, AfterImage(env, i))}

\* Zeros there are a header that leads nowhere.
LeadsNowhere == \E i \in Astray : mem[AfterImage(env, i)] = Zero

\* The kernel's Mach-O header and load commands are its first data cell.
HeaderLost == \A i \in GetImage3("krnl") : ~Linked(mem, env, DataAt(env, i))

-----------------------------------------------------------------------------
(* The heap, as the boot sequence sees it: its control structure and first *)
(* block header at the bottom, the sentinel at the top, nodes between.     *)

HeapEnd == Plus(heap, HeapSize - 1)

PoolEmpty(m) == m[heap] = Zero

PoolIntact(m) ==
    /\ m[heap] = <<"pool", 0>>
    /\ m[HeapEnd] = <<"pool", HeapSize - 1>>
    /\ ~env.stalePool

NodesIntact == Holds(mem, Plus(heap, 1), HeapUse, "node")

\* What the next step reads is gone, or was never there: code or data of the
\* loader, a tag, the load commands, an uninitialised pointer, the source of
\* the device tree, the heap.
LostInput ==
    \/ ~Holds(mem, env.bootAt, BootSize, "boot")
    \/ /\ pc = "atags"
       /\ cursor <= Len(env.tags)
       /\ mem[Plus(env.tagsAt, cursor - 1)] # <<"tag", cursor - 1>>
    \/ pc \in {"measure", "map"} /\ HeaderLost
    \/ /\ pc = "devicetree"
       /\ ~LeadsNowhere
       /\ \E i \in GetImage3("xmdt") :
             \/ ~env.images[i].data
             \/ \E k \in 0 .. (env.images[i].size - 1) :
                   ~Linked(mem, env, Plus(DataAt(env, i), k))
             \/ ~PoolEmpty(mem) /\ ~PoolIntact(mem)
    \/ pc \in {"ramdisk", "flatten"} /\ ~(PoolIntact(mem) /\ NodesIntact)
    \/ pc = "jump" /\ entry = Word

At(stage) == pc = stage /\ ~LostInput /\ ~LeadsNowhere

-----------------------------------------------------------------------------

InitialMemory(e) ==
    LET loaded == LoadedSize(e)
    IN  [x \in Addr |->
            IF Within(x, e.bootAt, BootSize)
            THEN <<"boot", Minus(x, e.bootAt)>>
            ELSE IF Within(x, e.bootAt, loaded)
                 THEN <<"img", Minus(x, ImagesAt(e))>>
            ELSE IF Within(x, e.tagsAt, Len(e.tags))
                 THEN <<"tag", Minus(x, e.tagsAt)>>
            ELSE <<"ram", x>>]

Init ==
    /\ env \in Envs
    /\ pc = "start"
    /\ cursor = 1
    /\ mem = InitialMemory(env)
    /\ flags = {}
    /\ heap = Word
    /\ gBootArgs = EmptyBootArgs
    /\ ramdisk = [base |-> 0, size |-> 0]
    /\ region = [base |-> 0, pos |-> 0]
    /\ kernelSize = 0
    /\ kernelBase = 0
    /\ entry = Word
    /\ rangeRAMDisk = {}
    /\ args = Word
    /\ reserved = <<>>

\* _start: without a list of tags that starts with ATAG_CORE, _failure.
Start ==
    /\ At("start")
    /\ pc' = IF env.r2 /\ env.tags # <<>> /\ env.tags[1].tag = "core"
             THEN "core" ELSE "halted"
    /\ UNCHANGED <<env, cursor, mem, gBootArgs, placement, handoff, found>>

\* corestart_main up to the loop.
CheckMachine ==
    /\ At("core")
    /\ pc' = IF env.machine THEN "atags" ELSE "halted"
    /\ gBootArgs' = EmptyBootArgs
    /\ UNCHANGED <<env, cursor, mem, placement, handoff, found>>

-----------------------------------------------------------------------------
(* The walk of the tags, one action per kind.  The list ends with          *)
(* ATAG_NONE: running past env.tags is reading that tag.                   *)

Current == env.tags[cursor]

\* Mutant: the pointer is not moved to the next tag.
AtTagStuck(kind) ==
    /\ At("atags")
    /\ cursor <= Len(env.tags)
    /\ Current.tag = kind
    /\ cursor' = cursor

AtTag(kind) ==
    /\ At("atags")
    /\ cursor <= Len(env.tags)
    /\ Current.tag = kind
    /\ cursor' = cursor + Current.words

\* Mutant: a later tag overrides an earlier one.
NeverSeen(flag) == FALSE

\* is_first_region and is_first_ramdisk: an earlier tag was taken.
Seen(flag) == flag \in flags

\* The heap is the last HeapSize cells of the first memory region.  A pool
\* whose signature survived a reset is taken over as it is; a null pool is
\* refused with a panic.
PopulateMemory ==
    /\ AtTag("mem")
    /\ IF Seen("is_first_region")
       THEN UNCHANGED <<pc, flags, gBootArgs, heap, mem>>
       ELSE LET base == Minus(Plus(Current.start, Current.size), HeapSize) IN
            /\ gBootArgs' = [gBootArgs EXCEPT !.physBase = Current.start,
                                              !.memSize = Current.size]
            /\ IF base = 0
               THEN /\ pc' = "halted"
                    /\ flags' = flags \cup {"is_first_region"}
                    /\ UNCHANGED <<heap, mem>>
               ELSE /\ heap' = base
                    /\ flags' = flags \cup {"is_first_region",
                                            "is_malloc_inited"}
                    /\ mem' = IF env.stalePool THEN mem
                              ELSE [mem EXCEPT
                                      ![base] = <<"pool", 0>>,
                                      ![Plus(base, HeapSize - 1)] =
                                            <<"pool", HeapSize - 1>>]
                    /\ UNCHANGED pc
    /\ UNCHANGED <<env, ramdisk, placement, handoff>>

\* strncpy stops at BOOT_LINE_LENGTH characters and then writes a NUL one
\* past the array, on whatever variable the linker put there: one of the
\* flags loses its 1, or the byte was not one that matters.
PopulateCommandLine ==
    /\ AtTag("cmdline")
    /\ IF Current.size = 0
       THEN UNCHANGED <<gBootArgs, flags>>
       ELSE /\ gBootArgs' =
                 [gBootArgs EXCEPT !.commandLine = cursor,
                                   !.terminated = Current.size < BootLineLength]
            /\ IF Current.size < BootLineLength
               THEN UNCHANGED flags
               ELSE \E stray \in {{}} \cup {{f} : f \in Flags} :
                        flags' = flags \ stray
    /\ UNCHANGED <<env, pc, mem, heap, ramdisk, placement, handoff>>

PopulateRamdisk ==
    /\ AtTag("initrd2")
    /\ IF Seen("is_first_ramdisk")
       THEN UNCHANGED <<flags, ramdisk>>
       ELSE /\ flags' = flags \cup {"is_first_ramdisk"}
            /\ ramdisk' = [base |-> Current.start, size |-> Current.size]
    /\ UNCHANGED <<env, pc, mem, heap, gBootArgs, placement, handoff>>

SkipTag ==
    /\ \E kind \in {"core", "other"} : AtTag(kind)
    /\ UNCHANGED <<env, pc, mem, gBootArgs, placement, handoff, found>>

\* ATAG_NONE: panic when no memory tag set up the heap.
LastTag ==
    /\ At("atags")
    /\ cursor > Len(env.tags)
    /\ pc' = IF "is_malloc_inited" \in flags THEN "darwin" ELSE "halted"
    /\ UNCHANGED <<env, cursor, mem, gBootArgs, placement, handoff, found>>

-----------------------------------------------------------------------------
(* start_darwin.                                                           *)

\* memory_region_reserve on kernel_region.
Reserve(size, align) ==
    /\ region' = [region EXCEPT !.pos = ReservePos(region.pos, size, align)]
    /\ reserved' = Append(reserved,
                     [start |-> ReserveStart(region.pos, align),
                      size |-> size,
                      fits |-> ReserveFits(region.pos, size, align)])

\* The region starts a page into RAM, the beginning of RAM is cleared, and
\* prepare_boot_args fills in the constants.
StartDarwin ==
    /\ At("darwin")
    /\ LET base == Plus(gBootArgs.physBase, PageOffset) IN
       region' = [base |-> base, pos |-> base]
    /\ mem' = Bzero(mem, gBootArgs.physBase, ZeroSize)
    /\ gBootArgs' = [gBootArgs EXCEPT !.virtBase = VirtBase]
    /\ pc' = "kernel_image"
    /\ UNCHANGED <<env, cursor, kernelSize, kernelBase, reserved, handoff, found>>

\* prepare_kernel up to macho_set_vm_bias: the asserts that need a kernel
\* image with data and an executable in it.  Without a DATA tag the pointer
\* and the size they look at are uninitialised.
PrepareKernel ==
    /\ At("kernel_image")
    /\ \E i \in GetImage3("krnl") :
         pc' \in IF ~env.images[i].data THEN {"halted", "undefined"}
                ELSE IF /\ env.images[i].size > 0
                        /\ env.macho
                        /\ Linked(mem, env, DataAt(env, i))
                THEN {"measure"}
                ELSE {"halted"}
    /\ cursor' = 1
    /\ kernelSize' = 0
    /\ UNCHANGED <<env, mem, gBootArgs, region, kernelBase, reserved, handoff,
                   found>>

\* assert(kernelImage != NULL)
NoKernel ==
    /\ At("kernel_image")
    /\ GetImage3("krnl") = {}
    /\ pc' = "halted"
    /\ UNCHANGED <<env, cursor, mem, gBootArgs, placement, handoff, found>>

Command == env.commands[cursor]

\* One load command of macho_get_vmsize's loop; the sum wraps.
MeasureCommand ==
    /\ At("measure")
    /\ cursor <= Len(env.commands)
    /\ kernelSize' = IF Command.cmd = "segment"
                     THEN Plus(kernelSize, Command.vmsize) ELSE kernelSize
    /\ cursor' = cursor + 1
    /\ UNCHANGED <<env, pc, mem, gBootArgs, region, kernelBase, reserved,
                   handoff, found>>

\* The assert that the kernel has a size, and the reservation for it.
ReserveKernel ==
    /\ At("measure")
    /\ cursor > Len(env.commands)
    /\ IF kernelSize > 0
       THEN /\ Reserve(kernelSize, 0)
            /\ kernelBase' = ReserveStart(region.pos, 0)
            /\ pc' = "map"
       ELSE /\ pc' = "halted"
            /\ UNCHANGED <<region, kernelBase, reserved>>
    /\ cursor' = 1
    /\ UNCHANGED <<env, mem, gBootArgs, kernelSize, handoff, found>>

\* Where macho_file_map puts a segment: the address the kernel was reserved
\* at plus the segment's distance from KERNEL_VMADDR.
LoadAddr(command) ==
    Plus(kernelBase, Minus(command.vmaddr, KernelVMAddr))

\* One load command of macho_file_map's loop.
MapSegment ==
    /\ At("map")
    /\ cursor <= Len(env.commands)
    /\ Command.cmd = "segment"
    /\ \E i \in GetImage3("krnl") :
          mem' = Bcopy(mem, Plus(DataAt(env, i), Command.fileoff),
                       LoadAddr(Command), Command.filesize)
    /\ cursor' = cursor + 1
    /\ UNCHANGED <<env, pc, gBootArgs, placement, handoff, found>>

MapThread ==
    /\ At("map")
    /\ cursor <= Len(env.commands)
    /\ Command.cmd = "unixthread"
    /\ entry' = Command.vmaddr
    /\ cursor' = cursor + 1
    /\ UNCHANGED <<env, pc, mem, gBootArgs, rangeRAMDisk, args, placement,
                   found>>

MapOther ==
    /\ At("map")
    /\ cursor <= Len(env.commands)
    /\ Command.cmd = "other"
    /\ cursor' = cursor + 1
    /\ UNCHANGED <<env, pc, mem, gBootArgs, placement, handoff, found>>

\* Mutant: the bias is the start of the kernel's address space.
VToPhysFromBase(x) == Plus(Minus(x, VirtBase), region.base)

\* vtophys(x, KERNEL_VMADDR, kernel_region.base)
VToPhys(x) == Plus(Minus(x, KernelVMAddr), region.base)

\* macho_get_entrypoint, and the entry point's physical address.  Without a
\* thread command the context's entry field was never written.
MapDone ==
    /\ At("map")
    /\ cursor > Len(env.commands)
    /\ entry' = IF entry = Word THEN Word ELSE VToPhys(entry)
    /\ pc' = "devicetree"
    /\ UNCHANGED <<env, cursor, mem, gBootArgs, rangeRAMDisk, args, placement,
                   found>>

\* prepare_devicetree: asserts an image and a root node (which a cleared
\* heap cannot give), and that the source has a dictionary.  The tree and
\* the parsed tags live on the heap.
PrepareDeviceTree ==
    /\ At("devicetree")
    /\ IF GetImage3("xmdt") # {} /\ PoolIntact(mem) /\ env.xml
       THEN /\ mem' = Write(mem, Plus(heap, 1), HeapUse, "node")
            /\ pc' = "ramdisk"
       ELSE /\ pc' = "halted"
            /\ UNCHANGED mem
    /\ UNCHANGED <<env, cursor, gBootArgs, placement, handoff, found>>

\* The first half of prepare_devicetree_stage2: a ramdisk image must be
\* linked; its data is the ramdisk, or, when it has none, what the initrd2
\* tag named.  It moves into the region and is entered in the memory map.
PrepareRamdisk ==
    /\ At("ramdisk")
    /\ \E i \in GetImage3("rdsk") :
         LET source == IF env.images[i].data
                       THEN [base |-> DataAt(env, i),
                             size |-> env.images[i].size]
                       ELSE ramdisk
             start == ReserveStart(region.pos, RamdiskAlign)
         IN  /\ ramdisk' = source
             /\ IF source.base = 0
                THEN UNCHANGED <<mem, rangeRAMDisk, region, reserved>>
                ELSE /\ Reserve(source.size, RamdiskAlign)
                     /\ mem' = Bcopy(mem, source.base, start, source.size)
                     /\ rangeRAMDisk' = {[base |-> start,
                                          size |-> source.size]}
             /\ pc' = "flatten"
    /\ UNCHANGED <<env, cursor, flags, heap, gBootArgs, kernelSize, kernelBase, entry,
                   args>>

\* assert(ramdiskImage != NULL)
NoRamdisk ==
    /\ At("ramdisk")
    /\ GetImage3("rdsk") = {}
    /\ pc' = "halted"
    /\ UNCHANGED <<env, cursor, mem, gBootArgs, placement, handoff, found>>

\* The RAMDisk entry adds a property to the flattened tree.
DeviceTreeLength(e, range) ==
    IF range = {} THEN e.dtLength ELSE Plus(e.dtLength, 1)

\* The second half: measure, reserve, flatten, and enter the tree's virtual
\* address into the boot arguments.
FlattenDeviceTree ==
    /\ At("flatten")
    /\ LET length == DeviceTreeLength(env, rangeRAMDisk)
           start  == ReserveStart(region.pos, 0)
       IN  /\ Reserve(length, 0)
           /\ mem' = Write(mem, start, length, "dt")
           /\ gBootArgs' =
                [gBootArgs EXCEPT
                   !.deviceTreeLength = length,
                   !.deviceTreeP = Plus(Minus(start, gBootArgs.physBase),
                                        gBootArgs.virtBase)]
    /\ pc' = "finalize"
    /\ UNCHANGED <<env, cursor, kernelSize, kernelBase, handoff, found>>

\* prepare_finalized_boot_args: the top is taken before the boot arguments
\* themselves get their place.
FinalizeBootArgs ==
    /\ At("finalize")
    /\ LET start == ReserveStart(region.pos, BootArgsAlign) IN
       /\ gBootArgs' = [gBootArgs EXCEPT
                          !.topOfKernelData = AlignUp(region.pos, TopAlign)]
       /\ Reserve(BootArgsSize, BootArgsAlign)
       /\ mem' = Write(mem, start, BootArgsSize, "args")
       /\ args' = start
    /\ pc' = "jump"
    /\ UNCHANGED <<env, cursor, kernelSize, kernelBase, entry, rangeRAMDisk, found>>

\* _locore_jump_to: caches and MMU off, and the kernel has the machine.
Jump ==
    /\ At("jump")
    /\ pc' = "kernel"
    /\ UNCHANGED <<env, cursor, mem, gBootArgs, placement, handoff, found>>

\* The search of an image without a DATA tag that comes to what nobody put
\* there: it stays there, or takes it for a DATA tag itself.  If it is led on
\* instead, there is no such tag, and the stage has its turn.
SearchAstray ==
    /\ pc \in Running
    /\ Astray # {}
    /\ ~LostInput \/ pc = "devicetree"
    /\ Holds(mem, env.bootAt, BootSize, "boot")
    /\ pc' \in {Searching} \cup (IF LeadsNowhere THEN {} ELSE {"undefined"})
    /\ UNCHANGED <<env, cursor, mem, gBootArgs, placement, handoff, found>>

\* The loader executes or reads what is no longer there.
LoseControl ==
    /\ pc \in Running
    /\ LostInput
    /\ pc' = "undefined"
    /\ UNCHANGED <<env, cursor, mem, gBootArgs, placement, handoff, found>>

Next ==
    \/ Start \/ CheckMachine
    \/ PopulateMemory \/ PopulateCommandLine \/ PopulateRamdisk
    \/ SkipTag \/ LastTag
    \/ StartDarwin \/ PrepareKernel \/ NoKernel
    \/ MeasureCommand \/ ReserveKernel
    \/ MapSegment \/ MapThread \/ MapOther \/ MapDone
    \/ PrepareDeviceTree \/ PrepareRamdisk \/ NoRamdisk
    \/ FlattenDeviceTree \/ FinalizeBootArgs \/ Jump
    \/ SearchAstray \/ LoseControl

Spec == Init /\ [][Next]_vars

\* One processor, interrupts off, nothing to wait for: it takes every step.
FairSpec == Spec /\ WF_vars(Next)
-----------------------------------------------------------------------------
(* Properties.                                                             *)

\* The last and the first tag of a kind (0 when there is none).
FirstTag(e, kind) ==
    LET S == {i \in DOMAIN e.tags : e.tags[i].tag = kind} IN
    IF S = {} THEN 0 ELSE CHOOSE i \in S : \A j \in S : i <= j

LastLine(e) ==
    LET S == {i \in DOMAIN e.tags :
                e.tags[i].tag = "cmdline" /\ e.tags[i].size > 0} IN
    IF S = {} THEN 0 ELSE CHOOSE i \in S : \A j \in S : j <= i

FirstImage(e, type) ==
    LET S == {i \in DOMAIN e.images : e.images[i].type = type} IN
    IF S = {} THEN 0 ELSE CHOOSE i \in S : \A j \in S : i <= j

TerminatedList(e) == \A i \in DOMAIN e.tags : e.tags[i].words > 0

LinesFit(e) ==
    \A i \in DOMAIN e.tags :
        e.tags[i].tag = "cmdline" => e.tags[i].size < BootLineLength

\* The sums of the segments' sizes: of the first k commands, and of all.
VmSizes(commands) ==
    LET sum[k \in 0 .. Len(commands)] ==
          IF k = 0 THEN 0
          ELSE IF commands[k].cmd = "segment"
               THEN Plus(sum[k - 1], commands[k].vmsize)
               ELSE sum[k - 1]
    IN  sum

VmSize(commands) == VmSizes(commands)[Len(commands)]

\* The segments lie in the range that is reserved for them, apart.
Segments(e) == {c \in DOMAIN e.commands : e.commands[c].cmd = "segment"}

SegmentsFit(e) ==
    /\ \A c \in Segments(e) :
         LET s == e.commands[c] IN
         /\ s.vmaddr >= KernelVMAddr
         /\ s.vmaddr - KernelVMAddr + s.vmsize <= VmSize(e.commands)
         /\ s.filesize <= s.vmsize
    /\ \A c, d \in Segments(e) :
         c < d => \/ e.commands[c].vmaddr + e.commands[c].vmsize
                        <= e.commands[d].vmaddr
                  \/ e.commands[d].vmaddr + e.commands[d].vmsize
                        <= e.commands[c].vmaddr

\* What is loaded of them lies in the kernel's image.
FilesFit(e) ==
    \A c \in Segments(e) :
        e.commands[c].fileoff + e.commands[c].filesize
            <= e.images[FirstImage(e, "krnl")].size

\* The ramdisk the loader will use, as the tags and images stand at start.
RamdiskSource(e) ==
    LET i == FirstImage(e, "rdsk")
        t == FirstTag(e, "initrd2")
    IN  IF e.images[i].data
        THEN [base |-> DataAt(e, i), size |-> e.images[i].size]
        ELSE IF t = 0 THEN [base |-> 0, size |-> 0]
        ELSE [base |-> e.tags[t].start, size |-> e.tags[t].size]

\* What the loader needs and never checks.  It was started as the Linux boot
\* protocol says and the images are those it looks for; the memory it
\* clears holds all it will load and is apart from the heap, the loader, the
\* images and an initrd; the kernel's segments fit, and one has its entry.
Complete(e) ==
    /\ e.r2 /\ e.machine /\ e.macho /\ e.xml
    /\ e.tags # <<>> /\ e.tags[1].tag = "core"
    /\ FirstTag(e, "mem") # 0
    /\ \A type \in {"krnl", "rdsk", "xmdt"} : FirstImage(e, type) # 0
    /\ \A type \in {"krnl", "xmdt"} : e.images[FirstImage(e, type)].data
    /\ e.images[FirstImage(e, "krnl")].size > 0
    /\ VmSize(e.commands) > 0

Roomy(e) ==
    LET phys == e.tags[FirstTag(e, "mem")].start
        top  == phys + e.tags[FirstTag(e, "mem")].size
        pool == top - HeapSize
        disk == RamdiskSource(e)
        loader == LoadedSize(e)
    IN  /\ phys + ZeroSize <= pool
        /\ top < Word
        /\ Apart(e.bootAt, loader, phys, ZeroSize)
        /\ Apart(e.bootAt, loader, pool, HeapSize)
        /\ Apart(e.tagsAt, Len(e.tags), pool, HeapSize)
        /\ disk.base # 0 => /\ Apart(disk.base, disk.size, phys, ZeroSize)
                            /\ Apart(disk.base, disk.size, pool, HeapSize)
        /\ PageOffset + VmSize(e.commands) + RamdiskAlign + disk.size
             + e.dtLength + 1 + BootArgsAlign + BootArgsSize <= ZeroSize

\* A ramdisk image without a DATA tag has another image behind it.
DiskBounded(e) ==
    LET i == FirstImage(e, "rdsk") IN e.images[i].data \/ i < Len(e.images)

Provisioned(e) ==
    /\ Complete(e)
    /\ DiskBounded(e)
    /\ TerminatedList(e)
    /\ LinesFit(e)
    /\ ~e.stalePool
    /\ SegmentsFit(e)
    /\ FilesFit(e)
    /\ \E c \in DOMAIN e.commands : e.commands[c].cmd = "unixthread"
    /\ Roomy(e)

InKernel == pc = "kernel"

\* What the linked images and an initrd held at start.
Original(a) == InitialMemory(env)[a]

\* When the kernel gets control, every segment's file part is in place and
\* the rest of the segment is clear.  It takes the clearing of RAM in
\* start_darwin, the copies of macho_file_map, and none of the later stages
\* (ramdisk, device tree, boot arguments) touching what was loaded.
KernelLoaded ==
    InKernel /\ Provisioned(env) =>
        \A c \in Segments(env) :
            LET s == env.commands[c]
                source == Plus(DataAt(env, FirstImage(env, "krnl")), s.fileoff)
            IN  \A i \in 0 .. (s.vmsize - 1) :
                    mem[Plus(LoadAddr(s), i)] =
                        IF i < s.filesize THEN Original(Plus(source, i))
                                          ELSE Zero

\* When the kernel gets control, the range named RAMDisk in its memory map
\* holds the ramdisk image (or the first initrd2 tag's ramdisk), the device
\* tree is where boot_args says, and boot_args is where r0 says.
DataLoaded ==
    InKernel /\ Provisioned(env) =>
        /\ \A r \in rangeRAMDisk : \A i \in 0 .. (r.size - 1) :
               mem[Plus(r.base, i)] = Original(Plus(RamdiskSource(env).base, i))
        /\ rangeRAMDisk = {} <=> RamdiskSource(env).base = 0
        /\ Holds(mem, Plus(Minus(gBootArgs.deviceTreeP, VirtBase),
                           gBootArgs.physBase),
                 gBootArgs.deviceTreeLength, "dt")
        /\ Holds(mem, args, BootArgsSize, "args")

\* The kernel is entered at the physical address of the last thread
\* command's pc, seen through the same mapping that placed the segments.
EntryInKernel ==
    InKernel /\ Provisioned(env) =>
        \E c \in DOMAIN env.commands :
            /\ env.commands[c].cmd = "unixthread"
            /\ \A d \in DOMAIN env.commands :
                 env.commands[d].cmd = "unixthread" => d <= c
            /\ entry = LoadAddr(env.commands[c])

\* Whatever the environment, the kernel never gets control when something
\* the asserts, the panics and start.S look for was missing.
NothingMissing == InKernel => Complete(env)

\* What a list of several tags of one kind means: the first memory tag and
\* the first initrd2 tag count, and the last command line that is not
\* empty.  (A line that is too long can clear one of the flags that tell.)
TagsCounted ==
    InKernel /\ LinesFit(env) /\ TerminatedList(env) =>
        /\ gBootArgs.physBase = env.tags[FirstTag(env, "mem")].start
        /\ gBootArgs.memSize = env.tags[FirstTag(env, "mem")].size
        /\ gBootArgs.commandLine = LastLine(env)
        /\ ramdisk = RamdiskSource(env)

\* memory_region_reserve never hands out a cell twice: as long as no
\* reservation ran over the top of the address space, each starts at or
\* after the end of all the earlier ones and the region's cursor is past
\* them all.
ReservationsFit == \A i \in DOMAIN reserved : reserved[i].fits

ReservationsDisjoint ==
    ReservationsFit =>
        \A i \in DOMAIN reserved :
            /\ reserved[i].start + reserved[i].size <= region.pos
            /\ \A j \in DOMAIN reserved :
                 i < j => reserved[i].start + reserved[i].size
                            <= reserved[j].start

\* The kernel takes memory from topOfKernelData up as free: everything that
\* was reserved when it was computed lies below it, unless rounding it up
\* wrapped it to 0.
PayloadBelowTop ==
    ReservationsFit /\ args # Word /\ gBootArgs.topOfKernelData > 0 =>
        \A i \in 1 .. (Len(reserved) - 1) :
            reserved[i].start + reserved[i].size <= gBootArgs.topOfKernelData

\* "Allocate kernel memory for this." (prepare_finalized_boot_args): the
\* boot arguments too are memory the kernel knows to be taken.
BootArgsBelowTop ==
    InKernel /\ Provisioned(env) =>
        args + BootArgsSize <= gBootArgs.topOfKernelData

\* "gBootArgs.commandLine = [%s]": the command line is a string.
CommandLineTerminated == InKernel => gBootArgs.terminated

\* From the first reservation on a step writes only to memory that has been
\* reserved, or to the heap, if the kernel's segments fit their range.
StaysInReserved ==
    reserved # <<>> /\ SegmentsFit(env) =>
        \A x \in Addr :
            \/ mem'[x] = mem[x]
            \/ Within(x, heap, HeapSize)
            \/ \E i \in DOMAIN reserved' :
                  Within(x, reserved'[i].start, reserved'[i].size)

WritesReserved == [][StaysInReserved]_vars

\* Whatever image of a type is searched has a DATA tag.
AllTagged(e) ==
    \A type \in {"krnl", "rdsk", "xmdt"} :
        LET i == FirstImage(e, type) IN i = 0 \/ e.images[i].data

\* A boot from a terminated list of tags, and images with DATA tags, comes
\* to the kernel, to an assertion, or to a stage that reads what is gone or
\* was never set, behind which the model has nothing to say.  Without a DATA
\* tag the search may go round for ever (image3.c:57-63)...
AlwaysEnds == TerminatedList(env) /\ AllTagged(env) ~> pc \in Terminal

\* ... and it ends in the kernel when the loader has all that it needs, a
\* ramdisk image without a DATA tag included if the search is led out of it.
BootsWhenProvisioned == Provisioned(env) ~> InKernel
=============================================================================

------------------------------ MODULE MCBooter ------------------------------
(***************************************************************************)
(* Booter on a memory of 96 cells.  The sizes keep the order they have on  *)
(* the machine: boot_args < its alignment <= a page = the ramdisk's        *)
(* alignment < the top's < heap < cleared RAM < Word.                      *)
(*                                                                         *)
(*      8 .. 39   start of RAM, cleared by start_darwin                    *)
(*     40 .. 53   the loader, the kernel, ramdisk and device tree images   *)
(*     56 .. 63   the heap, top of RAM                                     *)
(*     70 .. 74   an initrd                                                *)
(***************************************************************************)
EXTENDS Booter, SequencesExt

MCWord == 96

Mem(start, size) == [tag |-> "mem", start |-> start, size |-> size, words |-> 1]
Line(length) == [tag |-> "cmdline", start |-> 0, size |-> length, words |-> 1]
Initrd(start, size) ==
    [tag |-> "initrd2", start |-> start, size |-> size, words |-> 1]
Core  == [tag |-> "core", start |-> 0, size |-> 0, words |-> 1]
Other == [Core EXCEPT !.tag = "other"]
Stuck == [Other EXCEPT !.words = 0]

Img(type, data, size) ==
    [type |-> type, data |-> data, at |-> 0, size |-> size]
Kernel == Img("krnl", TRUE, 5)
Disk   == Img("rdsk", TRUE, 3)
Source == Img("xmdt", TRUE, 1)

\* The images of a list, one behind the other from the loader's end on.
Chain(boot, list) ==
    LET at[i \in 1 .. Len(list)] ==
          IF i = 1 THEN Plus(boot, 2) ELSE Plus(at[i - 1], 1 + list[i - 1].size)
    IN  [i \in DOMAIN list |-> [list[i] EXCEPT !.at = at[i]]]

Segment(vmaddr, vmsize, fileoff, filesize) ==
    [cmd |-> "segment", vmaddr |-> vmaddr, vmsize |-> vmsize,
     fileoff |-> fileoff, filesize |-> filesize]
Thread(start) == [Segment(start, 0, 0, 0) EXCEPT !.cmd = "unixthread"]
Uuid == [Segment(0, 0, 0, 0) EXCEPT !.cmd = "other"]

\* The machine the project was written for.
Standard ==
    [r2 |-> TRUE, machine |-> TRUE,
     tagsAt |-> 8, tags |-> <<Core, Mem(8, 56)>>, stalePool |-> FALSE,
     bootAt |-> 40, images |-> Chain(40, <<Kernel, Disk, Source>>),
     macho |-> TRUE,
     commands |-> <<Segment(36, 3, 0, 2), Segment(39, 2, 2, 2), Thread(37)>>,
     xml |-> TRUE, dtLength |-> 2]

\* Lists of tags: every order of a few, repeated, cut short or unterminated.
SomeTags == {Mem(8, 56), Mem(12, 52), Line(0), Line(1), Line(2), Line(3),
             Initrd(70, 2), Initrd(75, 3), Other, Stuck}

TagEnvs ==
    {[Standard EXCEPT !.tags = <<Core>> \o tags,
                      !.images =
                          Chain(40, <<Kernel, Img("rdsk", data, 3), Source>>)] :
        tags \in {t \in BoundedSeq(SomeTags, 3) :
                    \E i \in DOMAIN t : t[i].tag = "mem"}, data \in BOOLEAN}

\* Where things lie: RAM, the loader and its images, the list of tags.
PlaceEnvs ==
    {e \in
    {[Standard EXCEPT !.tags = <<Core, Mem(phys, size)>>,
                      !.bootAt = boot,
                      !.images = Chain(boot, <<Kernel, Disk, Source>>),
                      !.tagsAt = tags,
                      !.stalePool = stale] :
        phys \in {0, 8, 12, 72, 90}, size \in {6, 8, 40, 48, 56},
        boot \in {0, 10, 16, 40, 44, 52, 64, 80}, tags \in {8, 30, 62},
        stale \in BOOLEAN} :
     Apart(e.bootAt, LoadedSize(e), e.tagsAt, Len(e.tags))}

\* The images: missing, without data, in another order, twice.
SomeImages == {Kernel, Disk, Source, Img("krnl", FALSE, 2),
               Img("krnl", TRUE, 0), Img("rdsk", FALSE, 1),
               Img("xmdt", FALSE, 1), Img("rdsk", TRUE, 6)}

ImageEnvs ==
    {[Standard EXCEPT !.images = Chain(40, images),
                      !.tags = <<Core, Mem(8, 56)>> \o initrd] :
        images \in BoundedSeq(SomeImages, 3),
        initrd \in {<<>>, <<Initrd(72, 2)>>, <<Initrd(30, 12)>>}}

\* Images at the edge of the memory that is cleared: the last may have no
\* DATA tag, and zeros behind it, or another image.
EdgeImages == {<<Kernel, Source, Img("rdsk", FALSE, 1)>>,
               <<Kernel, Disk, Img("xmdt", FALSE, 1)>>,
               <<Kernel, Img("rdsk", FALSE, 1), Source>>,
               <<Source, Disk, Img("krnl", FALSE, 2)>>}

EdgeEnvs ==
    {[e EXCEPT !.tags = <<Core, Mem(AfterImage(e, 3), 48)>> \o initrd] :
        e \in {[Standard EXCEPT !.bootAt = 0, !.tagsAt = 80,
                                !.images = Chain(0, images)] :
                  images \in EdgeImages},
        initrd \in {<<>>, <<Initrd(72, 2)>>}}

\* The kernel's load commands, the ramdisk's and the tree's size: the
\* reservations end on either side of every alignment.
SomeCommands == {Segment(36, 3, 0, 2), Segment(39, 2, 2, 2), Uuid,
                 Segment(40, 4, 1, 4), Segment(34, 1, 0, 1),
                 Segment(36, 2, 0, 4), Segment(70, 90, 0, 3),
                 Thread(37), Thread(36), Thread(60)}

KernelEnvs ==
    {[Standard EXCEPT !.commands = commands, !.dtLength = length] :
        commands \in BoundedSeq(SomeCommands, 3), length \in {1, 2}}

SizeEnvs ==
    {[Standard EXCEPT !.commands = <<Segment(36, size, 0, 2), Thread(37)>>,
                      !.images =
                          Chain(40, <<Kernel, Img("rdsk", TRUE, disk), Source>>),
                      !.dtLength = length] :
        size \in 1 .. 8, disk \in 0 .. 5, length \in 0 .. 8}

\* What start.S and the first checks of the C code refuse.
RefusedEnvs ==
    {[Standard EXCEPT !.r2 = r2, !.machine = machine, !.tags = tags,
                      !.xml = xml, !.macho = macho] :
        r2 \in BOOLEAN, machine \in BOOLEAN, xml \in BOOLEAN,
        macho \in BOOLEAN,
        tags \in {<<>>, <<Core>>, <<Mem(8, 56)>>, <<Core, Mem(8, 56)>>,
                  <<Core, Line(1)>>}}

AllEnvs == UNION {TagEnvs, PlaceEnvs, ImageEnvs, EdgeEnvs, SizeEnvs,
                  RefusedEnvs, KernelEnvs}
=============================================================================

------------------------------- MODULE Image3 -------------------------------
(***************************************************************************)
(* Finding things in the images linked behind the loader: get_image3       *)
(* (bootx.c) goes through the images by their sizes to the first of a      *)
(* type, image3_find_tag (image3.c) goes through its tags by theirs.       *)
(*                                                                         *)
(* Both trust what they read, so a search is over a layout, which says     *)
(* what is really there, and what its headers claim.  All sizes are in     *)
(* words of four bytes, and so are addresses; they wrap.                   *)
(***************************************************************************)
EXTENDS Integers, Sequences, SequencesExt

CONSTANTS
    Word,            \* number of addresses
    End,             \* __end: where the first image is
    Layouts,         \* what may be there
    kImage3Magic, kImage3TagData,
    Types            \* the types searched for

NULL == 0

RootWords == 5       \* sizeof(Image3RootHeader)
TagWords  == 3       \* sizeof(Image3Header)

Addr == 0 .. (Word - 1)

\* A tag takes length words, its header included, and claims size.  behind
\* is what comes behind the last image.
Tag    == [magic : Addr, size : Addr, length : {n \in Nat : n >= TagWords}]
Image  == [type : Addr, size : Addr, tags : Seq(Tag)]
Layout == [images : Seq(Image), behind : Seq(Addr)]

\* A tag's payload looks like one header after the other: whoever loses his
\* way among the tags finds something.
TagInMemory(t) == <<t.magic, t.size, t.length - TagWords>>
                  \o [i \in 1 .. (t.length - TagWords) |-> kImage3TagData]

TagsInMemory(tags) == FlattenSeq([i \in DOMAIN tags |-> TagInMemory(tags[i])])

ImageInMemory(im) ==
    <<kImage3Magic, im.size, 0, 0, im.type>>
    \o TagsInMemory(im.tags)

InMemory(l) ==
    FlattenSeq([i \in DOMAIN l.images |-> ImageInMemory(l.images[i])])
    \o l.behind

\* Memory has room for the images and something behind them.
ASSUME Image3Assumption ==
    /\ {Word, kImage3Magic, kImage3TagData} \subseteq Nat \ {0}
    /\ kImage3Magic # kImage3TagData
    /\ End \in Addr \ {NULL}
    /\ Types \subseteq Addr
    /\ \A l \in Layouts :
          /\ l \in Layout
          /\ Len(l.behind) >= 2 /\ l.behind[1] # kImage3Magic
          /\ End + Len(InMemory(l)) <= Word

VARIABLES
    pc,
    layout,
    mem,
    type,     \* what is searched for
    img3,     \* get_image3's pointer
    tag       \* image3_find_tag's

vars == <<pc, layout, mem, type, img3, tag>>

Init ==
    /\ pc = "get_image3"
    /\ layout \in Layouts
    /\ mem = [x \in Addr |-> IF x - End \in 0 .. (Len(InMemory(layout)) - 1)
                             THEN InMemory(layout)[x - End + 1] ELSE 0]
    /\ type \in Types
    /\ img3 = End
    /\ tag = NULL

Plus(a, n) == (a + n) % Word

-----------------------------------------------------------------------------

\* The search for an image ends at address NULL, or where there is none.
NoImage ==
    /\ pc = "get_image3"
    /\ img3 = NULL \/ mem[img3] # kImage3Magic
    /\ pc' = "no_image"
    /\ UNCHANGED <<layout, mem, type, img3, tag>>

AtImage ==
    /\ pc = "get_image3"
    /\ img3 # NULL
    /\ mem[img3] = kImage3Magic

NextImage ==
    /\ AtImage
    /\ mem[Plus(img3, 4)] # type
    /\ img3' = Plus(img3, mem[Plus(img3, 1)])
    /\ UNCHANGED <<pc, layout, mem, type, tag>>

\* The caller goes on to image3_get_tag_data, which searches for the tag.
TheImage ==
    /\ AtImage
    /\ mem[Plus(img3, 4)] = type
    /\ pc' = "find_tag"
    /\ tag' = Plus(img3, RootWords)
    /\ UNCHANGED <<layout, mem, type, img3>>

\* image3_get_tag_data's results are tag + 1 and the header's dataSize.
TheTag ==
    /\ pc = "find_tag"
    /\ mem[tag] = kImage3TagData
    /\ pc' = "found"
    /\ UNCHANGED <<layout, mem, type, img3, tag>>

\* image3_off
Offset(t) == (t - img3) % Word

\* Mutants: the bound is the end of the data, not of the image; the size
\* does not matter.
BoundShort(t) == Offset(t) > mem[Plus(img3, 1)] - RootWords
NoBound(t) == FALSE

Beyond(t) == Offset(t) > mem[Plus(img3, 1)]

NextTag ==
    /\ pc = "find_tag"
    /\ mem[tag] # kImage3TagData
    /\ tag' = Plus(tag, mem[Plus(tag, 1)])
    /\ pc' = IF Beyond(tag') THEN "no_tag" ELSE pc
    /\ UNCHANGED <<layout, mem, type, img3>>

Next == NoImage \/ NextImage \/ TheImage \/ TheTag \/ NextTag

Spec == Init /\ [][Next]_vars

\* The loader's one thread searches until it has a result.
FairSpec == Spec /\ WF_vars(Next)

-----------------------------------------------------------------------------
(* Properties.                                                             *)

\* What there really is of an image.
Extent(im) == RootWords + Len(TagsInMemory(im.tags))

TagsRight(im) == \A i \in DOMAIN im.tags : im.tags[i].size = im.tags[i].length

\* Where the n-th image, and the n-th tag of an image at a, begin.
ImageAt(n) ==
    End + Len(InMemory([images |-> SubSeq(layout.images, 1, n - 1),
                        behind |-> <<>>]))

TagAt(a, im, n) == a + RootWords + Len(TagsInMemory(SubSeq(im.tags, 1, n - 1)))

First(S) == CHOOSE n \in S : \A k \in S : n <= k

OfType == {n \in DOMAIN layout.images : layout.images[n].type = type}

\* The images' headers are right, and what is taken for a size behind them
\* does not lead past the last address and round to the images again.
Right ==
    /\ \A n \in DOMAIN layout.images :
          LET im == layout.images[n] IN TagsRight(im) /\ im.size = Extent(im)
    /\ Len(InMemory(layout)) + layout.behind[2] < Word

\* In images whose headers are right, the search comes to the first DATA tag
\* of the first image of the type, whatever the payloads look like, and to
\* nothing when there is none.  The code compares its bound after the step
\* and with > (image3.c:61), and so takes one header behind the image for a
\* tag: another image there does no harm, but something else may be found.
AsLaidOut ==
    LET im     == layout.images[First(OfType)]
        data   == {k \in DOMAIN im.tags : im.tags[k].magic = kImage3TagData}
        behind == /\ First(OfType) = Len(layout.images)
                  /\ layout.behind[1] = kImage3TagData
    IN  Right =>
          /\ pc = "no_image" => OfType = {}
          /\ pc \in {"find_tag", "found", "no_tag"} =>
                /\ OfType # {}
                /\ img3 = ImageAt(First(OfType))
          /\ pc = "found" =>
                IF data # {} THEN tag = TagAt(img3, im, First(data))
                ELSE behind /\ tag = img3 + im.size
          /\ pc = "no_tag" => data = {} /\ ~behind

\* Every size leads onwards, and no image's beyond the image: an image may
\* claim to be shorter than it is.  Behind the last there is no 0 where a
\* size would be.
Onwards ==
    /\ \A n \in DOMAIN layout.images :
          LET im == layout.images[n] IN
          /\ im.size \in 1 .. Extent(im)
          /\ TagsRight(im)
    /\ layout.behind[2] # 0

\* Then the search ends.  It goes round for ever at an image of size 0
\* (bootx.c:225), at a tag of size 0, and also in an image that is all right
\* but has no DATA tag, when it is the last and zeros come behind it: the
\* header there is within the bound and leads nowhere (image3.c:60).
SearchEnds == Onwards => <>(pc \in {"no_image", "found", "no_tag"})
=============================================================================

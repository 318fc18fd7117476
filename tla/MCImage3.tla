------------------------------ MODULE MCImage3 ------------------------------
EXTENDS Image3

\* Magics other than the two that matter, which could be taken for a size.
Other == 9

MCTypes == {11, 12}

\* A tag is a header, or a header and as much payload as a header has.
MCTags == [magic : {kImage3TagData, Other}, size : {3, 6}, length : {3, 6}]
          \cup {[magic |-> Other, size |-> 0, length |-> 3]}

TagsOf(n) == UNION {[1 .. k -> MCTags] : k \in 0 .. n}

\* Images of the right size, or of a header too much or too little, or of
\* none.
ImagesOf(tags) ==
    {[type |-> t, size |-> z, tags |-> tags] :
        t \in MCTypes,
        z \in {Extent([tags |-> tags]) + d : d \in {-3, 0, 3}} \cup {0}}

Behind == {<<0, 0, 0>>, <<kImage3TagData, 3, 0>>, <<Other, 3, 0>>}

\* One image with up to two tags; two with up to one each.
MCLayouts ==
    [images : {<<>>} \cup {<<im>> : im \in UNION {ImagesOf(t) : t \in TagsOf(2)}},
     behind : Behind]
    \cup
    [images : LET some == UNION {ImagesOf(t) : t \in TagsOf(1)}
              IN  {<<a, b>> : a \in some, b \in some},
     behind : Behind]
=============================================================================

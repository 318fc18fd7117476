-------------------------------- MODULE Xml --------------------------------
(***************************************************************************)
(* From an XML property list to the device tree: prepare_devicetree        *)
(* (bootx.c) calls the recursive parser of xml.c for one element after     *)
(* another until it has a dictionary, which PopulateDeviceTreeNode walks.  *)
(* The parser builds elements of tags it takes from a pool, names them by  *)
(* symbols it counts the references of, and hands them to its caller       *)
(* through a pointer, which the caller reads after every success, also     *)
(* after one that has not set it.                                          *)
(*                                                                         *)
(* A document is a sequence of tokens, one for each <...>, with the text   *)
(* that follows it.  Everything allocated is in the record store, which    *)
(* has the fields of TreeNodes' tree and the parser's.                     *)
(***************************************************************************)
EXTENDS TreeNodes, FiniteSets, Bags, SequencesExt

CONSTANTS
    Documents,      \* what the image may hold: its tokens and their meaning
    TextLen,        \* a text's length in bytes
    ChildrenTexts,  \* the texts that start with an '@'
    PerBlock,       \* kTagsPerBlock
    Rooms           \* how many calls of malloc the heap may serve

ASSUME XmlAssumption ==
    /\ \A text \in DOMAIN TextLen : TextLen[text] \in Nat
    /\ \A d \in Documents :
          d.tokens \in Seq([tag : STRING, text : DOMAIN TextLen])
    /\ PerBlock \in Nat \ {0}
    /\ Rooms \subseteq Nat

\* Tags with a text and an end tag; tags that are whole by themselves.
EndTag == [key |-> "/key", string |-> "/string", integer |-> "/integer",
           data |-> "/data", date |-> "/date"]

Whole == [emptyDict |-> "dict", emptyArray |-> "array", false |-> "false",
          true |-> "true"]

Lists == {"dict", "array"}

Known == DOMAIN EndTag \cup DOMAIN Whole \cup Lists \cup {"plist"}

\* A pointer variable that nothing has been assigned to.
Unset == -1

ClearTag == [type |-> "none", string |-> <<>>, tag |-> NULL, tagNext |-> NULL]

VARIABLES
    pc,     \* "parse": XMLParseNextTag is entered for the top frame;
            \* "returned", "failed": it has come back with a length, with -1
    doc,    \* the document
    pos,    \* the next token
    stack,  \* the activations, the innermost last
    store   \* tree, tags, the free ones, symbols with reference counts

vars == <<pc, doc, pos, stack, store>>

\* An activation: of prepare_devicetree's loop ("loop"), of ParseTagList or
\* ParseTagKey, of PopulateDeviceTreeNode ("entries") or of
\* WalkDeviceTreeNodeChildren ("members").  tag is its variable for what is
\* parsed, list the tags parsed or to be walked.
Frame(kind) == [kind |-> kind, type |-> "none", string |-> <<>>,
                list |-> NULL, tag |-> Unset, node |-> NULL]

Top == stack[Len(stack)]

Pop == SubSeq(stack, 1, Len(stack) - 1)

Token == doc.tokens[pos]

-----------------------------------------------------------------------------
(* Tags and symbols.                                                       *)

NewTagRefused(s) == s.free = <<>> /\ s.room = 0

Stocked(s) ==
    IF s.free # <<>> THEN s
    ELSE [s EXCEPT !.room = @ - 1,
                   !.tags = @ \o [i \in 1 .. PerBlock |-> ClearTag],
                   !.free = [i \in 1 .. PerBlock |-> Len(s.tags) + i]]

NewTag(s) == Head(Stocked(s).free)

WithTag(s, type, string, tag) ==
    [Stocked(s) EXCEPT
        !.tags[NewTag(s)] = [type |-> type, string |-> string, tag |-> tag,
                             tagNext |-> NULL],
        !.free = Tail(@)]

NewSymbolRefused(s, string) == ~BagIn(string, s.symbols) /\ s.room = 0

NewSymbol(s, string) ==
    [s EXCEPT !.room = IF BagIn(string, s.symbols) THEN @ ELSE @ - 1,
              !.symbols = @ (+) SetToBag({string})]

\* A tag and all it leads to, in the order XMLFreeTag gives them back.
Below(s, tag) ==
    LET below[t \in 0 .. Len(s.tags)] ==
          IF t = NULL THEN <<>>
          ELSE below[s.tags[t].tag] \o below[s.tags[t].tagNext] \o <<t>>
    IN  below[tag]

\* The references that tags hold.
References(s, tags) ==
    LET named == {t \in tags : s.tags[t].string # <<>>}
    IN  [string \in {s.tags[t].string : t \in named} |->
            Cardinality({t \in named : s.tags[t].string = string})]

FreeSymbols(s, tags) == s.symbols (-) References(s, tags)

XMLFreeTag(s, tag) ==
    LET gone == Below(s, tag)
    IN  [s EXCEPT
            !.symbols = FreeSymbols(s, Range(gone)),
            !.tags = [t \in DOMAIN @ |->
                        IF t \in Range(gone) THEN ClearTag ELSE @[t]],
            !.free = Reverse(gone) \o @]

-----------------------------------------------------------------------------
(* prepare_devicetree.                                                     *)

EmptyStore(room) ==
    LET tree == EmptyTree(room)
    IN  [field \in DOMAIN tree \cup {"tags", "free", "symbols"} |->
            IF field \in DOMAIN tree THEN tree[field]
            ELSE IF field = "symbols" THEN EmptyBag ELSE <<>>]

Init ==
    /\ pc = "start"
    /\ doc \in Documents
    /\ pos = 1
    /\ stack = <<Frame("loop")>>
    /\ store \in {EmptyStore(room) : room \in Rooms}

\* DT__Initialize and the assertion that there is a root.
Initialize ==
    /\ pc = "start"
    /\ store' = WithNamed(store, NULL, <<"name">>, 2, <<<<"/">>>>)
    /\ pc' = IF store'.rootNode = NULL THEN "halted" ELSE "parse"
    /\ UNCHANGED <<doc, pos, stack>>

InLoop(status) == pc = status /\ Top.kind = "loop"

\* if (!tag) continue;
LoopSkip ==
    /\ InLoop("returned")
    /\ Top.tag = NULL
    /\ pc' = "parse"
    /\ UNCHANGED <<doc, pos, stack, store>>

\* A variable read that was never set, or that still points to a tag given
\* back before: what the loader does then is not followed further.
LoopStray ==
    /\ InLoop("returned")
    /\ Top.tag = Unset \/ Top.tag \in Range(store.free)
    /\ pc' = "undefined"
    /\ UNCHANGED <<doc, pos, stack, store>>

LoopTag(dict) ==
    /\ InLoop("returned")
    /\ Top.tag \notin {Unset, NULL} \cup Range(store.free)
    /\ (store.tags[Top.tag].type = "dict") = dict

LoopFree ==
    /\ LoopTag(FALSE)
    /\ store' = XMLFreeTag(store, Top.tag)
    /\ pc' = "parse"
    /\ UNCHANGED <<doc, pos, stack>>

Entries(dict, node) ==
    [Frame("entries") EXCEPT !.list = store.tags[dict].tag, !.node = node]

LoopDict ==
    /\ LoopTag(TRUE)
    /\ stack' = Append(stack, Entries(Top.tag, store.rootNode))
    /\ pc' = "populate"
    /\ UNCHANGED <<doc, pos, store>>

\* Mutant: the length is compared without its sign, and parsing tried again.
LoopFailAgain ==
    /\ InLoop("failed")
    /\ pc' = "parse"
    /\ UNCHANGED <<doc, pos, stack, store>>

\* The end of the document, or no memory: return false.
LoopFail ==
    /\ InLoop("failed")
    /\ pc' = "false"
    /\ UNCHANGED <<doc, pos, stack, store>>

-----------------------------------------------------------------------------
(* XMLParseNextTag.                                                        *)

AtToken(tags) ==
    /\ pc = "parse"
    /\ pos <= Len(doc.tokens)
    /\ Token.tag \in tags

Fail == pc' = "failed" /\ UNCHANGED stack

Panic == pc' = "halted" /\ UNCHANGED <<stack, store>>

\* A tag is made, if one is to be had, and put where the caller of the
\* activation on top of frames wants it; without one, s is what there is.
Deliver(frames, s, type, string, tag) ==
    /\ stack' = [frames EXCEPT ![Len(frames)].tag = NewTag(s)]
    /\ store' = WithTag(s, type, string, tag)
    /\ pc' = "returned"

\* GetNextTag finds no other tag.
ParseEnd ==
    /\ pc = "parse"
    /\ pos > Len(doc.tokens)
    /\ Fail
    /\ UNCHANGED <<doc, pos, store>>

\* <plist ...>: the caller's pointer is left as it was.
ParsePList ==
    /\ AtToken({"plist"})
    /\ pos' = pos + 1
    /\ pc' = "returned"
    /\ UNCHANGED <<doc, stack, store>>

\* Mutant: the pointer is not cleared for a tag that is not known.
ParseOtherUncleared ==
    /\ pc = "parse"
    /\ pos <= Len(doc.tokens)
    /\ Token.tag \notin Known
    /\ pos' = pos + 1
    /\ pc' = "returned"
    /\ UNCHANGED <<doc, stack, store>>

\* Any other tag, </dict> and </array> among them: no element.
ParseOther ==
    /\ pc = "parse"
    /\ pos <= Len(doc.tokens)
    /\ Token.tag \notin Known
    /\ pos' = pos + 1
    /\ stack' = [stack EXCEPT ![Len(stack)].tag = NULL]
    /\ pc' = "returned"
    /\ UNCHANGED <<doc, store>>

\* ParseTagBoolean, and ParseTagList for a list that is empty.
ParseWhole ==
    /\ AtToken(DOMAIN Whole)
    /\ pos' = pos + 1
    /\ UNCHANGED doc
    /\ IF NewTagRefused(store) THEN Fail /\ UNCHANGED store
       ELSE Deliver(stack, store, Whole[Token.tag], <<>>, NULL)

\* ParseTagList for a list that has an end: its elements are parsed first.
OpenList ==
    /\ AtToken(Lists)
    /\ pos' = pos + 1
    /\ stack' = Append(stack, [Frame("list") EXCEPT !.type = Token.tag])
    /\ UNCHANGED <<pc, doc, store>>

\* FixDataMatchingTag: the end tags of this kind there are from here on, and
\* the text up to the first of them.  A tag in the text ends the string.
EndTags ==
    {k \in (pos + 1) .. Len(doc.tokens) :
        doc.tokens[k].tag = EndTag[Token.tag]}

EndAt == CHOOSE k \in EndTags : \A j \in EndTags : k <= j

TextHere == IF EndAt = pos + 1 THEN <<Token.text>>
            ELSE <<Token.text, doc.tokens[pos + 1].tag>>

ParseUnended ==
    /\ AtToken(DOMAIN EndTag)
    /\ EndTags = {}
    /\ Fail
    /\ UNCHANGED <<doc, pos, store>>

\* ParseTagKey up to its value, which is parsed before the key is made.
OpenKey ==
    /\ AtToken({"key"})
    /\ EndTags # {}
    /\ pos' = EndAt + 1
    /\ stack' = Append(stack, [Frame("key") EXCEPT !.string = TextHere])
    /\ UNCHANGED <<pc, doc, store>>

ParseString ==
    /\ AtToken({"string"})
    /\ EndTags # {}
    /\ pos' = EndAt + 1
    /\ UNCHANGED doc
    /\ IF NewTagRefused(store) THEN Fail /\ UNCHANGED store
       ELSE IF NewSymbolRefused(Stocked(store), TextHere) THEN Panic
       ELSE Deliver(stack, NewSymbol(Stocked(store), TextHere),
                    "string", TextHere, NULL)

\* ParseTagInteger, ParseTagData, ParseTagDate: the text is passed over.
ParseTextless ==
    /\ AtToken({"integer", "data", "date"})
    /\ EndTags # {}
    /\ pos' = EndAt + 1
    /\ UNCHANGED doc
    /\ IF NewTagRefused(store) THEN Fail /\ UNCHANGED store
       ELSE Deliver(stack, store, Token.tag, <<>>, NULL)

-----------------------------------------------------------------------------
(* ParseTagList with an element parsed.                                    *)

InList(status) == pc = status /\ Top.kind = "list"

\* Mutant: elements are kept in the document's order.
LinkedInOrder(s, list, tag) ==
    LET last[t \in DOMAIN s.tags] ==
          IF s.tags[t].tagNext = NULL THEN t ELSE last[s.tags[t].tagNext]
    IN  IF list = NULL THEN <<s, tag>>
        ELSE <<[s EXCEPT !.tags[last[list]].tagNext = tag], list>>

\* The element put in front of the others.
Linked(s, list, tag) == <<[s EXCEPT !.tags[tag].tagNext = list], tag>>

ListLink ==
    /\ InList("returned")
    /\ Top.tag \notin {Unset, NULL, Top.list}
    /\ LET linked == Linked(store, Top.list, Top.tag) IN
       /\ store' = linked[1]
       /\ stack' = [stack EXCEPT ![Len(stack)].list = linked[2]]
    /\ pc' = "parse"
    /\ UNCHANGED <<doc, pos>>

\* The pointer was not set.
ListStray ==
    /\ InList("returned")
    /\ Top.tag = Unset
    /\ pc' = "undefined"
    /\ UNCHANGED <<doc, pos, stack, store>>

\* The pointer is still that of the element before, which is linked to
\* itself.  The loader goes on with a list without an end: XMLFreeTag calls
\* itself for ever, and so does the walk of such a dictionary go round.
ListRing ==
    /\ InList("returned")
    /\ Top.tag # NULL
    /\ Top.tag = Top.list
    /\ pc' = "ring"
    /\ UNCHANGED <<doc, pos, stack, store>>

ListEnd ==
    /\ InList("returned")
    /\ Top.tag = NULL
    /\ UNCHANGED <<doc, pos>>
    /\ IF NewTagRefused(store)
       THEN /\ store' = XMLFreeTag(store, Top.list)
            /\ stack' = Pop
            /\ pc' = "failed"
       ELSE Deliver(Pop, store, Top.type, <<>>, Top.list)

\* Mutant: the elements there were are forgotten.
ListFailKeeps ==
    /\ InList("failed")
    /\ stack' = Pop
    /\ UNCHANGED <<pc, doc, pos, store>>

ListFail ==
    /\ InList("failed")
    /\ store' = XMLFreeTag(store, Top.list)
    /\ stack' = Pop
    /\ UNCHANGED <<pc, doc, pos>>

(* ParseTagKey with the value parsed.                                      *)

InKey(status) == pc = status /\ Top.kind = "key"

KeyStray ==
    /\ InKey("returned")
    /\ Top.tag = Unset
    /\ pc' = "undefined"
    /\ UNCHANGED <<doc, pos, stack, store>>

KeyEnd ==
    /\ InKey("returned")
    /\ Top.tag # Unset
    /\ UNCHANGED <<doc, pos>>
    /\ IF NewTagRefused(store)
       THEN /\ store' = XMLFreeTag(store, Top.tag)
            /\ stack' = Pop
            /\ pc' = "failed"
       ELSE IF NewSymbolRefused(Stocked(store), Top.string) THEN Panic
       ELSE Deliver(Pop, NewSymbol(Stocked(store), Top.string),
                    "key", Top.string, Top.tag)

KeyFail ==
    /\ InKey("failed")
    /\ stack' = Pop
    /\ UNCHANGED <<pc, doc, pos, store>>

-----------------------------------------------------------------------------
(* PopulateDeviceTreeNode and WalkDeviceTreeNodeChildren, one turn of      *)
(* their loops at a time.                                                  *)

InWalk(kind) == pc = "populate" /\ Top.kind = kind

\* The tag walked to, and the value it has as a key.
Here == store.tags[Top.list]

Value == store.tags[Here.tag]

\* The frames with the top one moved on to the next tag.
Onward == [stack EXCEPT ![Len(stack)].list = Here.tagNext]

\* A list's tags in its order.
Chain(s, list) ==
    LET chain[t \in 0 .. Len(s.tags)] ==
          IF t = NULL THEN <<>> ELSE <<t>> \o chain[s.tags[t].tagNext]
    IN  chain[list]

\* A text with its terminator; a tag that has got into it takes two bytes.
StringSize(string) == TextLen[string[1]] + 2 * (Len(string) - 1) + 1

\* An integer is 4 bytes, of the number that its tag has for a string.
Size(tag) == IF tag.type = "integer" THEN 4 ELSE StringSize(tag.string)

Bytes(s, items) ==
    FoldLeft(+, 0, [i \in DOMAIN items |-> Size(s.tags[items[i]])])

IsChildren == Here.string # <<>> /\ Here.string[1] \in ChildrenTexts

\* The property made of a key and its value's tags.  The value and the name
\* are copied to memory of their own, and neither malloc is looked at; nor
\* is the name, which a tag that is no key does not have.
AddProperty(items) ==
    IF store.room < 2 \/ Here.string = <<>> \/ Top.node = NULL
    THEN pc' = "undefined" /\ UNCHANGED <<stack, store>>
    ELSE /\ store' = WithProperty(
                        [store EXCEPT !.room = @ - 2], Top.node, Here.string,
                        Bytes(store, items),
                        [i \in DOMAIN items |-> store.tags[items[i]].string])
         /\ stack' = Onward
         /\ UNCHANGED pc

EntryScalar ==
    /\ InWalk("entries")
    /\ Top.list # NULL
    /\ Here.tag # NULL
    /\ Value.type \in {"integer", "string"}
    /\ AddProperty(<<Here.tag>>)
    /\ UNCHANGED <<doc, pos>>

\* The tags that an array's data is made of.
DataItems(s, items) ==
    \A i \in Range(items) : s.tags[i].type \in {"integer", "string"}

\* An integer is stored as a word, right behind what is there before it.
WordsAligned(s, items) ==
    \A i \in DOMAIN items :
        s.tags[items[i]].type = "integer" =>
            Bytes(s, SubSeq(items, 1, i - 1)) % 4 = 0

\* ArrayToDeviceTreeData.  The processor, its MMU off, takes no word that is
\* not aligned.
EntryArray ==
    /\ InWalk("entries")
    /\ Top.list # NULL
    /\ Here.tag # NULL
    /\ Value.type = "array"
    /\ ~IsChildren
    /\ LET items == Chain(store, Value.tag) IN
       IF items = <<>> \/ ~DataItems(store, items) THEN Panic
       ELSE IF ~WordsAligned(store, items)
       THEN pc' = "undefined" /\ UNCHANGED <<stack, store>>
       ELSE AddProperty(items)
    /\ UNCHANGED <<doc, pos>>

EntryChildren ==
    /\ InWalk("entries")
    /\ Top.list # NULL
    /\ Here.tag # NULL
    /\ Value.type = "array"
    /\ IsChildren
    /\ IF Value.tag = NULL THEN Panic
       ELSE /\ stack' = Append(Onward,
                               [Frame("members") EXCEPT !.list = Value.tag,
                                                        !.node = Top.node])
            /\ UNCHANGED <<pc, store>>
    /\ UNCHANGED <<doc, pos>>

\* No value, or one of another type: no property.
EntrySkip ==
    /\ InWalk("entries")
    /\ Top.list # NULL
    /\ Here.tag # NULL => Value.type \notin {"array", "integer", "string"}
    /\ stack' = Onward
    /\ UNCHANGED <<pc, doc, pos, store>>

\* DT__AddChild, whose null pointer is passed on, and the member's entries.
Member ==
    /\ InWalk("members")
    /\ Top.list # NULL
    /\ LET with == WithChild(store, Top.node)
           node == IF NodeRefused(store) THEN NULL ELSE Len(with.nodes)
       IN  IF Here.type # "dict" THEN Panic
           ELSE /\ store' = with
                /\ stack' = Append(Onward, Entries(Top.list, node))
                /\ UNCHANGED pc
    /\ UNCHANGED <<doc, pos>>

\* The return from either; at last to prepare_devicetree, which frees the
\* dictionary and returns true.
WalkEnd ==
    /\ pc = "populate"
    /\ Top.kind # "loop"
    /\ Top.list = NULL
    /\ stack' = Pop
    /\ IF Len(stack) = 2
       THEN /\ store' = XMLFreeTag(store, stack[1].tag)
            /\ pc' = "true"
       ELSE UNCHANGED <<store, pc>>
    /\ UNCHANGED <<doc, pos>>

Next ==
    \/ Initialize
    \/ LoopSkip \/ LoopStray \/ LoopFree \/ LoopDict \/ LoopFail
    \/ ParseEnd \/ ParsePList \/ ParseOther \/ ParseWhole \/ OpenList
    \/ ParseUnended \/ OpenKey \/ ParseString \/ ParseTextless
    \/ ListLink \/ ListStray \/ ListRing \/ ListEnd \/ ListFail
    \/ KeyStray \/ KeyEnd \/ KeyFail
    \/ EntryScalar \/ EntryArray \/ EntryChildren \/ EntrySkip \/ Member
    \/ WalkEnd

Spec == Init /\ [][Next]_vars

FairSpec == Spec /\ WF_vars(Next)

-----------------------------------------------------------------------------
(* Property lists.  The meaning of a document is a table of values, each   *)
(* of a type and a text, with the indices of those nested in it, which     *)
(* come before it; a dictionary nests keys, a key its value, and the last  *)
(* value is the dictionary that is the whole list.  A document that is     *)
(* not such a list means <<>>.                                             *)

Tok(tag, text) == [tag |-> tag, text |-> text]

Flat(seqs) == FoldLeft(LAMBDA a, b : a \o b, <<>>, seqs)

\* The tokens of a property list, as it is written with its headers.
Written(values) ==
    LET written[i \in DOMAIN values] ==
          LET v == values[i]
              inner == Flat([k \in DOMAIN v.items |-> written[v.items[k]]])
          IN  CASE v.type \in Lists -> <<Tok(v.type, "")>> \o inner
                                        \o <<Tok("/" \o v.type, "")>>
                [] v.type \in {"true", "false"} -> <<Tok(v.type, "")>>
                [] OTHER -> <<Tok(v.type, v.text), Tok(EndTag[v.type], "")>>
                              \o inner
    IN  <<Tok("?xml", ""), Tok("plist", "")>> \o written[Len(values)]
          \o <<Tok("/plist", "")>>

\* What a value takes in the data of a property.
ItemSize(v) == IF v.type = "integer" THEN 4 ELSE TextLen[v.text] + 1

\* The loader's arrays are in reverse: no integer has strings after it that
\* are not of whole words together.
WordsPlaced(values) ==
    \A v \in Range(values) : \A k \in DOMAIN v.items :
        v.type = "array" /\ values[v.items[k]].type = "integer" =>
            FoldLeft(+, 0, [j \in 1 .. Len(v.items) - k |->
                               ItemSize(values[v.items[k + j]])]) % 4 = 0

\* The device tree that a table of values describes, Number(v) being what
\* becomes of an integer.  The loader's lists are in reverse, but a node's
\* children are reversed twice.
Described(values, Number(_)) ==
    LET item(v) == IF v.type = "integer" THEN Number(v) ELSE <<v.text>>
        of(v) == [k \in DOMAIN v.items |-> values[v.items[k]]]
        property(key) ==
          LET v == values[key.items[1]]
              items == IF v.type = "array" THEN Reverse(of(v)) ELSE <<v>>
              sizes == [k \in DOMAIN items |-> ItemSize(items[k])]
          IN  [name |-> <<key.text>>, length |-> FoldLeft(+, 0, sizes),
               value |-> [k \in DOMAIN items |-> item(items[k])]]
        isChildren(key) == key.text \in ChildrenTexts
                             /\ values[key.items[1]].type = "array"
        isProperty(key) == ~isChildren(key)
                             /\ values[key.items[1]].type
                                  \in {"array", "string", "integer"}
        node[i \in DOMAIN values] ==
          LET keys == of(values[i])
              parents == SelectSeq(keys, isChildren)
              below == Flat([k \in DOMAIN parents |->
                               values[parents[k].items[1]].items])
              own == SelectSeq(Reverse(keys), isProperty)
          IN  [properties |-> [k \in DOMAIN own |-> property(own[k])],
               children |-> [k \in DOMAIN below |-> node[below[k]]]]
    IN  [node[Len(values)] EXCEPT
            !.properties = <<[name |-> <<"name">>, length |-> 2,
                              value |-> <<<<"/">>>>]>> \o @]

-----------------------------------------------------------------------------
(* Properties.                                                             *)

\* The types of the variables; pointers are null or into the tags there are.
TypeOK ==
    /\ pc \in {"start", "parse", "returned", "failed", "populate", "true",
               "false", "halted", "undefined", "ring"}
    /\ pos \in 1 .. (Len(doc.tokens) + 1)
    /\ \A k \in DOMAIN stack :
          /\ stack[k].kind \in {"loop", "list", "key", "entries", "members"}
          /\ stack[k].list \in 0 .. Len(store.tags)
          /\ stack[k].tag \in Unset .. Len(store.tags)
          /\ stack[k].node \in 0 .. Len(store.nodes)
    /\ \A t \in DOMAIN store.tags :
          /\ store.tags[t].type \in {"none", "key"} \cup Lists \cup
                Range(Whole) \cup DOMAIN EndTag
          /\ {store.tags[t].tag, store.tags[t].tagNext}
               \subseteq 0 .. Len(store.tags)
    /\ IsABag(store.symbols)
    /\ store.room \in Nat

\* The headers come before the list, and there is another before <plist>.
Headed ==
    \A k \in DOMAIN doc.tokens :
        doc.tokens[k].tag = "plist" =>
            /\ doc.tokens[1].tag # "plist"
            /\ \A j \in 1 .. k : doc.tokens[j].tag \notin Known \ {"plist"}

InUse == DOMAIN store.tags \ Range(store.free)

\* Whatever has a value in a dictionary is a key.
Keyed ==
    \A t \in InUse :
        store.tags[t].type = "dict" =>
            \A i \in Range(Chain(store, store.tags[t].tag)) :
                store.tags[i].type = "key" \/ store.tags[i].tag = NULL

\* No array that data is made of has an integer behind strings that are not
\* of whole words.
Aligned ==
    \A t \in InUse :
        store.tags[t].type = "array" =>
            LET items == Chain(store, store.tags[t].tag)
            IN  DataItems(store, items) => WordsAligned(store, items)

\* No variable is read that was not set, no tag after it was given back, no
\* null pointer followed and no word stored unaligned (bootx.c:377-388,
\* 186-208, 107-118, xml.c:225-238), for any document with headers whose
\* dictionaries are of keys and whose arrays keep their integers at words,
\* well-formed or not, unless the heap is used up; and with headers no tag is
\* ever linked to itself.
StaysDefined ==
    /\ pc = "undefined" => store.room < 2 \/ ~Headed \/ ~Keyed \/ ~Aligned
    /\ pc = "ring" => ~Headed

Running == pc \notin {"halted", "undefined", "ring"}

\* A symbol lives as long as a tag refers to it, and has as many references
\* as there are such tags (NewSymbol and FreeSymbol, xml.c:578-646).
SymbolsCounted ==
    Running => store.symbols = References(store, InUse)

\* The pointers to a tag that will be followed to give it back.
PointersTo(t) ==
    LET fields == {<<u, field>> : u \in InUse, field \in {"tag", "tagNext"}}
    IN  {f \in fields : store.tags[f[1]][f[2]] = t}
          \cup {<<k, "list">> : k \in {k \in DOMAIN stack :
                    stack[k].kind = "list" /\ stack[k].list = t}}
          \cup {<<k, "result">> : k \in {k \in DOMAIN stack :
                    /\ stack[k].tag = t
                    /\ \/ pc = "returned" /\ k = Len(stack)
                       \/ pc = "populate" /\ k = 1}}

\* Every tag that is in use has one owner, and every other is on the free
\* list once (NewTag and XMLFreeTag, xml.c:515-574, with the callers' error
\* paths): none is lost, none is given back twice.  A <plist> anywhere else
\* makes a caller take the tag it had before for a new one.
TagsOwned ==
    Running /\ Headed =>
        /\ IsInjective(store.free)
        /\ \A t \in DOMAIN store.tags :
              Cardinality(PointersTo(t)) = IF t \in InUse THEN 1 ELSE 0

\* What the parser's operations rely on and keep up between each other.
StoreConsistent == TypeOK /\ SymbolsCounted /\ TagsOwned

\* The tree in memory, from a node on.
Tree ==
    LET tree[i \in DOMAIN store.nodes] ==
          [properties |-> store.nodes[i].properties,
           children |-> [k \in DOMAIN store.nodes[i].children |->
                            tree[store.nodes[i].children[k]]]]
    IN  tree[store.rootNode]

Ended == pc \in {"true", "false", "halted", "undefined", "ring"}

HasMeaning ==
    doc.values # <<>> /\ WordsPlaced(doc.values) /\ store.room >= 2

\* A property list that means a device tree becomes that tree: all of its
\* nodes, in its order, with their properties, in the reverse order, the
\* integers 0 (xml.c:237, 361, device_tree.c:86, 140, bootx.c:107-118).  Not
\* one with an array that has an integer before strings that are not of whole
\* words together: the word would be stored unaligned (bootx.c:110-111).
TreeFromDocument ==
    Ended /\ HasMeaning =>
        pc = "true" /\ Tree = Described(doc.values, LAMBDA v : <<>>)

\* prepare_devicetree comes to an end with every document that has headers,
\* well-formed or not (bootx.c:376-391), if it does not come to one of the
\* points from where the loader is not followed, which are those StaysDefined
\* names.  With a <plist> in a list it can go on for ever (ListRing).
Ends ==
    Headed ~> \/ pc \in {"true", "false", "halted"}
              \/ pc = "undefined" /\ (store.room < 2 \/ ~Keyed \/ ~Aligned)

\* Integers become data: "Integer to DT data" (bootx.c:125).
IntegersKept ==
    pc = "true" /\ HasMeaning =>
        Tree = Described(doc.values, LAMBDA v : <<v.text>>)
=============================================================================

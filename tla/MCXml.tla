-------------------------------- MODULE MCXml --------------------------------
(***************************************************************************)
(* Documents to check Xml with: property lists of every small shape, what  *)
(* is left of some of them when they are cut short, and every short        *)
(* sequence of tokens.                                                     *)
(***************************************************************************)
EXTENDS Xml

MCTextLen == [text \in {"", "a", "b", "@", "7", "name", "/", "abc"} |->
                 CASE text = ""     -> 0
                   [] text = "name" -> 4
                   [] text = "abc"  -> 3
                   [] OTHER         -> 1]

V(type, text, items) == [type |-> type, text |-> text, items |-> items]

Dict(keys)   == V("dict", "", keys)
Array(items) == V("array", "", items)
Key(text, v) == V("key", text, <<v>>)

\* A table with a nested value added to it, what is nested first.
RECURSIVE Added(_, _)
Added(table, value) ==
    LET add(pair, item) ==
          LET more == Added(pair[1], item)
          IN  <<more, Append(pair[2], Len(more))>>
        nested == FoldLeft(add, <<table, <<>>>>, value.items)
    IN  Append(nested[1], [value EXCEPT !.items = nested[2]])

Table(value) == Added(<<>>, value)

Scalars == {V("string", "a", <<>>), V("integer", "7", <<>>)}
Leaves  == Scalars \cup {V("string", "b", <<>>), V("true", "", <<>>),
                         V("data", "", <<>>)}
\* Strings of two bytes and of four, and an integer of four: behind the one
\* string the integer is not at a word, behind the other it is.
Items   == Scalars \cup {V("string", "abc", <<>>)}
Arrays  == {Array(<<v>>) : v \in Items}
             \cup {Array(<<v, w>>) : v \in Items, w \in Items}

Simple == {Dict(<<>>)}
            \cup {Dict(<<Key("a", v)>>) : v \in Leaves \cup Arrays}
            \cup {Dict(<<Key("a", v), Key(k, w)>>) :
                     v \in Leaves, k \in {"a", "b", "@"}, w \in Scalars}

Small == {Dict(<<Key(k, v)>>) : k \in {"a", "b"}, v \in Scalars}

Nested == {Dict(<<Key("a", s), Key("@", Array(<<v, w>>))>>) :
              s \in Scalars, v \in Small, w \in Small}
            \cup {Dict(<<Key("@", Array(<<v>>)), Key("@", Array(<<w>>))>>) :
                     v \in Small, w \in Small}
            \cup {Dict(<<Key("@", Array(<<Dict(<<Key("@", Array(<<v, w>>)),
                                                 Key("b", s)>>)>>))>>) :
                     s \in Scalars, v \in Small, w \in Small}

Meant == {[tokens |-> Written(Table(v)), values |-> Table(v)] :
             v \in Simple \cup Nested}

\* Documents of no meaning.
Text(tokens) == [tokens |-> tokens, values |-> <<>>]

Cut == UNION {{Text(SubSeq(d.tokens, 1, n)) : n \in 3 .. Len(d.tokens) - 2} :
                 d \in Meant}

Alphabet == {Tok("other", ""), Tok("plist", ""), Tok("dict", ""),
             Tok("array", ""), Tok("emptyArray", ""), Tok("key", "a"),
             Tok("/key", ""), Tok("string", "a"), Tok("/string", ""),
             Tok("true", "")}

Short == {Text(tokens) : tokens \in UNION {[1 .. n -> Alphabet] : n \in 1 .. 3}}
           \cup {Text(<<Tok("other", ""), Tok("dict", "")>> \o tokens
                        \o <<Tok("other", "")>>) :
                    tokens \in [1 .. 4 -> Alphabet \ {Tok("plist", "")}]}

MCDocuments == Meant \cup Cut \cup Short
=============================================================================

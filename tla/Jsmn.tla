-------------------------------- MODULE Jsmn --------------------------------
(***************************************************************************)
(* The JSON tokenizer (json_parser.c), neither strict nor with parent      *)
(* links, as it is compiled.  jsmn_parse may come back for more tokens     *)
(* or for more bytes, and is then called again with the same parser, which *)
(* goes on where it was.                                                   *)
(*                                                                         *)
(* Characters are classes of characters: the brackets, the quote, the      *)
(* backslash, "," for what ends a primitive, "n" for the letters that may  *)
(* be escaped, "x" for the other printable ones and "^" for the rest.      *)
(***************************************************************************)
EXTENDS Integers, Sequences, SequencesExt

CONSTANTS
    Documents,      \* what may be parsed
    MaxTokens       \* the most tokens the caller provides

Classes == {"{", "}", "[", "]", "quote", "backslash", ",", "n", "x", "^"}

\* What the constants are assumed to be.
JsmnAssumption ==
    /\ Documents \subseteq Seq(Classes)
    /\ MaxTokens \in Nat

None == 0       \* for -1: tokens are numbered from 1

VARIABLES
    js,                     \* the document
    given,                  \* how many bytes of it there are, then '\0'
    num_tokens,
    parser, tokens,
    r,                      \* what jsmn_parse returned, or "running"
    cuts                    \* where the bytes ended when it asked for more

vars == <<js, given, num_tokens, parser, tokens, r, cuts>>

\* jsmn_init, and the first call.
Init ==
    /\ js \in Documents
    /\ given \in 0 .. Len(js)
    /\ num_tokens \in 0 .. MaxTokens
    /\ parser = [pos |-> 0, toksuper |-> None]
    /\ tokens = <<>>
    /\ r = "running"
    /\ cuts = {}

\* The caller provides more of what was missing.
Again ==
    /\ \/ /\ r = "NOMEM"
          /\ num_tokens' \in (num_tokens + 1) .. MaxTokens
          /\ UNCHANGED <<given, cuts>>
       \/ /\ r = "PART"
          /\ given' \in (given + 1) .. Len(js)
          /\ cuts' = cuts \cup {given}
          /\ UNCHANGED num_tokens
    /\ r' = "running"
    /\ UNCHANGED <<js, parser, tokens>>

-----------------------------------------------------------------------------

\* js[pos]; the classes have no "".
At(i) == IF i < given THEN js[i + 1] ELSE ""

Char == At(parser.pos)

Running == r = "running"

Full == Len(tokens) = num_tokens

Return(error) ==
    /\ r' = error
    /\ UNCHANGED <<js, given, num_tokens, parser, tokens, cuts>>

\* jsmn_alloc_token and jsmn_fill_token.
Token(type, start, end) == [type |-> type, start |-> start, end |-> end, size |-> 0]

\* Another token, counted by the one around it.
WithToken(t) ==
    Append(IF parser.toksuper = None THEN tokens
           ELSE [tokens EXCEPT ![parser.toksuper].size = @ + 1], t)

TypeOf(c) == IF c \in {"{", "}"} THEN "OBJECT" ELSE "ARRAY"

\* A bracket that opens.
Open ==
    /\ Running
    /\ Char \in {"{", "["}
    /\ IF Full THEN Return("NOMEM")
       ELSE /\ tokens' = WithToken(Token(TypeOf(Char), parser.pos, -1))
            /\ parser' = [pos |-> parser.pos + 1, toksuper |-> Len(tokens) + 1]
            /\ UNCHANGED <<js, given, num_tokens, r, cuts>>

\* The last token that is open, up to the i-th.  Mutant: up to the i-th
\* whether that is open or not.
InnermostLast(toks, i) == i

Innermost(toks, i) == SelectLastInSubSeq(toks, 1, i, LAMBDA t : t.end = -1)

\* One that closes ends the last open token, which has to be of its type.
Close ==
    /\ Running
    /\ Char \in {"}", "]"}
    /\ LET i == Innermost(tokens, Len(tokens)) IN
       IF i = None \/ tokens[i].type # TypeOf(Char)
       THEN Return("INVAL")
       ELSE /\ tokens' = [tokens EXCEPT ![i].end = parser.pos + 1]
            /\ parser' = [pos |-> parser.pos + 1,
                          toksuper |-> Innermost(tokens', i)]
            /\ UNCHANGED <<js, given, num_tokens, r, cuts>>

\* Where the string ends whose quote is before i: at a quote, or at the end
\* of the bytes.  An escape that is not known is where it ends as well.
EndOfString(i) ==
    LET end[j \in i .. (given + 1)] ==
          IF j >= given \/ At(j) = "quote" THEN j
          ELSE IF At(j) # "backslash" THEN end[j + 1]
          ELSE IF At(j + 1) \in {"quote", "backslash", "n"} THEN end[j + 2]
          ELSE j
    IN  end[i]

String ==
    /\ Running
    /\ Char = "quote"
    /\ LET end == EndOfString(parser.pos + 1) IN
       CASE At(end) = ""          -> Return("PART")
         [] At(end) = "backslash" -> Return("INVAL")
         [] At(end) = "quote" ->
              IF Full THEN Return("NOMEM")
              ELSE /\ tokens' = WithToken(Token("STRING", parser.pos + 1, end))
                   /\ parser' = [parser EXCEPT !.pos = end + 1]
                   /\ UNCHANGED <<js, given, num_tokens, r, cuts>>

\* What ends a primitive; the end of the bytes does, too.
EndsPrimitive == {",", "]", "}", "^", ""}

EndOfPrimitive(i) ==
    CHOOSE j \in i .. given :
        /\ At(j) \in EndsPrimitive
        /\ \A k \in i .. (j - 1) : At(k) \notin EndsPrimitive

Primitive ==
    /\ Running
    /\ Char \in {"backslash", "n", "x", "^"}
    /\ LET end == EndOfPrimitive(parser.pos) IN
       CASE At(end) = "^" -> Return("INVAL")
         [] At(end) # "^" ->
              IF Full THEN Return("NOMEM")
              ELSE /\ tokens' = WithToken(Token("PRIMITIVE", parser.pos, end))
                   /\ parser' = [parser EXCEPT !.pos = end]
                   /\ UNCHANGED <<js, given, num_tokens, r, cuts>>

Separator ==
    /\ Running
    /\ Char = ","
    /\ parser' = [parser EXCEPT !.pos = @ + 1]
    /\ UNCHANGED <<js, given, num_tokens, tokens, r, cuts>>

End ==
    /\ Running
    /\ Char = ""
    /\ Return(IF \E i \in DOMAIN tokens : tokens[i].end = -1 THEN "PART"
              ELSE "SUCCESS")

Next ==
    \/ Again
    \/ Open \/ Close \/ String \/ Primitive \/ Separator \/ End

Spec == Init /\ [][Next]_vars

-----------------------------------------------------------------------------
(* Properties.  The reference reads a text once, a character at a time,    *)
(* with a stack of the brackets that are open.                             *)

Counted(s, t) ==
    Append(IF s.open = <<>> THEN s.tokens
           ELSE [s.tokens EXCEPT ![Last(s.open)].size = @ + 1], t)

\* Character c when no string and no primitive is being read.
Outside(s, c) ==
    CASE c \in {"{", "["} ->
           [s EXCEPT !.tokens = Counted(s, Token(TypeOf(c), s.at, -1)),
                     !.open = Append(@, Len(s.tokens) + 1)]
      [] c \in {"}", "]"} ->
           IF s.open = <<>> \/ s.tokens[Last(s.open)].type # TypeOf(c)
           THEN [s EXCEPT !.mode = "invalid"]
           ELSE [s EXCEPT !.tokens[Last(s.open)].end = s.at + 1,
                          !.open = Front(@)]
      [] c = "quote" -> [s EXCEPT !.mode = "string", !.start = s.at + 1]
      [] c = ","     -> s
      [] c = "^"     -> [s EXCEPT !.mode = "invalid"]
      [] OTHER       -> [s EXCEPT !.mode = "primitive", !.start = s.at]

EndOf(s, type) ==
    [s EXCEPT !.tokens = Counted(s, Token(type, s.start, s.at)),
              !.mode = "outside"]

Read(s, c) ==
    CASE s.mode = "outside" -> Outside(s, c)
      [] s.mode = "string" ->
           IF c = "quote" THEN EndOf(s, "STRING")
           ELSE IF c = "backslash" THEN [s EXCEPT !.mode = "escape"] ELSE s
      [] s.mode = "escape" ->
           [s EXCEPT !.mode = IF c \in {"quote", "backslash", "n"} THEN "string"
                              ELSE "invalid"]
      [] s.mode = "primitive" ->
           IF c \in {",", "]", "}"} THEN Outside(EndOf(s, "PRIMITIVE"), c)
           ELSE IF c = "^" THEN [s EXCEPT !.mode = "invalid"] ELSE s
      [] s.mode = "invalid" -> s

\* The first n characters read; a primitive may end there.
Whole(n) ==
    LET upto[k \in 0 .. n] ==
          IF k = 0 THEN [tokens |-> <<>>, open |-> <<>>, mode |-> "outside",
                         start |-> 0, at |-> 0]
          ELSE [Read(upto[k - 1], js[k]) EXCEPT !.at = @ + 1]
        read == upto[n]
    IN  IF read.mode = "primitive"
        THEN [EndOf(read, "PRIMITIVE") EXCEPT !.mode = "primitive"] ELSE read

\* The bytes never ended in the middle of a primitive, of which two would
\* become (json_parser.c:49-81), and do not end behind a backslash.
NotTorn ==
    /\ \A n \in cuts : Whole(n).mode = "primitive"
                         => js[n + 1] \in EndsPrimitive
    /\ Whole(given).mode # "escape"

\* However often jsmn_parse had to come back for tokens or bytes, it has the
\* tokens of what it has read, with their sizes and where they end, as if it
\* had been given everything at once, and the innermost open one is where it
\* puts the next; and it says what is missing.
Tokenizes ==
    NotTorn =>
        LET sofar == Whole(parser.pos)
            whole == Whole(given)
        IN  /\ tokens = sofar.tokens
            /\ parser.toksuper = IF sofar.open = <<>> THEN None
                                 ELSE Last(sofar.open)
            /\ r = "NOMEM" => Full
            /\ r = "INVAL" => whole.mode = "invalid"
            /\ r \in {"PART", "SUCCESS"} =>
                  /\ whole.mode # "invalid"
                  /\ r = IF whole.open # <<>> \/ whole.mode = "string"
                         THEN "PART" ELSE "SUCCESS"
=============================================================================

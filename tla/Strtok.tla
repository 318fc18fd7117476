------------------------------- MODULE Strtok -------------------------------
(***************************************************************************)
(* strtok (libc_stub.c): it takes a text apart by writing terminators into *)
(* it, a token at a call, and keeps where it is in a static pointer.       *)
(* Clients call it for two texts that lie one behind the other in memory,  *)
(* begin, go on and begin again as they like, with any delimiters.         *)
(***************************************************************************)
EXTENDS Integers, Sequences

CONSTANTS
    Chars,          \* of texts
    Texts,          \* the first text, its terminator apart
    SecondText,
    Delims,         \* sets of delimiters
    MaxCalls        \* bounds the calls

NULL == 0       \* addresses begin at 1
NUL  == ""

\* What the constants are assumed to be.
StrtokAssumption ==
    /\ NUL \notin Chars
    /\ Texts \cup {SecondText} \subseteq Seq(Chars)
    /\ Delims \subseteq SUBSET Chars
    /\ MaxCalls \in Nat

VARIABLES
    pc,
    mem,            \* the texts
    delim,          \* the argument
    s, tok,         \* the locals; tok is what is returned
    last,           \* the static pointer
    calls,          \* how many there have been
    begun,          \* the text at the last call that gave one, and where
    since           \* the delimiters and results from that call on

vars == <<pc, mem, delim, s, tok, last, calls, begun, since>>

Init ==
    /\ pc = "idle"
    /\ \E t \in Texts : mem = t \o <<NUL>> \o SecondText \o <<NUL>>
    /\ delim = {}
    /\ s = NULL /\ tok = NULL
    /\ last = NULL
    /\ calls = 0
    /\ begun = [mem |-> mem, at |-> NULL]
    /\ since = <<>>

\* Where the texts begin.
FirstAt  == 1
SecondAt == Len(mem) - Len(SecondText)

\* A call for a text, or with NULL.
Call(arg, d) ==
    /\ pc = "idle"
    /\ calls < MaxCalls
    /\ calls' = calls + 1
    /\ delim' = d
    /\ s' = IF arg = NULL THEN last ELSE arg
    /\ IF s' = NULL THEN pc' = "return" /\ tok' = NULL
       ELSE pc' = "skip" /\ UNCHANGED tok
    /\ begun' = IF arg = NULL THEN begun ELSE [mem |-> mem, at |-> arg]
    /\ since' = IF arg = NULL THEN since ELSE <<>>
    /\ UNCHANGED <<mem, last>>

\* Leading delimiters; the terminator is none here.
Skip ==
    /\ pc = "skip"
    /\ mem[s] \in delim
    /\ s' = s + 1
    /\ UNCHANGED <<pc, mem, delim, tok, last, calls, begun, since>>

NoToken ==
    /\ pc = "skip"
    /\ mem[s] = NUL
    /\ last' = NULL
    /\ tok' = NULL
    /\ pc' = "return"
    /\ UNCHANGED <<mem, delim, s, calls, begun, since>>

TokenBegins ==
    /\ pc = "skip"
    /\ mem[s] \notin delim \cup {NUL}
    /\ tok' = s
    /\ s' = s + 1
    /\ pc' = "scan"
    /\ UNCHANGED <<mem, delim, last, calls, begun, since>>

Scan ==
    /\ pc = "scan"
    /\ mem[s] \notin delim \cup {NUL}
    /\ s' = s + 1
    /\ UNCHANGED <<pc, mem, delim, tok, last, calls, begun, since>>

\* Where to go on, a token having ended at i.  Mutant: the text's own
\* terminator is passed like another.
BehindAny(i) == i + 1

Behind(i) == IF mem[i] = NUL THEN NULL ELSE i + 1

TokenEnds ==
    /\ pc = "scan"
    /\ mem[s] \in delim \cup {NUL}
    /\ mem' = [mem EXCEPT ![s] = NUL]
    /\ s' = Behind(s)
    /\ last' = Behind(s)
    /\ pc' = "return"
    /\ UNCHANGED <<delim, tok, calls, begun, since>>

Return ==
    /\ pc = "return"
    /\ pc' = "idle"
    /\ since' = Append(since, [delim |-> delim, tok |-> tok])
    /\ UNCHANGED <<mem, delim, s, tok, last, calls, begun>>

Next ==
    \/ \E arg \in {NULL, FirstAt, SecondAt}, d \in Delims : Call(arg, d)
    \/ Skip \/ NoToken \/ TokenBegins \/ Scan \/ TokenEnds
    \/ Return

Spec == Init /\ [][Next]_vars

-----------------------------------------------------------------------------
(* Properties.                                                             *)

\* The string at an address of a memory.
StringAt(m, a) ==
    LET end == CHOOSE i \in a .. Len(m) :
                  m[i] = NUL /\ \A j \in a .. (i - 1) : m[j] # NUL
    IN  SubSeq(m, a, end - 1)

\* How far a text consists of members of S from i on.
Past(S, text, i) ==
    CHOOSE j \in i .. (Len(text) + 1) :
        /\ \A k \in i .. (j - 1) : text[k] \in S
        /\ j <= Len(text) => text[j] \notin S

\* A text's next piece: delimiters are stripped, then it goes to the next
\* one, which is lost.  There is none once a piece ended with the text.
Piece(rest, d) ==
    LET from == Past(d, rest, 1)
        to   == Past(Chars \ d, rest, from)
    IN  [piece |-> SubSeq(rest, from, to - 1),
         rest  |-> SubSeq(rest, to + 1, Len(rest))]

\* The pieces of the text that was begun, by the delimiters of each call.
Pieces ==
    LET rest[k \in 0 .. Len(since)] ==
          IF k = 0 THEN StringAt(begun.mem, begun.at)
          ELSE Piece(rest[k - 1], since[k].delim).rest
    IN  [k \in DOMAIN since |-> Piece(rest[k - 1], since[k].delim).piece]

\* From the call that began a text on, each call returns the text's next
\* piece, and NULL when there is none, as often as it is made; the tokens
\* that were returned stay what they were through the calls that follow; and
\* outside the text that was begun nothing is changed.
Separates ==
    begun.at # NULL =>
        LET end == begun.at + Len(StringAt(begun.mem, begun.at))
        IN  /\ \A i \in DOMAIN since :
                  IF Pieces[i] = <<>> THEN since[i].tok = NULL
                  ELSE /\ since[i].tok \in begun.at .. end
                       /\ StringAt(mem, since[i].tok) = Pieces[i]
            /\ \A x \in DOMAIN mem :
                  mem[x] # begun.mem[x] => x \in begun.at .. (end - 1)
=============================================================================

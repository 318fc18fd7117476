------------------------------ MODULE Routines ------------------------------
(***************************************************************************)
(* The routines that know nothing of booting: the assembly functions on    *)
(* strings, the conversions of numbers, strtok and the JSON tokenizer.     *)
(* An execution is one of one of them; running says which, and the         *)
(* variables of the others are None.  The string functions' state is       *)
(* Strings' own; Numbers and Strtok have at for their pc.                  *)
(***************************************************************************)
EXTENDS Strings

None == "none"

CONSTANTS
    Chars,                                          \* of texts
    Word, BfSize, Fields, Numerals, Bases,          \* Numbers
    Texts, SecondText, Delims, MaxCalls,            \* Strtok
    Documents, MaxTokens                            \* Jsmn


VARIABLES
    running, at,
    conv, num, d, bf, text, base, pos, neg, acc, any,           \* Numbers
    mem, delim, s, tok, last, calls, begun, since,              \* Strtok
    js, given, num_tokens, parser, tokens, r, cuts              \* Jsmn

strings == <<pc, call, r0, r1, n, ahead, loaded>>
numbers == <<conv, num, d, bf, text, base, pos, neg, acc, any>>
strtok  == <<mem, delim, s, tok, last, calls, begun, since>>
jsmn    == <<js, given, num_tokens, parser, tokens, r, cuts>>

N == INSTANCE Numbers WITH pc <- at, Texts <- Numerals
K == INSTANCE Strtok WITH pc <- at
J == INSTANCE Jsmn

ASSUME NumeralsAssumption  == N!NumbersAssumption
ASSUME TextsAssumption     == K!StrtokAssumption
ASSUME DocumentsAssumption == J!JsmnAssumption

-----------------------------------------------------------------------------

NoStrings ==
    /\ pc = None /\ call = None /\ r0 = None /\ r1 = None /\ n = None
    /\ ahead = None /\ loaded = {}
NoNumbers ==
    /\ conv = None /\ num = None /\ d = None /\ bf = None /\ text = None
    /\ base = None /\ pos = None /\ neg = None /\ acc = None /\ any = None
NoStrtok ==
    /\ mem = None /\ delim = None /\ s = None /\ tok = None /\ last = None
    /\ calls = None /\ begun = None /\ since = None
NoJsmn ==
    /\ js = None /\ given = None /\ num_tokens = None
    /\ parser = None /\ tokens = None /\ r = None /\ cuts = None

RoutinesInit ==
    \/ running = "strings" /\ Init /\ NoNumbers /\ NoStrtok /\ NoJsmn
       /\ at = None
    \/ running = "numbers" /\ N!Init /\ NoStrings /\ NoStrtok /\ NoJsmn
    \/ running = "strtok" /\ K!Init /\ NoStrings /\ NoNumbers /\ NoJsmn
       /\ result = None
    \/ running = "jsmn" /\ J!Init /\ NoStrings /\ NoNumbers /\ NoStrtok
       /\ at = None /\ result = None

InStrings == running = "strings" /\ UNCHANGED <<running, at, numbers, strtok, jsmn>>
InNumbers == running = "numbers" /\ UNCHANGED <<running, strings, strtok, jsmn>>
InStrtok  == running = "strtok" /\ UNCHANGED <<running, result, strings, numbers, jsmn>>
InJsmn    == running = "jsmn" /\ UNCHANGED <<running, at, result, strings, numbers, strtok>>

OfString == InStrings /\ (\/ AlignS1 \/ Preload \/ NIsLessThanFour \/ WordCompare
                          \/ NIsZero \/ ByteCompare \/ Strlen \/ Strchr)

I2a      == InNumbers /\ N!I2a
GrowD    == InNumbers /\ N!GrowD
Grown    == InNumbers /\ N!Grown
PutDigit == InNumbers /\ N!PutDigit
Put      == InNumbers /\ N!Put
Begin    == InNumbers /\ N!Begin
Digit    == InNumbers /\ N!Digit
NumberEnds == InNumbers /\ N!End

StrtokCall(arg, delims) == InStrtok /\ K!Call(arg, delims)
Skip         == InStrtok /\ K!Skip
NoToken      == InStrtok /\ K!NoToken
TokenBegins  == InStrtok /\ K!TokenBegins
Scan         == InStrtok /\ K!Scan
TokenEnds    == InStrtok /\ K!TokenEnds
StrtokReturn == InStrtok /\ K!Return

Again     == InJsmn /\ J!Again
Open      == InJsmn /\ J!Open
Close     == InJsmn /\ J!Close
String    == InJsmn /\ J!String
Primitive == InJsmn /\ J!Primitive
Separator == InJsmn /\ J!Separator
ParseEnds == InJsmn /\ J!End

RoutinesNext ==
    \/ OfString
    \/ I2a \/ GrowD \/ Grown \/ PutDigit \/ Put \/ Begin \/ Digit \/ NumberEnds
    \/ running = "strtok" /\ \E arg \in {K!NULL, K!FirstAt, K!SecondAt},
                                delims \in Delims : StrtokCall(arg, delims)
    \/ Skip \/ NoToken \/ TokenBegins \/ Scan \/ TokenEnds \/ StrtokReturn
    \/ Again \/ Open \/ Close \/ String \/ Primitive \/ Separator \/ ParseEnds

RoutinesSpec ==
    RoutinesInit /\ [][RoutinesNext]_<<running, at, result, strings, numbers, strtok, jsmn>>

-----------------------------------------------------------------------------
(* The properties of the executions that are not of string functions, each *)
(* of those it is about; Answers and LoadsSound are as Strings has them.   *)

\* What printf makes of a number, in a field of any width, strtol and
\* strtoul make that number of; and ui2a's array is large enough.
PrintedReadsBack == running = "numbers" => N!PrintedReadsBack

\* strtol and strtoul return what a text stands for, or the nearest number
\* there is.
Clamped == running = "numbers" => N!Clamped

\* strtok returns the pieces of the text that was begun last, which stay
\* what they are, and changes nothing of the other text.
Separates == running = "strtok" => K!Separates

\* However often jsmn_parse has to be called again, it ends up with the
\* tokens of the whole text.
Tokenizes == running = "jsmn" => J!Tokenizes
=============================================================================

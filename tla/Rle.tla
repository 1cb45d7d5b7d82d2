-------------------------------- MODULE Rle ---------------------------------
(***************************************************************************)
(* RlePattern::parse of engine/src/rle.rs: the header line, then the body  *)
(* one character at a time.  The text is read as it comes: `body` is what  *)
(* of it has been read.  Comment and blank lines before the header change  *)
(* nothing and are left out; after the header a comment's # is a character *)
(* like any other.  Lines are joined without a separator, and white space  *)
(* is skipped, so a body is a sequence of characters.  Capital letters are *)
(* read as small ones.                                                     *)
(*                                                                         *)
(* run, x and y are u32, and a release build wraps them.                   *)
(***************************************************************************)
EXTENDS Integers, Sequences, FiniteSets

CONSTANTS
  WordSize,      \* 2^32 in the code
  Headers,       \* header lines a text may have
  Alphabet,      \* characters a body may have
  Readable(_)    \* bound: bodies that are read

(***************************************************************************)
(* A header line is what parse takes from it: two numbers, 0 when the key  *)
(* is missing and negative when the value is no u32, and a rule.           *)
(***************************************************************************)
ASSUME RleAssumption ==
  /\ WordSize \in Nat
  /\ WordSize > 9
  /\ Headers \subseteq [x : Int, y : Int, rule : {"none", "B3/S23", "other"}]
  /\ \A h \in Headers : h.x < WordSize /\ h.y < WordSize

VARIABLES
  parsing,         \* "header", "body", or the outcome
  width, height,   \* the declared box
  run, x, y,       \* the count read so far, and the pen
  cells,           \* the live cells so far
  body             \* the characters of the body read so far

rleVars == <<parsing, width, height, run, x, y, cells, body>>

Errors == {"MissingHeader", "UnsupportedRule", "UnexpectedChar", "OutOfBounds"}

Word == 0 .. WordSize - 1

RleTypeOK ==
  /\ parsing \in {"header", "body", "Ok"} \cup Errors
  /\ {width, height, run, x, y} \subseteq Word
  /\ cells \subseteq Word \X Word
  /\ body \in Seq(Alphabet)

RleInit ==
  /\ parsing = "header"
  /\ width = 0 /\ height = 0
  /\ run = 0 /\ x = 0 /\ y = 0
  /\ cells = {}
  /\ body = <<>>

-----------------------------------------------------------------------------
Digits == <<"0", "1", "2", "3", "4", "5", "6", "7", "8", "9">>

IsDigit(c) == \E d \in 0 .. 9 : Digits[d + 1] = c

DigitOf(c) == CHOOSE d \in 0 .. 9 : Digits[d + 1] = c

\* u32 arithmetic, and run.max(1).
Wrapped(n) == n % WordSize

Count == IF run = 0 THEN 1 ELSE run

-----------------------------------------------------------------------------
(***************************************************************************)
(* The header.                                                             *)
(***************************************************************************)
NoHeader ==
  /\ parsing = "header"
  /\ parsing' = "MissingHeader"
  /\ UNCHANGED <<width, height, run, x, y, cells, body>>

ReadHeader(h) ==
  /\ parsing = "header"
  /\ \/ /\ h.x <= 0 \/ h.y <= 0
        /\ parsing' = "MissingHeader"
        /\ UNCHANGED <<width, height>>
     \/ /\ h.x > 0 /\ h.y > 0 /\ h.rule = "other"
        /\ parsing' = "UnsupportedRule"
        /\ UNCHANGED <<width, height>>
     \/ /\ h.x > 0 /\ h.y > 0 /\ h.rule # "other"
        /\ parsing' = "body"
        /\ width' = h.x /\ height' = h.y
  /\ UNCHANGED <<run, x, y, cells, body>>

-----------------------------------------------------------------------------
(***************************************************************************)
(* The body.                                                               *)
(***************************************************************************)
Reads(c) ==
  /\ parsing = "body"
  /\ Readable(Append(body, c))
  /\ body' = Append(body, c)
  /\ UNCHANGED <<width, height>>

\* Fault: a count that does not wrap.
ReadDigitUnwrapped(c) ==
  /\ IsDigit(c)
  /\ Reads(c)
  /\ run' = run * 10 + DigitOf(c)
  /\ UNCHANGED <<parsing, x, y, cells>>

ReadDigit(c) ==
  /\ IsDigit(c)
  /\ Reads(c)
  /\ run' = Wrapped(run * 10 + DigitOf(c))
  /\ UNCHANGED <<parsing, x, y, cells>>

ReadDead(c) ==
  /\ c = "b"
  /\ Reads(c)
  /\ x' = Wrapped(x + Count)
  /\ run' = 0
  /\ UNCHANGED <<parsing, y, cells>>

\* The columns a run of live cells takes, and whether they are in the box.
Columns == {Wrapped(x + i) : i \in 0 .. Count - 1}

\* Fault: a box with room for one more column.
InBoxInclusive == y < height /\ \A px \in Columns : px <= width

InBox == y < height /\ \A px \in Columns : px < width

ReadAlive(c) ==
  /\ c = "o"
  /\ Reads(c)
  /\ \/ /\ InBox
        /\ cells' = cells \cup (Columns \X {y})
        /\ x' = Wrapped(x + Count)
        /\ run' = 0
        /\ UNCHANGED <<parsing, y>>
     \/ /\ ~InBox
        /\ parsing' = "OutOfBounds"
        /\ UNCHANGED <<run, x, y, cells>>

\* Fault: the pen stays in its column.
ReadLineEndKeepsColumn(c) ==
  /\ c = "$"
  /\ Reads(c)
  /\ y' = Wrapped(y + Count)
  /\ run' = 0
  /\ UNCHANGED <<parsing, x, cells>>

ReadLineEnd(c) ==
  /\ c = "$"
  /\ Reads(c)
  /\ y' = Wrapped(y + Count)
  /\ x' = 0
  /\ run' = 0
  /\ UNCHANGED <<parsing, cells>>

ReadSpace(c) ==
  /\ c = " "
  /\ Reads(c)
  /\ UNCHANGED <<parsing, run, x, y, cells>>

\* The pattern ends at its mark, whatever follows.
ReadEndMark(c) ==
  /\ c = "!"
  /\ Reads(c)
  /\ parsing' = "Ok"
  /\ UNCHANGED <<run, x, y, cells>>

ReadOther(c) ==
  /\ ~IsDigit(c)
  /\ c \notin {"b", "o", "$", " ", "!"}
  /\ Reads(c)
  /\ parsing' = "UnexpectedChar"
  /\ UNCHANGED <<run, x, y, cells>>

\* The text may end without a mark.
TextEnds ==
  /\ parsing = "body"
  /\ parsing' = "Ok"
  /\ UNCHANGED <<width, height, run, x, y, cells, body>>

ReadChar(c) ==
  \/ ReadDigit(c) \/ ReadDead(c) \/ ReadAlive(c) \/ ReadLineEnd(c)
  \/ ReadSpace(c) \/ ReadEndMark(c) \/ ReadOther(c)

RleNext ==
  \/ NoHeader
  \/ \E h \in Headers : ReadHeader(h)
  \/ \E c \in Alphabet : ReadChar(c)
  \/ TextEnds

-----------------------------------------------------------------------------
(***************************************************************************)
(* What a body means, from the format's description at the top of rle.rs:  *)
(* N b and N o are dead and live cells, N $ are line ends, a missing N     *)
(* means 1, and white space may stand anywhere.  There is no pen and no    *)
(* width of a number here: each tag's place is the number of tags before   *)
(* it, every one counted as often as it is repeated.                       *)
(***************************************************************************)
Tags == {"b", "o", "$"}

\* The digits right before position i.
DigitsBefore(s, i) ==
  {j \in 1 .. i - 1 : /\ IsDigit(s[j])
                      /\ \A k \in j .. i - 1 : IsDigit(s[k]) \/ s[k] = " "}

\* What a character makes of the number before it, and the number that the
\* digits up to each position spell.
Extended(n, c) ==
  CASE c = " "    -> n
    [] IsDigit(c) -> 10 * n + DigitOf(c)
    [] OTHER      -> 0

Number(s) ==
  LET value[i \in 0 .. Len(s)] ==
        IF i = 0 THEN 0 ELSE Extended(value[i - 1], s[i])
  IN  value

Times(s, i) == IF DigitsBefore(s, i) = {} THEN 1 ELSE Number(s)[i - 1]

\* The tags at some positions, each with its repetitions.
Repeats(s, positions) == UNION {{j} \X (1 .. Times(s, j)) : j \in positions}

\* The line and the column at which the tag at position i starts.
LineEndsBefore(s, i) == {j \in 1 .. i - 1 : s[j] = "$"}

CellsBefore(s, i) ==
  {j \in 1 .. i - 1 : s[j] \in {"b", "o"} /\ \A k \in j .. i - 1 : s[k] # "$"}

LineOf(s, i) == Cardinality(Repeats(s, LineEndsBefore(s, i)))

ColumnOf(s, i) == Cardinality(Repeats(s, CellsBefore(s, i)))

RunAt(s, i) == {<<ColumnOf(s, i) + k, LineOf(s, i)>> : k \in 0 .. Times(s, i) - 1}

Meaning(s) == UNION {RunAt(s, i) : i \in {j \in DOMAIN s : s[j] = "o"}}

\* A body as programs write it: no tag is repeated zero times, which parse
\* reads as once, and every number fits a word.
Plain(s) ==
  \A i \in {j \in DOMAIN s : s[j] \in Tags} :
    /\ Times(s, i) > 0
    /\ LineOf(s, i) + Times(s, i) < WordSize
    /\ ColumnOf(s, i) + Times(s, i) < WordSize

Box == (0 .. width - 1) \X (0 .. height - 1)

-----------------------------------------------------------------------------
(***************************************************************************)
(* Properties.                                                             *)
(***************************************************************************)

\* Whatever the text, also when a counter wraps: parse yields no cell
\* outside the declared box, and none without a box.
CellsInBox == cells \subseteq Box

\* The pen and its counters arrive at what the format says, and a pattern is
\* refused as out of bounds only if it is.
ParsesMeaning ==
  Plain(body) =>
    /\ parsing \in {"body", "Ok"} => cells = Meaning(body)
    /\ parsing = "OutOfBounds" => ~ (Meaning(body) \subseteq Box)
=============================================================================

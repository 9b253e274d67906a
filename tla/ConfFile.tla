------------------------------ MODULE ConfFile ------------------------------
(***************************************************************************)
(* Reading configuration files, key files and pass-phrase files, and       *)
(* writing the lines of the last two (I2util/conf.c, I2util/hex.c); numbers *)
(* with a suffix.                                                          *)
(*                                                                         *)
(* A parser reads the file character by character, and a client calls it   *)
(* until it returns no more than 0, passing it the row it returned; the    *)
(* programs that copy a file call it once more after 0.  A file has every  *)
(* content of some length, or is one that was written.                     *)
(* StoreEdit models what the editing programs do with the records, and     *)
(* which of them a query selects; here a query selects all or none.        *)
(***************************************************************************)
EXTENDS Integers, SequencesExt

CONSTANTS
    NameChars,    \* characters with no meaning
    HexDigits,    \* the hex digits, in order: fewer than 16
    KeyLen,       \* I2KEYLEN
    MaxIdentity,  \* I2MAXIDENTITYLEN
    VarSize,      \* max, the size of key and val
    Identities, PassPhrases, \* what is written
    NumBits,      \* bits of an I2numT
    Kilo, Kibi,   \* 1000 and 1024
    Numbers,      \* numbers that are parsed
    MaxText       \* bound: characters of a file

(* The multipliers fit in an I2numT, but for those of the last suffix.      *)
ASSUME ConfAssumption ==
    /\ KeyLen \in Nat \ {0} /\ MaxIdentity \in Nat \ {0} /\ VarSize \in Nat \ {0}
    /\ Kilo > 1 /\ Kibi > 1 /\ NumBits \in Nat /\ Numbers \subseteq Nat /\ MaxText \in Nat
    /\ 2^NumBits \in Nat /\ Kilo^7 \in Nat
    /\ Kilo^0 = 1 /\ Kibi^0 = 1
    /\ \A s \in 1..6 : {Kilo^s, Kibi^s} \subseteq 2..2^NumBits - 1
    /\ Kilo^7 > 2^NumBits /\ Kilo^7 % 2^NumBits > 0 /\ Kibi^7 = 2^NumBits

VARIABLES
    conf,   \* the call: what it parses, and its variables
    text,   \* the characters read so far, or since a call in the middle of a row
    ahead,  \* of a file that was written: those still to be read, and the record
    ended,  \* the end of the file was read
    num     \* I2StrToNum or I2StrToByte: its arguments and what came of it

confVars == <<conf, text, ahead, ended, num>>

Newline == "nl"
Comment == "#"
Space == "sp"
Backslash == "\\"
EOF == "EOF"
Hex == Range(HexDigits)
Kinds == {"conf", "key", "pf"}
(* A backslash is a character like others in key and pass-phrase files, a  *)
(* hex digit in configuration files.                                       *)
CharsOf(kind) == {Newline, Comment, Space} \cup NameChars
                    \cup (IF kind = "conf" THEN {Backslash} ELSE {HexDigits[1]})

(* The characters with a meaning are no others, a digit stands for one      *)
(* value, and what is written are bytes and a name, which has no white      *)
(* space and does not look like a comment.                                  *)
ASSUME CharsAssumption ==
    /\ (NameChars \cup Hex) \cap {Newline, Comment, Space, Backslash, EOF} = {}
    /\ HexDigits # <<>> /\ HexDigits \in Seq(Hex) /\ IsInjective(HexDigits)
    /\ \A id \in Identities :
         /\ id \in Seq(Range(id)) /\ id # <<>> /\ Head(id) # Comment
         /\ Range(id) \cap {Newline, Space, EOF} = {}
    /\ \A bytes \in PassPhrases :
         bytes \in Seq(0..Len(HexDigits) * Len(HexDigits) - 1)

NotWritten == [is |-> FALSE, text |-> <<>>, id |-> <<>>, bytes |-> <<>>]
NoNumber == [fn |-> "none", digits |-> 0, suffix |-> 0, outcome |-> "none", value |-> 0]
Idle == [kind |-> "none", copy |-> FALSE, at |-> "idle", row |-> 0, rc |-> 0, line |-> <<>>,
         ns |-> 0, tofp |-> <<>>, result |-> <<>>, oom |-> FALSE]

ConfTypeOK ==
    /\ conf.kind \in Kinds \cup {"none"} /\ conf.copy \in BOOLEAN
    /\ conf.at \in {"idle", "reading", "comment", "escape", "line", "returned"}
    /\ conf.row \in Nat /\ conf.rc \in Int /\ conf.ns \in Nat
    /\ Range(conf.line) \cap {Newline, EOF} = {}
    /\ conf.line # <<>> => Head(conf.line) # Space
    /\ Len(text) <= MaxText \/ ahead.is
    /\ ended \in BOOLEAN
    /\ num.fn \in {"none", "I2StrToNum", "I2StrToByte"} /\ num.value \in 0..2^NumBits - 1
    /\ num.outcome \in {"none", "accepted", "refused", "killed"}

ConfInit == conf = Idle /\ text = <<>> /\ ahead = NotWritten /\ ended = FALSE /\ num = NoNumber
-----------------------------------------------------------------------------
(* fgetc(): the next character, EOF after the last one.                     *)
Getc(c) ==
    /\ IF ahead.is
       THEN c = IF ahead.text = <<>> THEN EOF ELSE Head(ahead.text)
       ELSE c = EOF \/ (~ended /\ Len(text) < MaxText /\ c \in CharsOf(conf.kind))
    /\ ahead' = IF ahead.is /\ c # EOF THEN [ahead EXCEPT !.text = Tail(@)] ELSE ahead
    /\ text' = IF c = EOF THEN text ELSE Append(text, c)
    /\ ended' = (ended \/ c = EOF)
    /\ UNCHANGED num

Records == conf.kind \in {"key", "pf"}
Copied(s) == IF conf.copy THEN conf.tofp \o s ELSE conf.tofp
ReturnRow(rc) == conf' = [conf EXCEPT !.at = "returned", !.rc = rc]

(* A call is made for the first record, or for the one after rc.  After 0   *)
(* the rest is copied (pfstore.c:290, aespasswd.c:300), from where the file *)
(* is: in the middle of its first row, if that was not the end of the file. *)
(* (If memory ran out there, the call would use the buffer that is gone.)   *)
CallParser ==
    /\ \/ conf = Idle /\ num = NoNumber
       \/ conf.at = "returned" /\ conf.rc > 0
       \/ conf.at = "returned" /\ conf.rc = 0 /\ ~ended /\ conf.copy /\ ~conf.oom
    /\ \E kind \in Kinds, copy \in BOOLEAN :
        /\ IF conf = Idle THEN ahead.is => kind # "conf"
           ELSE kind = conf.kind /\ copy = conf.copy
        /\ kind = "conf" \/ ahead.is => ~copy
        /\ ahead.is /\ kind = "key" => Len(ahead.bytes) = KeyLen
        /\ conf' = [Idle EXCEPT !.kind = kind, !.copy = copy, !.at = "reading",
                                !.row = conf.rc, !.rc = conf.rc]
    /\ text' = IF conf.rc = 0 THEN <<>> ELSE text
    /\ UNCHANGED <<ahead, ended, num>>
-----------------------------------------------------------------------------
(* I2GetConfLine and parsefileline, one character a step.                   *)

EndLine ==
    /\ conf.at = "reading" /\ Getc(Newline)
    /\ conf' = IF conf.line # <<>>
               THEN [conf EXCEPT !.rc = @ + 1, !.at = "line"]
               ELSE [conf EXCEPT !.rc = @ + 1, !.ns = 0, !.tofp = Copied(<<Newline>>)]

StartComment ==
    /\ conf.at = "reading" /\ conf.line = <<>> /\ Getc(Comment)
    /\ conf' = [conf EXCEPT !.at = "comment",
                            !.tofp = Copied([k \in 1..conf.ns |-> Space] \o <<Comment>>)]

(* parsefileline keeps ns: the next line counts as indented, too. *)
InComment ==
    /\ conf.at = "comment"
    /\ \E c \in CharsOf(conf.kind) :
         /\ Getc(c)
         /\ conf' = [conf EXCEPT !.tofp = Copied(<<c>>),
                                 !.at = IF c = Newline THEN "reading" ELSE @,
                                 !.rc = IF c = Newline THEN @ + 1 ELSE @]

LeadingSpace ==
    /\ conf.at = "reading" /\ conf.line = <<>> /\ Getc(Space)
    /\ conf' = [conf EXCEPT !.ns = IF Records THEN @ + 1 ELSE @]

Plain(c) ==
    /\ c \notin {Newline, EOF} /\ (conf.kind = "conf" => c # Backslash)
    /\ conf.line = <<>> => c \notin {Comment, Space}

(* Leading blanks are for comments only. *)
Indented ==
    /\ conf.at = "reading" /\ conf.ns > 0
    /\ \E c \in CharsOf(conf.kind) : Plain(c) /\ Getc(c)
    /\ ReturnRow(-conf.rc)

CopyChar ==
    /\ conf.at = "reading" /\ conf.ns = 0
    /\ \E c \in CharsOf(conf.kind) \cup Hex :
         Plain(c) /\ Getc(c) /\ conf' = [conf EXCEPT !.line = Append(@, c)]

(* The caller's buffer may have any size, so any character may need more.   *)
OutOfLineMemory ==
    /\ conf.at = "reading" /\ conf.ns = 0
    /\ \E c \in CharsOf(conf.kind) : Plain(c) /\ Getc(c)
    /\ conf' = [conf EXCEPT !.at = "returned", !.rc = -@, !.line = <<>>, !.oom = TRUE]

StartEscape ==
    /\ conf.at = "reading" /\ conf.kind = "conf" /\ Getc(Backslash)
    /\ conf' = [conf EXCEPT !.at = "escape"]

(* Mutant: a continuation is not counted as a line. *)
Continuation_NoRow ==
    /\ conf.at = "escape" /\ Getc(Newline)
    /\ conf' = [conf EXCEPT !.at = "reading"]

Continuation ==
    /\ conf.at = "escape" /\ Getc(Newline)
    /\ conf' = [conf EXCEPT !.at = "reading", !.rc = @ + 1]

BadEscape ==
    /\ conf.at = "escape"
    /\ \E c \in CharsOf("conf") \cup {EOF} : c # Newline /\ Getc(c)
    /\ ReturnRow(-conf.rc)

EndFile ==
    /\ conf.at \in {"reading", "comment"} /\ Getc(EOF)
    /\ IF conf.line = <<>> THEN ReturnRow(0)
       ELSE conf' = [conf EXCEPT !.rc = @ + 1, !.at = "line"]
-----------------------------------------------------------------------------
(* The n-th of a set of positions. *)
Nth(places, n) == CHOOSE k \in places : Cardinality({j \in places : j <= k}) = n

(* What a line means.  strtok() with I2WSPACESET gives its tokens.          *)
Tokens(line) ==
    LET starts == {k \in DOMAIN line : line[k] # Space /\ (k = 1 \/ line[k - 1] = Space)}
        End(k) == Max({j \in k..Len(line) : \A i \in k..j : line[i] # Space})
    IN [n \in 1..Cardinality(starts) |-> SubSeq(line, Nth(starts, n), End(Nth(starts, n)))]
Says(token) == Head(token) # Comment

(* hex.c: two digits a byte. *)
Base == Len(HexDigits)
Value(digit) == CHOOSE v \in 0..Base - 1 : HexDigits[v + 1] = digit
I2HexEncode(bytes) ==
    [k \in 1..2 * Len(bytes) |->
       LET byte == bytes[(k + 1) \div 2]
       IN HexDigits[(IF k % 2 = 1 THEN byte \div Base ELSE byte % Base) + 1]]
(* Mutant: the digits of a byte are swapped. *)
HexDecoded_Swapped(digits) ==
    [k \in 1..Len(digits) \div 2 |-> Base * Value(digits[2 * k]) + Value(digits[2 * k - 1])]
HexDecoded(digits) ==
    [k \in 1..Len(digits) \div 2 |-> Base * Value(digits[2 * k - 1]) + Value(digits[2 * k])]
I2HexDecode(digits) == IF Range(digits) \subseteq Hex THEN <<HexDecoded(digits)>> ELSE <<>>

(* The key and the value of a variable; <<>> if the line is refused. *)
VarOf(line) ==
    LET t == Tokens(line)
        fits(k) == Len(t[k]) + 1 <= VarSize
    IN IF ~fits(1) THEN <<>>
       ELSE IF Len(t) = 1 \/ ~Says(t[2]) THEN <<t[1], <<>>>>
       ELSE IF fits(2) /\ (Len(t) > 2 => ~Says(t[3])) THEN <<t[1], t[2]>>
       ELSE <<>>

(* An identity and a key of I2KEYLEN bytes, and perhaps a comment. *)
KeyOf(line) ==
    LET t == Tokens(line)
    IN IF /\ Len(t[1]) <= MaxIdentity
          /\ Len(t) > 1 /\ Len(t[2]) = 2 * KeyLen
          /\ Len(t) > 2 => ~Says(t[3])
          /\ I2HexDecode(t[2]) # <<>>
       THEN <<t[1], I2HexDecode(t[2])[1]>> ELSE <<>>

(* An identity and bytes, and nothing more. *)
PFOf(line) ==
    LET t == Tokens(line)
    IN IF Len(t) = 2 /\ Len(t[2]) % 2 = 0 /\ I2HexDecode(t[2]) # <<>>
       THEN <<t[1], I2HexDecode(t[2])[1]>> ELSE <<>>

CopyLine == [conf EXCEPT !.at = "reading", !.line = <<>>, !.ns = 0,
                         !.tofp = Copied(Append(conf.line, Newline))]
Result(record) ==
    IF record = <<>> THEN [conf EXCEPT !.at = "returned", !.rc = -@]
    ELSE [conf EXCEPT !.at = "returned", !.result = record]

I2ReadConfVar ==
    /\ conf.at = "line" /\ conf.kind = "conf"
    /\ conf' = Result(VarOf(conf.line))
    /\ UNCHANGED <<text, ahead, ended, num>>

(* A line that is not asked for is validated before it is copied ...        *)
I2ParseKeyFile ==
    /\ conf.at = "line" /\ conf.kind = "key"
    /\ conf' = IF conf.copy /\ KeyOf(conf.line) # <<>> THEN CopyLine
               ELSE Result(KeyOf(conf.line))
    /\ UNCHANGED <<text, ahead, ended, num>>

(* ... here only that there is white space after its identity. *)
I2ParsePFFile ==
    /\ conf.at = "line" /\ conf.kind = "pf"
    /\ conf' = IF conf.copy /\ Space \in Range(conf.line) THEN CopyLine
               ELSE Result(PFOf(conf.line))
    /\ UNCHANGED <<text, ahead, ended, num>>

(* The bytes go behind the line, in a buffer that may have to grow. *)
OutOfResultMemory ==
    /\ conf.at = "line" /\ conf.kind = "pf" /\ ~conf.copy
    /\ LET t == Tokens(conf.line) IN Len(t) = 2 /\ Len(t[2]) % 2 = 0
    /\ conf' = [conf EXCEPT !.at = "returned", !.rc = -@, !.line = <<>>, !.oom = TRUE]
    /\ UNCHANGED <<text, ahead, ended, num>>
-----------------------------------------------------------------------------
Line(id, bytes) == id \o <<Space>> \o I2HexEncode(bytes) \o <<Newline>>

(* A record is written to a new file.  I2WriteKeyLine refuses long names    *)
(* and keys have I2KEYLEN bytes; I2WritePFLine takes any name and any bytes. *)
WriteLine ==
    /\ conf = Idle /\ ~ahead.is /\ num = NoNumber
    /\ \E id \in Identities, bytes \in PassPhrases :
         ahead' = [is |-> TRUE, text |-> Line(id, bytes), id |-> id, bytes |-> bytes]
    /\ UNCHANGED <<conf, text, ended, num>>
-----------------------------------------------------------------------------
(*                               Numbers                                   *)

Modulus == 2^NumBits
Unit(fn) == IF fn = "I2StrToNum" THEN Kilo ELSE Kibi
(* strtoull() gives the largest number for one that is larger. *)
Saturated(digits) == Min({digits, Modulus - 1})

(* Mutant: the product is taken as it comes. *)
Multiplied_Unchecked(ret, mult) ==
    {[outcome |-> "accepted", value |-> (ret * mult) % Modulus]}

(* The product, and whether it overflowed: dividing gives ret back.  When   *)
(* the multiplier has wrapped to 0 the division by it is undefined: the     *)
(* process is killed, or the processor gives a quotient that is not ret.    *)
Multiplied(ret, mult) ==
    LET value == (ret * mult) % Modulus
    IN [outcome : IF mult = 0 THEN {"killed", "refused"}
                  ELSE IF value \div mult # ret THEN {"refused"} ELSE {"accepted"},
        value : {value}]

(* Suffixes k, m, g, t, p, e, z multiply by Kilo or Kibi 1 to 7 times, in   *)
(* an I2numT.                                                               *)
StrTo ==
    /\ conf = Idle /\ ~ahead.is /\ num = NoNumber
    /\ \E digits \in Numbers, suffix \in 0..7, fn \in {"I2StrToNum", "I2StrToByte"} :
         \E p \in IF digits = 0 THEN {[outcome |-> "accepted", value |-> 0]}
                  ELSE Multiplied(Saturated(digits), Unit(fn)^suffix % Modulus) :
           num' = [fn |-> fn, digits |-> digits, suffix |-> suffix,
                   outcome |-> p.outcome, value |-> p.value]
    /\ UNCHANGED <<conf, text, ahead, ended>>

ReadStep ==
    \/ EndLine \/ StartComment \/ InComment \/ LeadingSpace \/ Indented \/ CopyChar
    \/ OutOfLineMemory \/ StartEscape \/ Continuation \/ BadEscape \/ EndFile

ConfNext ==
    \/ CallParser \/ ReadStep
    \/ I2ReadConfVar \/ I2ParseKeyFile \/ I2ParsePFFile \/ OutOfResultMemory
    \/ WriteLine \/ StrTo

ConfSpec == ConfInit /\ [][ConfNext]_confVars
-----------------------------------------------------------------------------
(*                              Properties                                 *)

(* The rows of what was read, without their newlines; the last one has not  *)
(* ended, and may be empty.                                                 *)
Rows(s) ==
    LET breaks == {k \in DOMAIN s : s[k] = Newline}
        last == Cardinality(breaks) + 1
        Start(n) == IF n = 1 THEN 1 ELSE Nth(breaks, n - 1) + 1
        Stop(n) == IF n = last THEN Len(s) ELSE Nth(breaks, n) - 1
    IN [n \in 1..last |-> SubSeq(s, Start(n), Stop(n))]

Ink(row) == {k \in DOMAIN row : row[k] # Space}
Inked(row) == [n \in 1..Cardinality(Ink(row)) |-> row[Nth(Ink(row), n)]]
IsComment(row) == Ink(row) # {} /\ row[Min(Ink(row))] = Comment
IsIndented(row) == Ink(row) # {} /\ row[1] = Space
Trimmed(row) == IF Ink(row) = {} THEN <<>> ELSE SubSeq(row, Min(Ink(row)), Len(row))
IsContinued(kind, row) == kind = "conf" /\ row # <<>> /\ Last(row) = Backslash
Body(kind, row) == IF IsContinued(kind, row) THEN Front(row) ELSE row
IsBlank(kind, rows, n) ==
    \/ Ink(rows[n]) = {}
    \/ n < Len(rows) /\ IsContinued(kind, rows[n]) /\ Trimmed(rows[n]) = <<Backslash>>
Holds(kind, rows, n) == ~IsBlank(kind, rows, n) /\ ~IsComment(rows[n])

(* The line that rows f to l make, and what becomes of a row that is copied. *)
LineOf(kind, rows, f, l) ==
    Trimmed(Body(kind, rows[f]))
      \o FlattenSeq([k \in 1..l - f |-> Body(kind, rows[f + k])])
Kept(kind, rows, n) ==
    LET row == IF IsBlank(kind, rows, n) THEN <<>> ELSE rows[n]
    IN IF n < Len(rows) \/ Holds(kind, rows, n) THEN Append(row, Newline) ELSE row

(* Blanks were counted before row n: its own, or those of a comment before  *)
(* it with nothing but comments in between.                                 *)
Spaced(rows, from, n) ==
    \E i \in from + 1..n :
        /\ rows[i] # <<>> /\ rows[i][1] = Space
        /\ \A k \in i..n - 1 : IsComment(rows[k])

(* A backslash before something else than the end of the row.               *)
Escapes(row) ==
    \/ Len(row) > 1 /\ row[Len(row) - 1] = Backslash
    \/ ended /\ row # <<>> /\ Last(row) = Backslash

(* What the comments before the functions and the man pages call valid: a   *)
(* key and perhaps a value that fit, and perhaps a comment; an identity and *)
(* a key of the right length, and perhaps a comment; an identity and the    *)
(* bytes of a pass-phrase.                                                  *)
WellFormed(kind, line) ==
    LET word == Tokens(line)
        remark(k) == k > Len(word) \/ ~Says(word[k])
        fits(k) == Len(word[k]) + 1 <= VarSize
        hex(k) == Range(word[k]) \subseteq Hex
    IN \/ kind = "conf" /\ fits(1) /\ (remark(2) \/ (fits(2) /\ remark(3)))
       \/ /\ kind = "key" /\ Len(word) >= 2 /\ Len(word[1]) <= MaxIdentity
          /\ hex(2) /\ Len(word[2]) = 2 * KeyLen /\ remark(3)
       \/ kind = "pf" /\ Len(word) = 2 /\ hex(2) /\ Len(word[2]) % 2 = 0

(* A pass-phrase that is not asked for need only be separated.              *)
CanBeCopied(kind, row) ==
    IF kind = "key" THEN WellFormed(kind, row) ELSE Space \in Range(row)

(* Every call gives the next record of the file: the first row that is      *)
(* neither blank nor a comment, without leading blanks, with the rows that  *)
(* continue it, and it says in which row that ends (conf.c:47: "remove      *)
(* leading whitespace, skip blank lines and comment lines").  What it gives *)
(* is well-formed, and it fails for one of two reasons.  The record is      *)
(* malformed, and the row is reported.  Or it gets stuck in a row, at a bad *)
(* escape, or, in key and pass-phrase files, where blanks were counted      *)
(* (conf.c:318): its own or those of a comment before it.  The row before   *)
(* is reported then; in the first row that is 0, as at the end of the file. *)
(*                                                                          *)
(* Rows that are not asked for are copied to the new file, with the         *)
(* comments, and none is lost; blank rows lose their blanks, and an         *)
(* indented comment adds its own to the next one.                           *)
RecordsAreTheLines ==
    LET rows == Rows(text)
        held == {n \in DOMAIN rows : n > conf.row /\ Holds(conf.kind, rows, n)}
        first == Min(held)
        last == Min({n \in first..Len(rows) :
                       ~IsContinued(conf.kind, rows[n]) \/ n = Len(rows)})
        line == LineOf(conf.kind, rows, first, last)
        kept == FlattenSeq([n \in DOMAIN rows |-> Kept(conf.kind, rows, n)])
        stuck == IF Records
                 THEN /\ Len(rows) \in held /\ (conf.copy \/ first = Len(rows))
                      /\ Spaced(rows, conf.row, Len(rows))
                 ELSE Escapes(rows[Len(rows)])
    IN conf.at = "returned" /\ ~conf.oom =>
         /\ conf.rc > 0 => /\ held # {} /\ conf.rc = last /\ ~conf.copy
                           /\ conf.line = line /\ WellFormed(conf.kind, line)
                           /\ Records => ~Spaced(rows, conf.row, first)
         /\ conf.rc < 0 => held # {}
         /\ conf.rc <= 0 =>
              \/ conf.rc = 0 /\ ended /\ (conf.copy \/ held = {})
              \/ conf.rc = 1 - Len(rows) /\ stuck
              \/ conf.rc = -last /\ ~conf.copy /\ ~WellFormed(conf.kind, line)
              \/ conf.copy /\ \E n \in held :
                                  conf.rc = -n /\ ~CanBeCopied(conf.kind, rows[n])
         /\ conf.copy /\ conf.rc = 0 /\ ended =>
              /\ Inked(conf.tofp) = Inked(kept)
              /\ (\A n \in DOMAIN rows : IsComment(rows[n]) => ~IsIndented(rows[n]))
                   => conf.tofp = kept

(* A record that was written is read back: its name and its bytes.  (An     *)
(* empty pass phrase and a name that is too long for I2WriteKeyLine are     *)
(* not.)                                                                    *)
WrittenIsRead ==
    ahead.is /\ conf.at = "returned" /\ ~conf.oom /\ conf.row = 0 /\ ahead.bytes # <<>>
      /\ (conf.kind = "key" => Len(ahead.id) <= MaxIdentity) =>
        conf.rc = 1 /\ conf.result = <<ahead.id, ahead.bytes>>

(* Every number that fits in an I2numT is accepted and exact, for every     *)
(* suffix.  One that does not fit is accepted in two cases only: digits     *)
(* without a suffix, which are cut to the largest number (strtoull), and    *)
(* suffix z of I2StrToNum, whose multiplier has wrapped.  Only I2StrToByte  *)
(* with suffix z is killed (conf.c:957).                                    *)
NumbersAreExact ==
    LET factor == Unit(num.fn)^num.suffix
        written == num.digits * factor
        fits == written < Modulus
    IN num.outcome # "none" =>
         /\ fits => num.outcome = "accepted" /\ num.value = written
         /\ num.outcome = "accepted" /\ ~fits =>
              \/ factor = 1 /\ num.value = Modulus - 1
              \/ /\ num.fn = "I2StrToNum" /\ num.suffix = 7
                 /\ num.value = Saturated(num.digits) * (factor % Modulus)
         /\ num.outcome = "killed" =>
              num.fn = "I2StrToByte" /\ num.suffix = 7 /\ num.digits # 0
=============================================================================

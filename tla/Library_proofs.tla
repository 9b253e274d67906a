--------------------------- MODULE Library_proofs ---------------------------
(***************************************************************************)
(* What was proved of each part holds of the library: its behaviours are,  *)
(* for each part, those of a client that uses only it (PartsAlone).        *)
(*                                                                         *)
(* The parsers' part is proved here.  Numbers: a product that was cut does *)
(* not give the number back when it is divided, so the check of I2StrToNum *)
(* finds every one.  Types: every step of a parser makes of the call       *)
(* another one (Became), with a line that holds no newline and starts with *)
(* no space, and reads at most one character.                              *)
(*                                                                         *)
(* Records: a character that is read changes the last row or starts one    *)
(* (GrownBy), and RecordInv says of a call that reads what it has made of  *)
(* the rows so far: how many it counted, where it is in the last one,      *)
(* which it skipped, the line it gathered and what it copied.  Each action *)
(* keeps these (lemmas ...Keeps).  A copy has the ink of the rows, the     *)
(* characters that are no blanks, and their blanks too as far as no        *)
(* comment is indented (Same, Tidy).                                       *)
(*                                                                         *)
(* Written lines: WrittenInv says how much of the line was read (AtPlace); *)
(* the tokens of the whole line are the name and the digits, and decoding  *)
(* them gives the bytes.                                                   *)
(***************************************************************************)
EXTENDS FiniteSetTheorems, Library, ReliableIO_proofs, ReadPassPhrase_proofs, Digest_proofs

-----------------------------------------------------------------------------
(*                                 Numbers                                 *)

LEMMA Widths ==
    /\ Modulus \in Nat /\ 0 \in 0..Modulus - 1 /\ Numbers \subseteq Nat
    /\ Kilo^0 = 1 /\ Kibi^0 = 1
    /\ \A s \in 1..6 : Kilo^s \in 2..Modulus - 1 /\ Kibi^s \in 2..Modulus - 1
    /\ Kilo^7 \in Nat /\ Kilo^7 > Modulus /\ Kilo^7 % Modulus > 0 /\ Kibi^7 = Modulus
<1>1. /\ 2^NumBits \in Nat /\ Kilo^7 \in Nat /\ Kibi^7 = 2^NumBits /\ Numbers \subseteq Nat
      /\ Kilo^0 = 1 /\ Kibi^0 = 1 /\ Kilo^7 > 2^NumBits /\ Kilo^7 % 2^NumBits > 0
      /\ \A s \in 1..6 : {Kilo^s, Kibi^s} \subseteq 2..2^NumBits - 1
  BY ConfAssumption
<1>2. \A s \in 1..6 : Kilo^s \in 2..2^NumBits - 1 /\ Kibi^s \in 2..2^NumBits - 1
  BY <1>1
<1>3. 0 \in 0..2^NumBits - 1
  <2>1. 1 \in 1..6
    OBVIOUS
  <2>2. Kilo^1 \in 2..2^NumBits - 1
    BY <1>2, <2>1
  <2> QED BY <1>1, <2>2
<1> QED BY <1>1, <1>2, <1>3 DEF Modulus

(* The check of the product (conf.c:957): what divides back to ret was not cut. *)
LEMMA DividesBack ==
    ASSUME NEW ret \in Nat, NEW mult \in Nat \ {0}, NEW M \in Nat \ {0},
           ((ret * mult) % M) \div mult = ret
    PROVE  (ret * mult) % M = ret * mult
<1> DEFINE p == ret * mult
           v == p % M
<1>1. p \in Nat
  OBVIOUS
<1>2. v \in Nat /\ v <= p
  <2> HIDE DEF p
  <2>1. v \in 0..M - 1 /\ p \div M \in Nat /\ p = M * (p \div M) + v
    BY <1>1
  <2>2. M * (p \div M) \in Nat
    BY <2>1
  <2> QED BY <1>1, <2>1, <2>2
<1>3. v \div mult = ret
  OBVIOUS
<1> HIDE DEF v
<1>4. v % mult \in Nat /\ v = mult * (v \div mult) + (v % mult)
  BY <1>2
<1>5. mult * ret = p
  OBVIOUS
<1> HIDE DEF p
<1>6. v >= p
  BY <1>1, <1>2, <1>3, <1>4, <1>5
<1> QED BY <1>1, <1>2, <1>6 DEF v, p

(* What was not cut divides back. *)
LEMMA Quotient ==
    ASSUME NEW ret \in Nat, NEW mult \in Nat \ {0}
    PROVE  (ret * mult) \div mult = ret
<1> DEFINE p == ret * mult
           q == p \div mult
           r == p % mult
<1>1. p \in Nat
  OBVIOUS
<1>2. q \in Nat /\ r \in 0..mult - 1 /\ p = mult * q + r
  <2> HIDE DEF p
  <2> QED BY <1>1
<1> HIDE DEF q, r
<1>3. CASE q < ret
  <2>1. PICK d \in Nat : ret = q + 1 + d
    <3>1. ret - q - 1 \in Nat /\ ret = q + 1 + (ret - q - 1)
      BY <1>2, <1>3
    <3> QED BY <3>1
  <2>2. ret * mult = mult * q + mult + d * mult /\ d * mult \in Nat
    BY <1>2, <2>1
  <2> QED BY <1>2, <2>2
<1>4. CASE q > ret
  <2>1. PICK d \in Nat : q = ret + 1 + d
    <3>1. q - ret - 1 \in Nat /\ q = ret + 1 + (q - ret - 1)
      BY <1>2, <1>4
    <3> QED BY <3>1
  <2>2. mult * q = ret * mult + mult + mult * d /\ mult * d \in Nat
    BY <1>2, <2>1
  <2> QED BY <1>1, <1>2, <2>2
<1> QED BY <1>2, <1>3, <1>4 DEF q

(* The factor of every suffix, and what is left of it in an I2numT. *)
LEMMA Factors ==
    ASSUME NEW fn \in {"I2StrToNum", "I2StrToByte"}, NEW suffix \in 0..7
    PROVE  LET factor == Unit(fn)^suffix
               mult == factor % Modulus
           IN /\ factor \in Nat \ {0} /\ mult \in Nat
              /\ suffix = 0 => factor = 1 /\ mult = 1
              /\ suffix \in 1..6 => factor > 1 /\ factor < Modulus /\ mult = factor
              /\ suffix = 7 => factor >= Modulus
              /\ suffix # 7 \/ fn = "I2StrToNum" => mult # 0
              /\ fn = "I2StrToByte" /\ suffix = 7 => mult = 0
<1> DEFINE factor == Unit(fn)^suffix
<1>1. Modulus \in Nat /\ Modulus > 2
  <2>1. 1 \in 1..6 /\ Kilo^1 \in 2..Modulus - 1
    BY Widths
  <2> QED BY <2>1, Widths
<1>2. /\ suffix = 0 => factor = 1
      /\ suffix \in 1..6 => factor \in 2..Modulus - 1
      /\ suffix = 7 => factor \in Nat /\ factor >= Modulus
      /\ fn = "I2StrToByte" /\ suffix = 7 => factor = Modulus
      /\ fn = "I2StrToNum" /\ suffix = 7 => factor % Modulus > 0
  <2>1. CASE suffix = 0
    BY <2>1, Widths DEF Unit
  <2>2. CASE suffix \in 1..6
    BY <2>2, Widths DEF Unit
  <2>3. CASE suffix = 7
    BY <1>1, <2>3, Widths DEF Unit
  <2> QED BY <2>1, <2>2, <2>3
<1> HIDE DEF factor
<1>3. suffix = 0 \/ suffix \in 1..6 \/ suffix = 7
  OBVIOUS
<1>4. factor \in Nat \ {0}
  BY <1>1, <1>2, <1>3
<1>5. /\ factor % Modulus \in Nat
      /\ factor < Modulus => factor % Modulus = factor
      /\ factor = Modulus => factor % Modulus = 0
  BY <1>1, <1>4
<1> QED BY <1>1, <1>2, <1>3, <1>4, <1>5 DEF factor

LEMMA Parsed ==
    ASSUME StrTo
    PROVE  /\ num'.fn \in {"I2StrToNum", "I2StrToByte"} /\ num'.value \in 0..2^NumBits - 1
           /\ num'.outcome \in {"accepted", "refused", "killed"}
           /\ NumbersAreExact'
<1>1. PICK digits \in Numbers, suffix \in 0..7, fn \in {"I2StrToNum", "I2StrToByte"} :
        \E p \in IF digits = 0 THEN {[outcome |-> "accepted", value |-> 0]}
                  ELSE Multiplied(Saturated(digits), Unit(fn)^suffix % Modulus) :
          num' = [fn |-> fn, digits |-> digits, suffix |-> suffix,
                  outcome |-> p.outcome, value |-> p.value]
  BY DEF StrTo
<1>2. PICK p \in IF digits = 0 THEN {[outcome |-> "accepted", value |-> 0]}
                 ELSE Multiplied(Saturated(digits), Unit(fn)^suffix % Modulus) :
        num' = [fn |-> fn, digits |-> digits, suffix |-> suffix,
                outcome |-> p.outcome, value |-> p.value]
  BY <1>1
<1> DEFINE factor == Unit(fn)^suffix
           mult == factor % Modulus
           ret == Saturated(digits)
           written == digits * factor
           v == (ret * mult) % Modulus
<1>3. Modulus \in Nat \ {0} /\ digits \in Nat /\ Modulus - 1 \in Nat
  BY Widths
<1>4. ret = IF digits <= Modulus - 1 THEN digits ELSE Modulus - 1
  BY <1>3, MinOfTwo DEF Saturated
<1>5. /\ factor \in Nat \ {0} /\ mult \in Nat
      /\ suffix = 0 => factor = 1 /\ mult = 1
      /\ suffix \in 1..6 => factor > 1 /\ factor < Modulus /\ mult = factor
      /\ suffix = 7 => factor >= Modulus
      /\ suffix # 7 \/ fn = "I2StrToNum" => mult # 0
      /\ fn = "I2StrToByte" /\ suffix = 7 => mult = 0
  BY Factors
<1>6. /\ digits = 0 => p.outcome = "accepted" /\ p.value = 0
      /\ digits # 0 => /\ p.value = v
                       /\ p.outcome \in IF mult = 0 THEN {"killed", "refused"}
                                        ELSE IF v \div mult # ret THEN {"refused"}
                                        ELSE {"accepted"}
  BY <1>2 DEF Multiplied
<1>7. /\ num'.fn = fn /\ num'.digits = digits /\ num'.suffix = suffix
      /\ num'.outcome = p.outcome /\ num'.value = p.value
  BY <1>2
<1> DEFINE fits == written < Modulus
<1> HIDE DEF factor, mult, ret
<1>8. ret \in Nat /\ ret * mult \in Nat /\ v \in 0..Modulus - 1 /\ written \in Nat
  BY <1>3, <1>4, <1>5
<1>9. p.value \in 0..Modulus - 1
      /\ p.outcome \in {"accepted", "refused", "killed"}
  BY <1>3, <1>6, <1>8
<1>10. ASSUME fits PROVE p.outcome = "accepted" /\ p.value = written
  <2>1. CASE digits = 0
    BY <1>5, <1>6, <2>1
  <2>2. CASE digits # 0
    <3>1. written >= factor /\ written >= digits
      <4>1. PICK d \in Nat, f \in Nat : digits = d + 1 /\ factor = f + 1
        <5>1. digits - 1 \in Nat /\ factor - 1 \in Nat
          BY <1>3, <1>5, <2>2
        <5> QED BY <1>3, <1>5, <5>1
      <4>2. written = d * f + d + f + 1 /\ d * f \in Nat
        BY <4>1
      <4> QED BY <4>1, <4>2
    <3>2. ret = digits /\ suffix # 7 /\ factor < Modulus
      BY <1>3, <1>4, <1>5, <1>8, <1>10, <3>1
    <3>3. mult = factor
      <4>1. suffix = 0 \/ suffix \in 1..6
        BY <3>2
      <4> QED BY <1>5, <4>1
    <3>4. ret * mult = written /\ written \in 0..Modulus - 1
      BY <1>3, <1>8, <1>10, <3>2, <3>3
    <3>5. v = ret * mult
      BY <1>3, <3>4
    <3>6. v \div mult = ret
      BY <1>5, <1>8, <3>3, <3>5, Quotient
    <3> QED BY <1>5, <1>6, <2>2, <3>3, <3>4, <3>5, <3>6
  <2> QED BY <2>1, <2>2
<1>11. ASSUME p.outcome = "accepted", ~fits
       PROVE  \/ factor = 1 /\ p.value = Modulus - 1
              \/ fn = "I2StrToNum" /\ suffix = 7 /\ p.value = ret * mult
  <2>1. digits # 0
    BY <1>3, <1>5, <1>11
  <2>2. p.value = v /\ mult # 0 /\ v \div mult = ret
    BY <1>6, <1>11, <2>1
  <2>3. v = ret * mult
    BY <1>3, <1>5, <1>8, <2>2, DividesBack
  <2>4. CASE suffix = 7
    BY <1>5, <2>2, <2>3, <2>4
  <2>5. CASE suffix = 0
    <3>1. factor = 1 /\ mult = 1 /\ written = digits
      BY <1>3, <1>5, <2>5
    <3>2. ret = Modulus - 1
      BY <1>3, <1>4, <1>11, <3>1
    <3> QED BY <1>3, <2>2, <2>3, <3>1, <3>2
  <2>6. CASE suffix \in 1..6
    <3>1. mult = factor /\ factor > 1
      BY <1>5, <2>6
    <3>2. ret # digits
      <4>1. v < Modulus /\ ~(digits * factor < Modulus)
        BY <1>3, <1>8, <1>11
      <4> QED BY <2>3, <3>1, <4>1, Zenon
    <3>3. ret = Modulus - 1 /\ Modulus > 1
      BY <1>3, <1>4, <1>5, <2>6, <3>2
    <3>4. PICK f \in Nat : mult = f + 2
      <4>1. mult - 2 \in Nat
        BY <1>5, <3>1
      <4> QED BY <1>5, <4>1
    <3>5. v = 2 * ret + f * ret /\ f * ret \in Nat
      BY <1>8, <2>3, <3>4
    <3> QED BY <1>3, <1>8, <3>3, <3>5
  <2> QED BY <2>4, <2>5, <2>6
<1>12. ASSUME p.outcome = "killed"
       PROVE  fn = "I2StrToByte" /\ suffix = 7 /\ digits # 0
  BY <1>5, <1>6, <1>12
<1> QED BY <1>7, <1>9, <1>10, <1>11, <1>12 DEF NumbersAreExact, factor, mult, ret, Modulus
-----------------------------------------------------------------------------
(*                          Types of the parsers                           *)

ConfChar == CharsOf("conf") \cup CharsOf("key") \cup Hex
LineChar == ConfChar \ {Newline, EOF}
Places == {"idle", "reading", "comment", "escape", "line", "returned"}

ConfIsRecord ==
    conf = [kind |-> conf.kind, copy |-> conf.copy, at |-> conf.at, row |-> conf.row,
            rc |-> conf.rc, line |-> conf.line, ns |-> conf.ns, tofp |-> conf.tofp,
            result |-> conf.result, oom |-> conf.oom]

CallTypes ==
    /\ ConfIsRecord
    /\ conf.kind \in Kinds \cup {"none"} /\ conf.copy \in BOOLEAN /\ conf.at \in Places
    /\ conf.row \in Nat /\ conf.rc \in Int /\ conf.ns \in Nat
    /\ conf.line \in Seq(LineChar) /\ (conf.line # <<>> => Head(conf.line) # Space)

FileTypes ==
    /\ ahead = [is |-> ahead.is, text |-> ahead.text, id |-> ahead.id, bytes |-> ahead.bytes]
    /\ text \in Seq(ConfChar) /\ (Len(text) <= MaxText \/ ahead.is)
    /\ ended \in BOOLEAN

NumTypes ==
    /\ num.fn \in {"none", "I2StrToNum", "I2StrToByte"} /\ num.value \in 0..2^NumBits - 1
    /\ num.outcome \in {"none", "accepted", "refused", "killed"}

ConfTypes == CallTypes /\ FileTypes /\ NumTypes

(* What a step makes of a call: all but what it parses and where it started. *)
Became(place, rc, line, ns, tofp, result, failed) ==
    conf' = [kind |-> conf.kind, copy |-> conf.copy, at |-> place, row |-> conf.row,
             rc |-> rc, line |-> line, ns |-> ns, tofp |-> tofp, result |-> result,
             oom |-> failed]

LEMMA CallBecame ==
    ASSUME CallTypes, NEW place \in Places, NEW rc \in Int, NEW line \in Seq(LineChar),
           NEW ns \in Nat, NEW tofp, NEW result, NEW failed, line # <<>> => Head(line) # Space,
           Became(place, rc, line, ns, tofp, result, failed)
    PROVE  CallTypes'
<1>1. /\ conf'.kind = conf.kind /\ conf'.copy = conf.copy /\ conf'.at = place
      /\ conf'.row = conf.row /\ conf'.rc = rc /\ conf'.line = line /\ conf'.ns = ns
      /\ ConfIsRecord'
  BY DEF Became, ConfIsRecord
<1> QED BY <1>1 DEF CallTypes

LEMMA Chars ==
    /\ {Newline, Comment, Space, Backslash} \subseteq ConfChar
    /\ \A kind : CharsOf(kind) \subseteq ConfChar
    /\ Hex \subseteq ConfChar
<1>1. \A kind : CharsOf(kind) \subseteq CharsOf("conf") \cup CharsOf("key")
  BY DEF CharsOf
<1>2. {Newline, Comment, Space, Backslash} \subseteq CharsOf("conf")
  BY DEF CharsOf
<1> QED BY <1>1, <1>2 DEF ConfChar

LEMMA CharacterRead ==
    ASSUME FileTypes, NumTypes, NEW c \in ConfChar \cup {EOF}, Getc(c)
    PROVE  FileTypes' /\ NumTypes'
<1>1. /\ text' = IF c = EOF THEN text ELSE Append(text, c)
      /\ ahead' = IF ahead.is /\ c # EOF THEN [ahead EXCEPT !.text = Tail(@)] ELSE ahead
      /\ ended' = (ended \/ c = EOF) /\ UNCHANGED num
      /\ ahead.is \/ c = EOF \/ Len(text) < MaxText
  BY DEF Getc
<1>2. MaxText \in Nat
  BY ConfAssumption
<1>3. /\ ahead' = [is |-> ahead'.is, text |-> ahead'.text, id |-> ahead'.id, bytes |-> ahead'.bytes]
      /\ ahead'.is = ahead.is
  <2>1. CASE ahead.is /\ c # EOF
    <3>1. ahead' = [ahead EXCEPT !.text = Tail(ahead.text)]
      BY <1>1, <2>1
    <3> DEFINE t == Tail(ahead.text)
    <3> HIDE DEF t
    <3>2. ahead' = [is |-> ahead.is, text |-> t, id |-> ahead.id, bytes |-> ahead.bytes]
      BY <3>1 DEF FileTypes, t
    <3> QED BY <3>2
  <2>2. CASE ~(ahead.is /\ c # EOF)
    BY <1>1, <2>2 DEF FileTypes
  <2> QED BY <2>1, <2>2
<1>4. text' \in Seq(ConfChar) /\ (Len(text') <= MaxText \/ ahead'.is)
  <2>1. text \in Seq(ConfChar) /\ Len(text) \in Nat /\ (Len(text) <= MaxText \/ ahead.is)
    BY DEF FileTypes
  <2>2. CASE c = EOF
    BY <1>1, <1>3, <2>1, <2>2
  <2>3. CASE c # EOF
    <3>1. text' = Append(text, c) /\ c \in ConfChar
      BY <1>1, <2>3
    <3>2. text' \in Seq(ConfChar) /\ Len(text') = Len(text) + 1
      BY <2>1, <3>1
    <3>3. ahead.is \/ Len(text) < MaxText
      BY <1>1, <2>3
    <3> QED BY <1>2, <1>3, <2>1, <3>2, <3>3
  <2> QED BY <2>2, <2>3
<1>5. ended' \in BOOLEAN
  BY <1>1
<1>6. NumTypes'
  BY <1>1 DEF NumTypes
<1> QED BY <1>3, <1>4, <1>5, <1>6 DEF FileTypes

LEMMA LineGrows ==
    ASSUME CallTypes, NEW c \in LineChar, conf.line = <<>> => c # Space
    PROVE  /\ Append(conf.line, c) \in Seq(LineChar)
           /\ Head(Append(conf.line, c)) # Space
<1> DEFINE line == conf.line
           longer == Append(line, c)
<1>1. line \in Seq(LineChar) /\ Len(line) \in Nat /\ (line # <<>> => Head(line) # Space)
  BY DEF CallTypes
<1> HIDE DEF line
<1>2. /\ longer \in Seq(LineChar) /\ Len(longer) = Len(line) + 1
      /\ \A k \in 1..Len(line) : longer[k] = line[k]
      /\ longer[Len(line) + 1] = c
  BY <1>1, AppendProperties
<1>3. longer[1] # Space
  <2>1. CASE line = <<>>
    <3>1. Len(line) + 1 = 1
      BY <2>1
    <3> QED BY <1>2, <2>1, <3>1 DEF line
  <2>2. CASE line # <<>>
    <3>1. Len(line) > 0 /\ Head(line) = line[1]
      BY <1>1, <2>2
    <3> QED BY <1>1, <1>2, <2>2, <3>1
  <2> QED BY <2>1, <2>2
<1>4. Head(longer) = longer[1]
  <2> HIDE DEF longer
  <2> QED BY <1>1, <1>2
<1> QED BY <1>2, <1>3, <1>4 DEF line

LEMMA ReadStepTypes == ASSUME ConfTypes, ReadStep PROVE ConfTypes'
<1>0. CallTypes /\ FileTypes /\ NumTypes
  BY DEF ConfTypes
<1>1. /\ ConfIsRecord /\ conf.row \in Nat /\ conf.rc \in Int /\ conf.ns \in Nat
      /\ conf.at \in Places
      /\ conf.line \in Seq(LineChar) /\ (conf.line # <<>> => Head(conf.line) # Space)
  BY <1>0 DEF CallTypes
<1>2. conf.rc + 1 \in Int /\ conf.ns + 1 \in Nat /\ -conf.rc \in Int /\ 0 \in Nat /\ 0 \in Int
  BY <1>1
<1>3. <<>> \in Seq(LineChar)
  OBVIOUS
<1>4. {"reading", "comment", "escape", "line", "returned"} \subseteq Places
  BY DEF Places
<1>5. Newline \in ConfChar /\ Comment \in ConfChar /\ Space \in ConfChar /\ Backslash \in ConfChar
      /\ \A c \in CharsOf(conf.kind) \cup CharsOf("conf") \cup Hex : c \in ConfChar
  BY Chars
<1>6. CASE EndLine
  <2>1. Getc(Newline)
    BY <1>6 DEF EndLine
  <2>2. \/ Became("line", conf.rc + 1, conf.line, conf.ns, conf.tofp, conf.result, conf.oom)
        \/ Became("reading", conf.rc + 1, conf.line, 0, Copied(<<Newline>>), conf.result, conf.oom)
    <3>1. EndLine /\ conf.at = "reading"
      BY <1>6 DEF EndLine
    <3>2. CASE conf.line # <<>>
      BY <1>1, <3>1, <3>2 DEF EndLine, Became, ConfIsRecord
    <3>3. CASE conf.line = <<>>
      BY <1>1, <3>1, <3>3 DEF EndLine, Became, ConfIsRecord
    <3> QED BY <3>2, <3>3
  <2>3. CallTypes'
    BY <1>0, <1>1, <1>2, <1>4, <2>2, CallBecame
  <2> QED BY <1>0, <1>5, <2>1, <2>3, CharacterRead DEF ConfTypes
<1>7. CASE StartComment
  <2>1. Getc(Comment)
    BY <1>7 DEF StartComment
  <2> DEFINE tofp == Copied([k \in 1..conf.ns |-> Space] \o <<Comment>>)
  <2>2. conf' = [conf EXCEPT !.at = "comment", !.tofp = tofp]
    BY <1>7 DEF StartComment
  <2> HIDE DEF tofp
  <2>3. Became("comment", conf.rc, conf.line, conf.ns, tofp, conf.result, conf.oom)
    BY <1>1, <2>2 DEF Became, ConfIsRecord
  <2>4. CallTypes'
    BY <1>0, <1>1, <1>4, <2>3, CallBecame
  <2> QED BY <1>0, <1>5, <2>1, <2>4, CharacterRead DEF ConfTypes
<1>8. CASE InComment
  <2>1. PICK c \in CharsOf(conf.kind) :
           /\ Getc(c)
           /\ conf' = [conf EXCEPT !.tofp = Copied(<<c>>),
                                   !.at = IF c = Newline THEN "reading" ELSE @,
                                   !.rc = IF c = Newline THEN @ + 1 ELSE @]
    BY <1>8 DEF InComment
  <2> DEFINE tofp == Copied(<<c>>)
             place == IF c = Newline THEN "reading" ELSE conf.at
             rc == IF c = Newline THEN conf.rc + 1 ELSE conf.rc
  <2>2. place \in Places /\ rc \in Int
    BY <1>1, <1>2, <1>4
  <2>3. conf' = [conf EXCEPT !.tofp = tofp, !.at = place, !.rc = rc]
    BY <2>1
  <2> HIDE DEF tofp, place, rc
  <2>4. Became(place, rc, conf.line, conf.ns, tofp, conf.result, conf.oom)
    BY <1>1, <2>3 DEF Became, ConfIsRecord
  <2>5. CallTypes'
    BY <1>0, <1>1, <2>2, <2>4, CallBecame
  <2> QED BY <1>0, <1>5, <2>1, <2>5, CharacterRead DEF ConfTypes
<1>9. CASE LeadingSpace
  <2>1. Getc(Space) /\ conf' = [conf EXCEPT !.ns = IF Records THEN conf.ns + 1 ELSE conf.ns]
    BY <1>9 DEF LeadingSpace
  <2> DEFINE ns == IF Records THEN conf.ns + 1 ELSE conf.ns
  <2>2. ns \in Nat
    BY <1>1, <1>2
  <2> HIDE DEF ns
  <2>3. Became(conf.at, conf.rc, conf.line, ns, conf.tofp, conf.result, conf.oom)
    BY <1>1, <2>1 DEF Became, ConfIsRecord, ns
  <2>4. CallTypes'
    BY <1>0, <1>1, <2>2, <2>3, CallBecame
  <2> QED BY <1>0, <1>5, <2>1, <2>4, CharacterRead DEF ConfTypes
<1>10. CASE Indented \/ BadEscape
  <2>1. PICK c \in ConfChar \cup {EOF} : Getc(c)
    BY <1>5, <1>10 DEF Indented, BadEscape
  <2>2. conf' = [conf EXCEPT !.at = "returned", !.rc = -conf.rc]
    BY <1>10 DEF Indented, BadEscape, ReturnRow
  <2>3. Became("returned", -conf.rc, conf.line, conf.ns, conf.tofp, conf.result, conf.oom)
    BY <1>1, <2>2 DEF Became, ConfIsRecord
  <2>4. CallTypes'
    BY <1>0, <1>1, <1>2, <1>4, <2>3, CallBecame
  <2> QED BY <1>0, <2>1, <2>4, CharacterRead DEF ConfTypes
<1>11. CASE CopyChar
  <2>1. PICK c \in CharsOf(conf.kind) \cup Hex :
           Plain(c) /\ Getc(c) /\ conf' = [conf EXCEPT !.line = Append(conf.line, c)]
    BY <1>11 DEF CopyChar
  <2>2. c \in ConfChar /\ c \in LineChar /\ (conf.line = <<>> => c # Space)
    BY <1>5, <2>1 DEF Plain, LineChar
  <2> DEFINE line == Append(conf.line, c)
  <2>3. line \in Seq(LineChar) /\ Head(line) # Space
    BY <1>0, <2>2, LineGrows
  <2>4. conf' = [conf EXCEPT !.line = line]
    BY <2>1
  <2> HIDE DEF line
  <2>5. Became(conf.at, conf.rc, line, conf.ns, conf.tofp, conf.result, conf.oom)
    BY <1>1, <2>4 DEF Became, ConfIsRecord
  <2>6. CallTypes'
    BY <1>0, <1>1, <2>3, <2>5, CallBecame
  <2> QED BY <1>0, <2>1, <2>2, <2>6, CharacterRead DEF ConfTypes
<1>12. CASE OutOfLineMemory
  <2>1. PICK c \in CharsOf(conf.kind) : Getc(c)
    BY <1>12 DEF OutOfLineMemory
  <2>2. conf' = [conf EXCEPT !.at = "returned", !.rc = -conf.rc, !.line = <<>>, !.oom = TRUE]
    BY <1>12 DEF OutOfLineMemory
  <2>3. Became("returned", -conf.rc, <<>>, conf.ns, conf.tofp, conf.result, TRUE)
    BY <1>1, <2>2 DEF Became, ConfIsRecord
  <2>4. CallTypes'
    BY <1>0, <1>1, <1>2, <1>3, <1>4, <2>3, CallBecame
  <2> QED BY <1>0, <1>5, <2>1, <2>4, CharacterRead DEF ConfTypes
<1>13. CASE StartEscape
  <2>1. Getc(Backslash) /\ conf' = [conf EXCEPT !.at = "escape"]
    BY <1>13 DEF StartEscape
  <2>2. Became("escape", conf.rc, conf.line, conf.ns, conf.tofp, conf.result, conf.oom)
    BY <1>1, <2>1 DEF Became, ConfIsRecord
  <2>3. CallTypes'
    BY <1>0, <1>1, <1>4, <2>2, CallBecame
  <2> QED BY <1>0, <1>5, <2>1, <2>3, CharacterRead DEF ConfTypes
<1>14. CASE Continuation
  <2>1. Getc(Newline) /\ conf' = [conf EXCEPT !.at = "reading", !.rc = conf.rc + 1]
    BY <1>14 DEF Continuation
  <2>2. Became("reading", conf.rc + 1, conf.line, conf.ns, conf.tofp, conf.result, conf.oom)
    BY <1>1, <2>1 DEF Became, ConfIsRecord
  <2>3. CallTypes'
    BY <1>0, <1>1, <1>2, <1>4, <2>2, CallBecame
  <2> QED BY <1>0, <1>5, <2>1, <2>3, CharacterRead DEF ConfTypes
<1>15. CASE EndFile
  <2>1. Getc(EOF)
    BY <1>15 DEF EndFile
  <2>2. \/ Became("returned", 0, conf.line, conf.ns, conf.tofp, conf.result, conf.oom)
        \/ Became("line", conf.rc + 1, conf.line, conf.ns, conf.tofp, conf.result, conf.oom)
    <3>1. CASE conf.line # <<>>
      BY <1>1, <1>15, <3>1 DEF EndFile, Became, ConfIsRecord
    <3>2. CASE conf.line = <<>>
      BY <1>1, <1>15, <3>2 DEF EndFile, ReturnRow, Became, ConfIsRecord
    <3> QED BY <3>1, <3>2
  <2>3. CallTypes'
    BY <1>0, <1>1, <1>2, <1>4, <2>2, CallBecame
  <2> QED BY <1>0, <2>1, <2>3, CharacterRead DEF ConfTypes
<1> QED BY <1>6, <1>7, <1>8, <1>9, <1>10, <1>11, <1>12, <1>13, <1>14, <1>15 DEF ReadStep

LEMMA ConfTypesStep == ConfTypes /\ [ConfNext]_confVars => ConfTypes'
<1> SUFFICES ASSUME ConfTypes, [ConfNext]_confVars PROVE ConfTypes'
  OBVIOUS
<1>0. CallTypes /\ FileTypes /\ NumTypes
  BY DEF ConfTypes
<1>1. /\ ConfIsRecord /\ conf.row \in Nat /\ conf.rc \in Int /\ conf.ns \in Nat
      /\ conf.at \in Places
      /\ conf.line \in Seq(LineChar) /\ (conf.line # <<>> => Head(conf.line) # Space)
  BY <1>0 DEF CallTypes
<1>2. -conf.rc \in Int /\ 0 \in Nat /\ <<>> \in Seq(LineChar)
  BY <1>1
<1>3. {"reading", "returned"} \subseteq Places
  BY DEF Places
<1>4. ASSUME UNCHANGED <<text, ahead, ended, num>> PROVE FileTypes' /\ NumTypes'
  BY <1>0, <1>4 DEF FileTypes, NumTypes
<1>5. CASE CallParser
  <2>1. PICK kind \in Kinds, copy \in BOOLEAN :
           conf' = [Idle EXCEPT !.kind = kind, !.copy = copy, !.at = "reading",
                                !.row = conf.rc, !.rc = conf.rc]
    BY <1>5, Zenon DEF CallParser
  <2>0. /\ conf = Idle \/ conf.rc > 0 \/ conf.rc = 0
        /\ text' = text \/ text' = <<>>
        /\ UNCHANGED <<ahead, ended, num>>
    BY <1>5 DEF CallParser
  <2>2. conf' = [kind |-> kind, copy |-> copy, at |-> "reading", row |-> conf.rc, rc |-> conf.rc,
                 line |-> <<>>, ns |-> 0, tofp |-> <<>>, result |-> <<>>, oom |-> FALSE]
    BY <1>1, <2>1 DEF Idle
  <2>3. conf.rc \in Nat
    <3>1. CASE conf = Idle
      BY <3>1 DEF Idle
    <3>2. CASE conf.rc > 0 \/ conf.rc = 0
      BY <1>1, <3>2
    <3> QED BY <2>0, <3>1, <3>2
  <2>4. CallTypes'
    BY <1>2, <1>3, <2>2, <2>3 DEF CallTypes, ConfIsRecord
  <2>5. FileTypes'
    <3>1. CASE text' = text
      BY <1>0, <2>0, <3>1 DEF FileTypes
    <3>2. CASE text' = <<>>
      <4>1. text' \in Seq(ConfChar) /\ Len(text') <= MaxText
        BY <3>2, ConfAssumption
      <4> QED BY <1>0, <2>0, <4>1 DEF FileTypes
    <3> QED BY <2>0, <3>1, <3>2
  <2>6. NumTypes'
    BY <1>0, <2>0 DEF NumTypes
  <2> QED BY <2>4, <2>5, <2>6 DEF ConfTypes
<1>6. CASE I2ReadConfVar \/ I2ParseKeyFile \/ I2ParsePFFile
  <2> DEFINE tofp == Copied(Append(conf.line, Newline))
  <2>1. \/ \E record : conf' = Result(record)
        \/ conf' = CopyLine
    BY <1>6 DEF I2ReadConfVar, I2ParseKeyFile, I2ParsePFFile
  <2>2. CASE conf' = CopyLine
    <3>1. conf' = [conf EXCEPT !.at = "reading", !.line = <<>>, !.ns = 0, !.tofp = tofp]
      BY <2>2 DEF CopyLine
    <3> HIDE DEF tofp
    <3>2. Became("reading", conf.rc, <<>>, 0, tofp, conf.result, conf.oom)
      BY <1>1, <3>1 DEF Became, ConfIsRecord
    <3>3. CallTypes'
      BY <1>0, <1>1, <1>2, <1>3, <3>2, CallBecame
    <3> QED BY <1>4, <1>6, <3>3 DEF I2ReadConfVar, I2ParseKeyFile, I2ParsePFFile, ConfTypes
  <2>3. CASE \E record : conf' = Result(record)
    <3>1. PICK record : conf' = Result(record)
      BY <2>3
    <3>2. \/ Became("returned", -conf.rc, conf.line, conf.ns, conf.tofp, conf.result, conf.oom)
          \/ Became("returned", conf.rc, conf.line, conf.ns, conf.tofp, record, conf.oom)
      <4>1. CASE record = <<>>
        BY <1>1, <3>1, <4>1 DEF Result, Became, ConfIsRecord
      <4>2. CASE record # <<>>
        BY <1>1, <3>1, <4>2 DEF Result, Became, ConfIsRecord
      <4> QED BY <4>1, <4>2
    <3>3. CallTypes'
      BY <1>0, <1>1, <1>2, <1>3, <3>2, CallBecame
    <3> QED BY <1>4, <1>6, <3>3 DEF I2ReadConfVar, I2ParseKeyFile, I2ParsePFFile, ConfTypes
  <2> QED BY <2>1, <2>2, <2>3
<1>7. CASE OutOfResultMemory
  <2>1. conf' = [conf EXCEPT !.at = "returned", !.rc = -conf.rc, !.line = <<>>, !.oom = TRUE]
    BY <1>7 DEF OutOfResultMemory
  <2>2. Became("returned", -conf.rc, <<>>, conf.ns, conf.tofp, conf.result, TRUE)
    BY <1>1, <2>1 DEF Became, ConfIsRecord
  <2>3. CallTypes'
    BY <1>0, <1>1, <1>2, <1>3, <2>2, CallBecame
  <2> QED BY <1>4, <1>7, <2>3 DEF OutOfResultMemory, ConfTypes
<1>8. CASE WriteLine
  <2>1. /\ UNCHANGED <<conf, text, ended, num>>
        /\ \E id \in Identities, bytes \in PassPhrases :
             ahead' = [is |-> TRUE, text |-> Line(id, bytes), id |-> id, bytes |-> bytes]
    BY <1>8 DEF WriteLine
  <2>2. /\ ahead' = [is |-> ahead'.is, text |-> ahead'.text, id |-> ahead'.id,
                  bytes |-> ahead'.bytes]
        /\ ahead'.is
    BY <2>1
  <2> QED BY <1>0, <2>1, <2>2 DEF ConfTypes, CallTypes, ConfIsRecord, FileTypes, NumTypes
<1>9. CASE StrTo
  <2>1. UNCHANGED <<conf, text, ahead, ended>>
    BY <1>9 DEF StrTo
  <2>2. NumTypes'
    BY <1>9, Parsed DEF NumTypes
  <2> QED BY <1>0, <2>1, <2>2 DEF ConfTypes, CallTypes, ConfIsRecord, FileTypes
<1>10. CASE UNCHANGED confVars
  BY <1>0, <1>10 DEF confVars, ConfTypes, CallTypes, ConfIsRecord, FileTypes, NumTypes
<1> QED BY <1>5, <1>6, <1>7, <1>8, <1>9, <1>10, ReadStepTypes DEF ConfNext

LEMMA ConfTypesHold ==
    /\ ConfInit => ConfTypes
    /\ ConfTypes => ConfTypeOK
<1>1. ASSUME ConfInit PROVE ConfTypes
  <2>1. conf = Idle /\ text = <<>> /\ ahead = NotWritten /\ ended = FALSE /\ num = NoNumber
    BY <1>1 DEF ConfInit
  <2>2. CallTypes
    BY <2>1 DEF CallTypes, ConfIsRecord, Idle, Places
  <2>3. FileTypes
    <3>1. MaxText \in Nat
      BY ConfAssumption
    <3>2. text \in Seq(ConfChar) /\ Len(text) = 0
      BY <2>1
    <3>3. ahead = [is |-> ahead.is, text |-> ahead.text, id |-> ahead.id, bytes |-> ahead.bytes]
      BY <2>1 DEF NotWritten
    <3>4. Len(text) <= MaxText
      BY <3>1, <3>2
    <3>5. ended \in BOOLEAN
      BY <2>1, Zenon
    <3> QED BY <3>2, <3>3, <3>4, <3>5, Zenon DEF FileTypes
  <2>4. NumTypes
    BY <2>1, Widths DEF NumTypes, NoNumber, Modulus
  <2> QED BY <2>2, <2>3, <2>4 DEF ConfTypes
<1>2. ASSUME ConfTypes PROVE ConfTypeOK
  <2>1. \A k \in DOMAIN conf.line : conf.line[k] \in LineChar
    BY <1>2 DEF ConfTypes, CallTypes
  <2>2. Range(conf.line) \cap {Newline, EOF} = {}
    BY <2>1 DEF Range, LineChar
  <2> QED BY <1>2, <2>2 DEF ConfTypes, CallTypes, FileTypes, NumTypes, ConfTypeOK, Places
<1> QED BY <1>1, <1>2

(* The parsers (conf.c) keep their types: the line they gather never holds  *)
(* a newline, and a row is counted once.                                    *)
THEOREM ParsersTyped == ConfSpec => []ConfTypeOK
<1> QED BY ConfTypesHold, ConfTypesStep, PTL DEF ConfSpec

LEMMA ExactStep == NumbersAreExact /\ [ConfNext]_confVars => NumbersAreExact'
<1> SUFFICES ASSUME NumbersAreExact, [ConfNext]_confVars PROVE NumbersAreExact'
  OBVIOUS
<1>1. ASSUME UNCHANGED num PROVE NumbersAreExact'
  BY <1>1 DEF NumbersAreExact
<1>2. ASSUME NEW c, Getc(c) PROVE UNCHANGED num
  BY <1>2 DEF Getc
<1>3. CASE ReadStep
  BY <1>1, <1>2, <1>3, Zenon
     DEF ReadStep, EndLine, StartComment, InComment, LeadingSpace, Indented, CopyChar,
         OutOfLineMemory, StartEscape, Continuation, BadEscape, EndFile
<1>4. CASE CallParser \/ WriteLine
  BY <1>1, <1>4 DEF CallParser, WriteLine
<1>5. CASE I2ReadConfVar \/ I2ParseKeyFile \/ I2ParsePFFile \/ OutOfResultMemory
  BY <1>1, <1>5 DEF I2ReadConfVar, I2ParseKeyFile, I2ParsePFFile, OutOfResultMemory
<1>6. CASE StrTo
  BY <1>6, Parsed
<1>7. CASE UNCHANGED confVars
  BY <1>1, <1>7 DEF confVars
<1> QED BY <1>3, <1>4, <1>5, <1>6, <1>7 DEF ConfNext

(* For every width of a number and all multipliers that fit, I2StrToNum and *)
(* I2StrToByte (conf.c:826-958) accept every number that fits, exact; no    *)
(* product that is cut passes the division.  What else they accept are      *)
(* digits cut by strtoull and products with the wrapped multiplier of       *)
(* suffix z, and only with that suffix is the division undefined.           *)
THEOREM NumbersExact == ConfSpec => []NumbersAreExact
<1>1. ConfInit => NumbersAreExact
  BY DEF ConfInit, NoNumber, NumbersAreExact
<1> QED BY <1>1, ExactStep, PTL DEF ConfSpec
-----------------------------------------------------------------------------
(*                      The n-th of a set of positions                     *)

UpTo(S, k) == {j \in S : j <= k}
Within(S, m) == m \in Nat /\ S \in SUBSET (1..m)

LEMMA Positions ==
    ASSUME NEW m, NEW S, Within(S, m)
    PROVE  /\ IsFiniteSet(S) /\ Cardinality(S) \in Nat
           /\ \A k : IsFiniteSet(UpTo(S, k)) /\ Cardinality(UpTo(S, k)) \in 0..Cardinality(S)
<1>0. m \in Nat /\ S \in SUBSET (1..m)
  BY DEF Within
<1>1. IsFiniteSet(1..m)
  BY <1>0, FS_Interval
<1>2. IsFiniteSet(S) /\ Cardinality(S) \in Nat
  BY <1>0, <1>1, FS_Subset, FS_CardinalityType
<1>3. ASSUME NEW k PROVE IsFiniteSet(UpTo(S, k)) /\ Cardinality(UpTo(S, k)) \in 0..Cardinality(S)
  <2>1. UpTo(S, k) \in SUBSET S
    BY DEF UpTo
  <2>2. IsFiniteSet(UpTo(S, k)) /\ Cardinality(UpTo(S, k)) <= Cardinality(S)
    BY <1>2, <2>1, FS_Subset
  <2>3. Cardinality(UpTo(S, k)) \in Nat
    BY <2>2, FS_CardinalityType
  <2> QED BY <1>2, <2>2, <2>3
<1> QED BY <1>2, <1>3

(* One more position, behind the others. *)
IsMore(T, S, x, m) == Within(S, m) /\ x \in Nat /\ x > m /\ T = S \cup {x}

LEMMA OneMorePosition ==
    ASSUME NEW m, NEW S, NEW x, NEW T, IsMore(T, S, x, m)
    PROVE  /\ Cardinality(T) = Cardinality(S) + 1
           /\ \A k \in S : Cardinality(UpTo(T, k)) = Cardinality(UpTo(S, k))
           /\ Cardinality(UpTo(T, x)) = Cardinality(T)
<1>0. /\ m \in Nat /\ S \in SUBSET (1..m) /\ Within(S, m)
      /\ x \in Nat /\ x > m /\ T = S \cup {x}
  BY DEF IsMore, Within
<1>1. x \notin S /\ \A k \in S : k \in Nat /\ k <= m
  BY <1>0
<1>2. Cardinality(T) = Cardinality(S) + 1
  BY <1>0, <1>1, Positions, FS_AddElement
<1>3. ASSUME NEW k \in S PROVE UpTo(T, k) = UpTo(S, k)
  BY <1>0, <1>1 DEF UpTo
<1>4. \A k \in T : k \in Nat /\ k <= x
  BY <1>0, <1>1
<1>5. UpTo(T, x) = T
  BY <1>4 DEF UpTo
<1>6. Cardinality(UpTo(T, x)) = Cardinality(T)
  BY <1>5, Zenon
<1>7. ASSUME NEW k \in S PROVE Cardinality(UpTo(T, k)) = Cardinality(UpTo(S, k))
  BY <1>3, Zenon
<1> QED BY <1>2, <1>6, <1>7

LEMMA CountsDiffer ==
    ASSUME NEW m, NEW S, Within(S, m), NEW k \in S, NEW l \in S,
           Cardinality(UpTo(S, k)) = Cardinality(UpTo(S, l))
    PROVE  k = l
<1>1. ASSUME NEW i \in S, NEW j \in S, i < j,
             Cardinality(UpTo(S, i)) = Cardinality(UpTo(S, j))
      PROVE  FALSE
  <2>1. i \in Nat /\ j \in Nat /\ \A n \in S : n \in Nat
    BY DEF Within
  <2>2. UpTo(S, i) \in SUBSET UpTo(S, j) /\ j \in UpTo(S, j) /\ j \notin UpTo(S, i)
    <3>1. j <= j /\ ~(j <= i) /\ \A n \in S : n <= i => n <= j
      BY <1>1, <2>1
    <3> QED BY <3>1 DEF UpTo
  <2>3. IsFiniteSet(UpTo(S, j))
    BY Positions
  <2> QED BY <1>1, <2>2, <2>3, FS_Subset
<1>2. k \in Int /\ l \in Int
  BY DEF Within
<1> QED BY <1>1, <1>2

(* There is one: no shortest interval has a set of positions without. *)
HasPlaces(m) ==
    \A S \in SUBSET (1..m) : \A n \in 1..Cardinality(S) :
        \E k \in S : Cardinality(UpTo(S, k)) = n

LEMMA PlacesStep == ASSUME NEW m \in Nat, HasPlaces(m), NEW x \in Nat, x = m + 1 PROVE HasPlaces(x)
<1> SUFFICES ASSUME NEW S \in SUBSET (1..x), NEW n \in 1..Cardinality(S)
             PROVE  \E k \in S : Cardinality(UpTo(S, k)) = n
  BY DEF HasPlaces
<1>1. PICK T : T = S \ {x}
  OBVIOUS
<1>2. T \in SUBSET (1..m) /\ x > m /\ (S = T \cup {x} \/ S = T)
  BY <1>1
<1>3. CASE S = T
  <2>1. S \in SUBSET (1..m)
    BY <1>2, <1>3
  <2> QED BY <2>1 DEF HasPlaces
<1>4. CASE S = T \cup {x}
  <2>0. T \in SUBSET (1..m) /\ x > m /\ IsMore(S, T, x, m)
    BY <1>2, <1>4 DEF IsMore, Within
  <2>1. /\ Cardinality(S) = Cardinality(T) + 1 /\ Cardinality(UpTo(S, x)) = Cardinality(S)
        /\ \A k \in T : Cardinality(UpTo(S, k)) = Cardinality(UpTo(T, k))
    BY <2>0, OneMorePosition
  <2>3. Cardinality(T) \in Nat
    BY <2>0, Positions DEF IsMore
  <2>4. CASE n = Cardinality(S)
    <3>1. x \in S
      BY <1>4
    <3> QED BY <2>1, <2>4, <3>1
  <2>5. CASE n # Cardinality(S)
    <3>1. n \in 1..Cardinality(T)
      BY <2>1, <2>3, <2>5
    <3>2. PICK k \in T : Cardinality(UpTo(T, k)) = n
      BY <1>2, <3>1 DEF HasPlaces
    <3>3. k \in S /\ Cardinality(UpTo(S, k)) = Cardinality(UpTo(T, k))
      BY <1>4, <2>1
    <3> QED BY <3>2, <3>3
  <2> QED BY <2>4, <2>5
<1> QED BY <1>2, <1>3, <1>4

LEMMA PlacesExist == ASSUME NEW m \in Nat PROVE HasPlaces(m)
<1> DEFINE bad == {l \in Nat : ~HasPlaces(l)}
<1>1. ASSUME bad # {} PROVE FALSE
  <2> HIDE DEF bad
  <2>1. bad \subseteq Nat
    BY DEF bad
  <2>2. PICK c \in bad : \A l \in bad : ~(<<l, c>> \in OpToRel(<, Nat))
    BY <1>1, <2>1, WFMin, NatLessThanWellFounded
  <2>3. c \in Nat /\ ~HasPlaces(c) /\ \A l \in Nat : l < c => HasPlaces(l)
    BY <2>1, <2>2 DEF OpToRel, bad
  <2>4. CASE c = 0
    <3>1. \A S \in SUBSET (1..0) : S = {}
      OBVIOUS
    <3>2. \A S \in SUBSET (1..0) : 1..Cardinality(S) = {}
      BY <3>1, FS_EmptySet
    <3> QED BY <2>3, <2>4, <3>2 DEF HasPlaces
  <2>5. CASE c # 0
    <3>1. c - 1 \in Nat /\ HasPlaces(c - 1) /\ (c - 1) + 1 = c
      BY <2>3, <2>5
    <3> QED BY <2>3, <3>1, PlacesStep
  <2> QED BY <2>4, <2>5
<1> QED BY <1>1

LEMMA NthIs ==
    ASSUME NEW m, NEW S, Within(S, m), NEW n \in 1..Cardinality(S)
    PROVE  /\ Nth(S, n) \in S /\ Cardinality(UpTo(S, Nth(S, n))) = n
           /\ \A k \in S : Cardinality(UpTo(S, k)) = n => k = Nth(S, n)
<1>1. \E k \in S : Cardinality({j \in S : j <= k}) = n
  BY PlacesExist DEF HasPlaces, UpTo, Within
<1>2. Nth(S, n) \in S /\ Cardinality({j \in S : j <= Nth(S, n)}) = n
  BY <1>1 DEF Nth
<1>3. Cardinality(UpTo(S, Nth(S, n))) = n
  BY <1>2 DEF UpTo
<1> QED BY <1>2, <1>3, CountsDiffer

LEMMA NthOfMore ==
    ASSUME NEW m, NEW S, NEW x, NEW T, IsMore(T, S, x, m)
    PROVE  /\ Cardinality(T) = Cardinality(S) + 1
           /\ \A n \in 1..Cardinality(S) : Nth(T, n) = Nth(S, n)
           /\ Nth(T, Cardinality(S) + 1) = x
<1>0. Within(S, m) /\ x \in Nat /\ x > m /\ Cardinality(S) \in Nat
  BY Positions DEF IsMore
<1>1. /\ Cardinality(T) = Cardinality(S) + 1
      /\ \A k \in S : Cardinality(UpTo(T, k)) = Cardinality(UpTo(S, k))
      /\ Cardinality(UpTo(T, x)) = Cardinality(T)
  BY OneMorePosition
<1>2. Within(T, x) /\ S \subseteq T /\ x \in T
  BY DEF IsMore, Within
<1>3. ASSUME NEW n \in 1..Cardinality(S) PROVE Nth(T, n) = Nth(S, n)
  <2>1. Nth(S, n) \in S /\ Cardinality(UpTo(S, Nth(S, n))) = n
    BY <1>0, NthIs
  <2>2. n \in 1..Cardinality(T) /\ Nth(S, n) \in T /\ Cardinality(UpTo(T, Nth(S, n))) = n
    <3>1. n \in 1..Cardinality(S) + 1
      BY <1>0
    <3> QED BY <1>1, <1>2, <2>1, <3>1
  <2> QED BY <1>2, <2>2, NthIs
<1>4. Nth(T, Cardinality(S) + 1) = x
  <2>1. /\ Cardinality(S) + 1 \in 1..Cardinality(T)
        /\ Cardinality(UpTo(T, x)) = Cardinality(S) + 1
    BY <1>0, <1>1
  <2> QED BY <1>2, <2>1, NthIs
<1> QED BY <1>1, <1>3, <1>4

LEMMA NthOfOne == ASSUME NEW x \in Nat \ {0} PROVE Cardinality({x}) = 1 /\ Nth({x}, 1) = x
<1> DEFINE none == {}
           one == {x}
<1>1. Cardinality(none) = 0
  BY FS_EmptySet
<1>3. IsMore(one, none, x, 0)
  BY DEF IsMore, Within
<1> HIDE DEF none, one
<1>2. Cardinality(one) = Cardinality(none) + 1 /\ Nth(one, Cardinality(none) + 1) = x
  BY <1>1, <1>3, NthOfMore
<1> QED BY <1>1, <1>2 DEF one

-----------------------------------------------------------------------------
(*                      Texts: sequences of characters                     *)

(* The operators by other names: the provers take these as they are. *)
IsText(s) == s \in Seq(ConfChar)
Add(s, c) == Append(s, c)
Cat(s, t) == s \o t

LEMMA Texts ==
    /\ IsText(<<>>)
    /\ \A s, c : IsText(s) /\ c \in ConfChar =>
         /\ IsText(Add(s, c)) /\ Len(Add(s, c)) = Len(s) + 1 /\ Add(s, c) # <<>>
         /\ Add(s, c)[Len(s) + 1] = c /\ \A k \in 1..Len(s) : Add(s, c)[k] = s[k]
    /\ \A s : IsText(s) => Len(s) \in Nat /\ (s = <<>> <=> Len(s) = 0)
    /\ \A s, t : IsText(s) /\ IsText(t) => IsText(Cat(s, t))
    /\ \A s : IsText(s) => Cat(s, <<>>) = s /\ Cat(<<>>, s) = s
    /\ \A s, t, c : IsText(s) /\ IsText(t) /\ c \in ConfChar =>
         Cat(s, Add(t, c)) = Add(Cat(s, t), c)
    /\ \A s, t, u : IsText(s) /\ IsText(t) /\ IsText(u) =>
         Cat(Cat(s, t), u) = Cat(s, Cat(t, u))
<1>1. ASSUME NEW s \in Seq(ConfChar), NEW c \in ConfChar
      PROVE  /\ Append(s, c) \in Seq(ConfChar) /\ Len(Append(s, c)) = Len(s) + 1
             /\ Append(s, c) # <<>> /\ Append(s, c)[Len(s) + 1] = c
             /\ \A k \in 1..Len(s) : Append(s, c)[k] = s[k]
  BY AppendProperties
<1>2. ASSUME NEW s \in Seq(ConfChar), NEW t \in Seq(ConfChar)
      PROVE  s \o t \in Seq(ConfChar)
  OBVIOUS
<1>3. ASSUME NEW s \in Seq(ConfChar) PROVE s \o <<>> = s /\ <<>> \o s = s
  BY ConcatEmptySeq
<1>4. ASSUME NEW s \in Seq(ConfChar), NEW t \in Seq(ConfChar), NEW u \in Seq(ConfChar)
      PROVE  (s \o t) \o u = s \o (t \o u)
  BY ConcatAssociative
<1>5. ASSUME NEW s \in Seq(ConfChar), NEW t \in Seq(ConfChar), NEW c \in ConfChar
      PROVE  s \o Append(t, c) = Append(s \o t, c)
  <2>1. <<c>> \in Seq(ConfChar) /\ s \o t \in Seq(ConfChar)
    OBVIOUS
  <2>2. Append(t, c) = t \o <<c>> /\ Append(s \o t, c) = (s \o t) \o <<c>>
    BY <2>1, AppendIsConcat
  <2> QED BY <2>1, <2>2, ConcatAssociative
<1>6. \A s : IsText(s) => Len(s) \in Nat /\ (s = <<>> <=> Len(s) = 0)
  BY DEF IsText
<1>7. IsText(<<>>)
  BY DEF IsText
<1>8. \A s, c : IsText(s) /\ c \in ConfChar =>
        /\ IsText(Add(s, c)) /\ Len(Add(s, c)) = Len(s) + 1 /\ Add(s, c) # <<>>
        /\ Add(s, c)[Len(s) + 1] = c /\ \A k \in 1..Len(s) : Add(s, c)[k] = s[k]
  BY <1>1, Zenon DEF IsText, Add
<1>9. \A s, t : IsText(s) /\ IsText(t) => IsText(Cat(s, t))
  BY <1>2, Zenon DEF IsText, Cat
<1>10. \A s : IsText(s) => Cat(s, <<>>) = s /\ Cat(<<>>, s) = s
  BY <1>3, Zenon DEF IsText, Cat
<1>11. \A s, t, c : IsText(s) /\ IsText(t) /\ c \in ConfChar =>
         Cat(s, Add(t, c)) = Add(Cat(s, t), c)
  BY <1>5, Zenon DEF IsText, Cat, Add
<1>12. \A s, t, u : IsText(s) /\ IsText(t) /\ IsText(u) => Cat(Cat(s, t), u) = Cat(s, Cat(t, u))
  BY <1>4, Zenon DEF IsText, Cat
<1> QED BY <1>6, <1>7, <1>8, <1>9, <1>10, <1>11, <1>12, Zenon

-----------------------------------------------------------------------------
(*                          Sequences of sequences                         *)

IsFlat(f, ss, n) == f = [i \in 1..n |-> IF i = 1 THEN ss[i] ELSE f[i - 1] \o ss[i]]

LEMMA FlatExists == ASSUME NEW ss, NEW n \in Nat PROVE \E f : IsFlat(f, ss, n)
<1> DEFINE bad == {c \in Nat : ~\E f : IsFlat(f, ss, c)}
<1>1. ASSUME bad # {} PROVE FALSE
  <2> HIDE DEF bad
  <2>1. bad \subseteq Nat
    BY DEF bad
  <2>2. PICK c \in bad : \A l \in bad : ~(<<l, c>> \in OpToRel(<, Nat))
    BY <1>1, <2>1, WFMin, NatLessThanWellFounded
  <2>3. c \in Nat /\ (\A l \in Nat : l < c => \E f : IsFlat(f, ss, l)) /\ ~\E f : IsFlat(f, ss, c)
    BY <2>1, <2>2 DEF OpToRel, bad
  <2>4. CASE c = 0
    <3> DEFINE g == [i \in 1..c |-> ss[i]]
               h == [i \in 1..c |-> IF i = 1 THEN ss[i] ELSE g[i - 1] \o ss[i]]
    <3>1. 1..c = {}
      BY <2>4
    <3>2. g = h
      BY <3>1
    <3>3. IsFlat(g, ss, c)
      BY <3>2 DEF IsFlat
    <3> QED BY <2>3, <3>3
  <2>5. CASE c # 0
    <3>1. c - 1 \in Nat /\ c - 1 < c
      BY <2>3, <2>5
    <3>2. PICK f : IsFlat(f, ss, c - 1)
      BY <2>3, <3>1
    <3> DEFINE g == [i \in 1..c |-> IF i = 1 THEN ss[i]
                                    ELSE IF i = c THEN f[i - 1] \o ss[i] ELSE f[i]]
               h == [i \in 1..c |-> IF i = 1 THEN ss[i] ELSE g[i - 1] \o ss[i]]
    <3>3. \A i \in 1..(c - 1) : f[i] = IF i = 1 THEN ss[i] ELSE f[i - 1] \o ss[i]
      BY <3>2 DEF IsFlat
    <3>4. ASSUME NEW i \in 1..c PROVE g[i] = h[i]
      <4>1. CASE i = 1
        BY <4>1
      <4>2. CASE i # 1
        <5>1. i - 1 \in 1..c /\ i - 1 # c /\ i - 1 \in 1..(c - 1)
          BY <2>3, <4>2
        <5>2. g[i - 1] = f[i - 1]
          <6>1. CASE i - 1 = 1
            BY <3>3, <5>1, <6>1
          <6>2. CASE i - 1 # 1
            BY <5>1, <6>2
          <6> QED BY <6>1, <6>2
        <5>3. h[i] = f[i - 1] \o ss[i]
          BY <4>2, <5>2
        <5>4. CASE i = c
          BY <4>2, <5>3, <5>4
        <5>5. CASE i # c
          <6>1. i \in 1..(c - 1)
            BY <2>3, <5>5
          <6> QED BY <3>3, <4>2, <5>3, <5>5, <6>1
        <5> QED BY <5>4, <5>5
      <4> QED BY <4>1, <4>2
    <3>5. g = h
      BY <3>4
    <3>6. IsFlat(g, ss, c)
      BY <3>5 DEF IsFlat
    <3> QED BY <2>3, <3>6
  <2> QED BY <2>4, <2>5
<1> QED BY <1>1

(* Two of them agree as far as their sequences do. *)
LEMMA FlatAgree ==
    ASSUME NEW ss, NEW tt, NEW m \in Nat, NEW n \in Nat, n <= m,
           NEW f, IsFlat(f, ss, m), NEW g, IsFlat(g, tt, n),
           \A i \in 1..n : ss[i] = tt[i]
    PROVE  \A i \in 1..n : f[i] = g[i]
<1> DEFINE bad == {i \in 1..n : f[i] # g[i]}
<1>1. ASSUME bad # {} PROVE FALSE
  <2> HIDE DEF bad
  <2>1. bad \subseteq Nat
    BY DEF bad
  <2>2. PICK c \in bad : \A l \in bad : ~(<<l, c>> \in OpToRel(<, Nat))
    BY <1>1, <2>1, WFMin, NatLessThanWellFounded
  <2>3. c \in 1..n /\ c \in 1..m /\ f[c] # g[c]
    <3>1. c \in 1..n /\ f[c] # g[c]
      BY <2>2 DEF bad
    <3> QED BY <3>1
  <2>4. /\ f[c] = IF c = 1 THEN ss[c] ELSE f[c - 1] \o ss[c]
        /\ g[c] = IF c = 1 THEN tt[c] ELSE g[c - 1] \o tt[c]
    BY <2>3 DEF IsFlat
  <2>5. CASE c # 1
    <3>1. c - 1 \in Nat /\ c \in Nat /\ c - 1 < c /\ c - 1 \in 1..n
      BY <2>3, <2>5
    <3>2. c - 1 \notin bad
      BY <2>1, <2>2, <3>1 DEF OpToRel
    <3> QED BY <2>3, <2>4, <2>5, <3>1, <3>2 DEF bad
  <2>6. ss[c] = tt[c]
    BY <2>3
  <2> QED BY <2>3, <2>4, <2>5, <2>6
<1> QED BY <1>1

LEMMA FlattenIs ==
    ASSUME NEW ss, NEW n \in Nat \ {0}, Len(ss) = n, NEW f, IsFlat(f, ss, n)
    PROVE  FlattenSeq(ss) = f[n]
<1>1. \E g : IsFlat(g, ss, n)
  BY FlatExists
<1> DEFINE flat == CHOOSE g : IsFlat(g, ss, n)
<1>2. IsFlat(flat, ss, n)
  BY <1>1
<1>3. FlattenSeq(ss) = flat[n]
  BY DEF FlattenSeq, IsFlat
<1> HIDE DEF flat
<1>4. flat[n] = f[n]
  BY <1>2, FlatAgree
<1> QED BY <1>3, <1>4

(* One sequence more, behind the others. *)
LEMMA FlattenStep ==
    ASSUME NEW n \in Nat, NEW ss, NEW tt,
           Array(ss, n), Array(tt, n + 1), \A i \in 1..n : ss[i] = tt[i],
           \A i \in 1..n + 1 : tt[i] \in Seq(ConfChar)
    PROVE  /\ FlattenSeq(tt) = FlattenSeq(ss) \o tt[n + 1]
           /\ n = 0 => FlattenSeq(ss) = <<>>
<1>0. n + 1 \in Nat
  OBVIOUS
<1>1. Len(ss) = n /\ Len(tt) = n + 1
  BY <1>0, ArrayIsSeq
<1>2. PICK f : IsFlat(f, ss, n)
  BY FlatExists
<1>3. PICK g : IsFlat(g, tt, n + 1)
  BY <1>0, FlatExists
<1>4. FlattenSeq(tt) = g[n + 1]
  BY <1>1, <1>3, FlattenIs
<1>5. g[n + 1] = IF n + 1 = 1 THEN tt[n + 1] ELSE g[n] \o tt[n + 1]
  <2>1. n + 1 \in 1..n + 1 /\ (n + 1) - 1 = n
    OBVIOUS
  <2> QED BY <1>3, <2>1 DEF IsFlat
<1>6. CASE n = 0
  <2>1. FlattenSeq(ss) = <<>>
    <3>1. ss = <<>>
      BY <1>1, <1>6, ArrayIsSeq
    <3> QED BY <3>1 DEF FlattenSeq
  <2>2. tt[n + 1] \in Seq(ConfChar)
    BY <1>6
  <2> QED BY <1>4, <1>5, <1>6, <2>1, <2>2
<1>7. CASE n # 0
  <2>1. FlattenSeq(ss) = f[n]
    BY <1>1, <1>2, <1>7, FlattenIs
  <2>2. f[n] = g[n]
    <3>1. n \in 1..n /\ n <= n + 1 /\ n + 1 \in Nat
      BY <1>7
    <3> QED BY <1>2, <1>3, <3>1, FlatAgree
  <2>3. n + 1 # 1
    BY <1>7
  <2> QED BY <1>4, <1>5, <1>7, <2>1, <2>2, <2>3, Zenon
<1> QED BY <1>6, <1>7

-----------------------------------------------------------------------------
(*                             The ink of a row                            *)

LEMMA LeastIs ==
    ASSUME NEW S, S \subseteq Nat, NEW x \in S, \A y \in S : x <= y
    PROVE  Min(S) = x
<1>1. \A y \in S : (\A z \in S : y <= z) => y = x
  <2>1. \A y \in S : y \in Int /\ x \in Int
    OBVIOUS
  <2> QED BY <2>1
<1>2. \E y \in S : \A z \in S : y <= z
  OBVIOUS
<1> QED BY <1>1, <1>2, Zenon DEF Min

LEMMA LeastExists ==
    ASSUME NEW S, S \subseteq Nat, S # {}
    PROVE  Min(S) \in S /\ \A y \in S : Min(S) <= y
<1>1. PICK x \in S : \A y \in S : ~(<<y, x>> \in OpToRel(<, Nat))
  BY WFMin, NatLessThanWellFounded
<1>2. \A y \in S : y \in Nat /\ x \in Nat
  OBVIOUS
<1>3. \A y \in S : x <= y
  <2>1. \A y \in S : ~(y < x)
    BY <1>1, <1>2 DEF OpToRel
  <2> QED BY <1>2, <2>1
<1> QED BY <1>3, LeastIs

HasInk(row) == Ink(row) # {}
FirstInk(row) == row[Min(Ink(row))]

LEMMA InkWithin ==
    ASSUME NEW row \in Seq(ConfChar)
    PROVE  /\ Within(Ink(row), Len(row)) /\ Ink(row) \subseteq Nat
           /\ HasInk(row) => /\ Min(Ink(row)) \in Ink(row) /\ Min(Ink(row)) \in 1..Len(row)
                             /\ \A k \in Ink(row) : Min(Ink(row)) <= k
                             /\ FirstInk(row) \in ConfChar \ {Space}
<1>1. DOMAIN row = 1..Len(row) /\ Len(row) \in Nat /\ \A k \in DOMAIN row : row[k] \in ConfChar
  OBVIOUS
<1>2. Ink(row) \in SUBSET (1..Len(row)) /\ \A k \in Ink(row) : row[k] # Space
  BY <1>1 DEF Ink
<1>3. Ink(row) \subseteq Nat
  BY <1>2
<1>4. HasInk(row) => /\ Min(Ink(row)) \in Ink(row)
                     /\ \A k \in Ink(row) : Min(Ink(row)) <= k
  BY <1>3, LeastExists DEF HasInk
<1> QED BY <1>1, <1>2, <1>3, <1>4 DEF Within, FirstInk

LEMMA InkOfMore ==
    ASSUME NEW row \in Seq(ConfChar), NEW c \in ConfChar, NEW more, more = Append(row, c)
    PROVE  /\ c # Space => IsMore(Ink(more), Ink(row), Len(row) + 1, Len(row))
           /\ c = Space => Ink(more) = Ink(row)
<1>1. /\ Len(row) \in Nat /\ DOMAIN row = 1..Len(row) /\ DOMAIN more = 1..Len(row) + 1
      /\ \A k \in 1..Len(row) : more[k] = row[k]
      /\ more[Len(row) + 1] = c
  OBVIOUS
<1>2. c # Space => Ink(more) = Ink(row) \cup {Len(row) + 1}
  BY <1>1 DEF Ink
<1>3. c = Space => Ink(more) = Ink(row)
  BY <1>1 DEF Ink
<1>4. Within(Ink(row), Len(row)) /\ Len(row) + 1 \in Nat /\ Len(row) + 1 > Len(row)
  BY <1>1, InkWithin
<1> QED BY <1>2, <1>3, <1>4, Zenon DEF IsMore

LEMMA Trim ==
    ASSUME NEW row \in Seq(ConfChar)
    PROVE  /\ Trimmed(row) \in Seq(ConfChar)
           /\ ~HasInk(row) => Trimmed(row) = <<>>
           /\ HasInk(row) => /\ Len(Trimmed(row)) = Len(row) - Min(Ink(row)) + 1
                             /\ \A k \in 1..Len(row) - Min(Ink(row)) + 1 :
                                  Trimmed(row)[k] = row[Min(Ink(row)) + k - 1]
                             /\ Trimmed(row)[1] = FirstInk(row) /\ Trimmed(row) # <<>>
                             /\ row[1] # Space => Trimmed(row) = row
<1>1. CASE ~HasInk(row)
  BY <1>1 DEF Trimmed, HasInk
<1>2. CASE HasInk(row)
  <2> DEFINE m == Min(Ink(row))
  <2>1. m \in 1..Len(row) /\ Len(row) \in Nat /\ \A k \in Ink(row) : m <= k
    BY <1>2, InkWithin
  <2>2. Trimmed(row) = SubSeq(row, m, Len(row))
    BY <1>2 DEF Trimmed, HasInk
  <2>3. FirstInk(row) = row[m]
    BY DEF FirstInk
  <2> HIDE DEF m
  <2>4. /\ Trimmed(row) \in Seq(ConfChar) /\ Len(Trimmed(row)) = Len(row) - m + 1
        /\ \A k \in 1..Len(row) - m + 1 : Trimmed(row)[k] = row[m + k - 1]
    BY <2>1, <2>2, SubSeqProperties
  <2>5. Trimmed(row)[1] = row[m]
    <3>1. 1 \in 1..Len(row) - m + 1 /\ m + 1 - 1 = m
      BY <2>1
    <3> QED BY <2>4, <3>1
  <2>6. Trimmed(row) # <<>>
    BY <2>1, <2>4
  <2>7. ASSUME row[1] # Space PROVE Trimmed(row) = row
    <3>1. 1 \in Ink(row)
      BY <2>1, <2>7 DEF Ink
    <3>2. m = 1
      BY <2>1, <3>1
    <3> QED BY <2>2, <3>2, SubSeqFull
  <2> QED BY <1>2, <2>3, <2>4, <2>5, <2>6, <2>7 DEF m
<1> QED BY <1>1, <1>2

LEMMA TrimmedGrows ==
    ASSUME NEW row \in Seq(ConfChar), NEW c \in ConfChar, NEW more, more = Append(row, c)
    PROVE  /\ HasInk(row) => /\ HasInk(more) /\ FirstInk(more) = FirstInk(row)
                             /\ Trimmed(more) = Append(Trimmed(row), c)
           /\ ~HasInk(row) /\ c # Space => /\ HasInk(more) /\ FirstInk(more) = c
                                           /\ Trimmed(more) = <<c>>
           /\ ~HasInk(row) /\ c = Space => ~HasInk(more)
<1>0. /\ more \in Seq(ConfChar) /\ Len(row) \in Nat /\ Len(more) = Len(row) + 1
      /\ \A k \in 1..Len(row) : more[k] = row[k]
      /\ more[Len(row) + 1] = c
  OBVIOUS
<1>1. /\ c # Space => IsMore(Ink(more), Ink(row), Len(row) + 1, Len(row))
      /\ c = Space => Ink(more) = Ink(row)
  BY InkOfMore
<1>2. \A k : k \in Ink(more) <=> (k \in Ink(row) \/ (c # Space /\ k = Len(row) + 1))
  BY <1>1 DEF IsMore
<1>3. CASE HasInk(row)
  <2> DEFINE m == Min(Ink(row))
  <2>1. m \in Ink(row) /\ m \in 1..Len(row) /\ \A k \in Ink(row) : m <= k
    BY <1>3, InkWithin
  <2> HIDE DEF m
  <2>2. m \in Ink(more) /\ \A k \in Ink(more) : m <= k
    BY <1>0, <1>2, <2>1
  <2>3. Ink(more) \subseteq Nat
    BY <1>0, InkWithin
  <2>4. Min(Ink(more)) = m
    BY <2>2, <2>3, LeastIs
  <2>5. HasInk(more)
    BY <2>2 DEF HasInk
  <2>6. FirstInk(more) = FirstInk(row)
    BY <1>0, <2>1, <2>4 DEF FirstInk, m
  <2>7. /\ Trimmed(row) \in Seq(ConfChar) /\ Len(Trimmed(row)) = Len(row) - m + 1
        /\ \A k \in 1..Len(row) - m + 1 : Trimmed(row)[k] = row[m + k - 1]
    BY <1>3, Trim DEF m
  <2>8. /\ Trimmed(more) \in Seq(ConfChar) /\ Len(Trimmed(more)) = Len(more) - m + 1
        /\ \A k \in 1..Len(more) - m + 1 : Trimmed(more)[k] = more[m + k - 1]
    BY <1>0, <2>4, <2>5, Trim
  <2>9. Trimmed(more) = Append(Trimmed(row), c)
    <3> DEFINE t == Append(Trimmed(row), c)
               n == Len(row) - m + 1
    <3>1. /\ t \in Seq(ConfChar) /\ Len(t) = n + 1 /\ n \in Nat
          /\ (\A k \in 1..n : t[k] = row[m + k - 1]) /\ t[n + 1] = c
      <4>1. n \in Nat /\ Len(Trimmed(row)) = n
        BY <2>1, <2>7
      <4>2. /\ t \in Seq(ConfChar) /\ Len(t) = n + 1 /\ t[n + 1] = c
            /\ \A k \in 1..n : t[k] = Trimmed(row)[k]
        BY <2>7, <4>1, AppendProperties
      <4> HIDE DEF t
      <4> QED BY <2>7, <4>1, <4>2
    <3> HIDE DEF t
    <3>2. ASSUME NEW k \in 1..n + 1 PROVE Trimmed(more)[k] = t[k]
      <4>1. CASE k = n + 1
        <5>1. m + k - 1 = Len(row) + 1 /\ k \in 1..Len(more) - m + 1
          BY <1>0, <2>1, <4>1
        <5> QED BY <1>0, <2>8, <3>1, <4>1, <5>1
      <4>2. CASE k # n + 1
        <5>1. m + k - 1 \in 1..Len(row) /\ k \in 1..n /\ k \in 1..Len(more) - m + 1
          BY <1>0, <2>1, <4>2
        <5> QED BY <1>0, <2>8, <3>1, <5>1
      <4> QED BY <4>1, <4>2
    <3>3. Len(Trimmed(more)) = n + 1
      BY <1>0, <2>1, <2>8
    <3> HIDE DEF n
    <3>4. Trimmed(more) = t
      BY <2>8, <3>1, <3>2, <3>3, SeqEqual
    <3> QED BY <3>4 DEF t
  <2> QED BY <1>3, <2>5, <2>6, <2>9
<1>4. CASE ~HasInk(row) /\ c # Space
  <2>1. \A k : k \in Ink(more) <=> k = Len(row) + 1
    BY <1>2, <1>4 DEF HasInk
  <2>2. Min(Ink(more)) = Len(row) + 1 /\ HasInk(more)
    <3>1. Len(row) + 1 \in Ink(more) /\ \A k \in Ink(more) : Len(row) + 1 <= k
      BY <1>0, <2>1
    <3>2. Ink(more) \subseteq Nat
      BY <1>0, InkWithin
    <3> QED BY <3>1, <3>2, LeastIs DEF HasInk
  <2>3. FirstInk(more) = c
    BY <1>0, <2>2 DEF FirstInk
  <2>4. Trimmed(more) \in Seq(ConfChar) /\ Len(Trimmed(more)) = 1 /\ Trimmed(more)[1] = c
    <3>1. Len(more) - Min(Ink(more)) + 1 = 1
      BY <1>0, <2>2
    <3> HIDE DEF HasInk, FirstInk
    <3> QED BY <1>0, <2>2, <2>3, <3>1, Trim
  <2>5. Trimmed(more) = <<c>>
    BY <2>4
  <2> QED BY <1>4, <2>2, <2>3, <2>5
<1>5. CASE ~HasInk(row) /\ c = Space
  BY <1>2, <1>5 DEF HasInk
<1> QED BY <1>3, <1>4, <1>5

-----------------------------------------------------------------------------
(*                       The characters that are ink                       *)

LEMMA InkedGrows ==
    ASSUME NEW row \in Seq(ConfChar), NEW c \in ConfChar, NEW more, more = Append(row, c)
    PROVE  /\ Inked(row) \in Seq(ConfChar) /\ Inked(more) \in Seq(ConfChar)
           /\ Inked(more) = IF c = Space THEN Inked(row) ELSE Append(Inked(row), c)
<1> DEFINE I == Ink(row)
           J == Ink(more)
<1>0. /\ more \in Seq(ConfChar) /\ Len(row) \in Nat
      /\ \A k \in 1..Len(row) : more[k] = row[k] /\ row[k] \in ConfChar
      /\ more[Len(row) + 1] = c
  OBVIOUS
<1>1. Within(I, Len(row)) /\ Cardinality(I) \in Nat
  BY InkWithin, Positions
<1>2. \A n \in 1..Cardinality(I) : Nth(I, n) \in 1..Len(row)
  BY <1>1, NthIs DEF Within
<1>3. /\ Array(Inked(row), Cardinality(I))
      /\ \A n \in 1..Cardinality(I) : Inked(row)[n] = row[Nth(I, n)]
  BY DEF Inked, Array
<1>4. Inked(row) \in Seq(ConfChar) /\ Len(Inked(row)) = Cardinality(I)
  <2> HIDE DEF I
  <2>1. \A n \in 1..Cardinality(I) : Inked(row)[n] \in ConfChar
    BY <1>0, <1>2, <1>3
  <2>2. Len(Inked(row)) = Cardinality(I)
    BY <1>1, <1>3, ArrayIsSeq
  <2>3. Inked(row) \in [1..Cardinality(I) -> ConfChar]
    BY <1>3, <2>1 DEF Array
  <2>4. Inked(row) \in Seq(ConfChar)
    BY <1>1, <2>3, SeqDef
  <2> QED BY <2>2, <2>4
<1>5. CASE c = Space
  <2>1. J = I
    BY <1>5, InkOfMore
  <2>2. Cardinality(J) = Cardinality(I) /\ \A n : Nth(J, n) = Nth(I, n)
    BY <2>1, Zenon
  <2>3. Array(Inked(more), Cardinality(J))
        /\ \A n \in 1..Cardinality(J) : Inked(more)[n] = more[Nth(J, n)]
    BY DEF Inked, Array
  <2> HIDE DEF I, J
  <2>4. Array(Inked(more), Cardinality(I))
        /\ \A n \in 1..Cardinality(I) : Inked(more)[n] = Inked(row)[n]
    BY <1>0, <1>2, <1>3, <2>2, <2>3
  <2>5. Inked(more) = Inked(row)
    BY <1>1, <1>3, <2>4, SameArray
  <2> QED BY <1>4, <1>5, <2>5
<1>6. CASE c # Space
  <2>1. IsMore(J, I, Len(row) + 1, Len(row))
    BY <1>6, InkOfMore
  <2>2. /\ Cardinality(J) = Cardinality(I) + 1
        /\ \A n \in 1..Cardinality(I) : Nth(J, n) = Nth(I, n)
        /\ Nth(J, Cardinality(I) + 1) = Len(row) + 1
    <3> HIDE DEF I, J
    <3> QED BY <2>1, NthOfMore
  <2>3. Array(Inked(more), Cardinality(J))
        /\ \A n \in 1..Cardinality(J) : Inked(more)[n] = more[Nth(J, n)]
    BY DEF Inked, Array
  <2> DEFINE s == Inked(row)
             t == Append(s, c)
             m == Cardinality(I)
  <2>4. s \in Seq(ConfChar) /\ Len(s) = m /\ m \in Nat /\ m + 1 \in Nat
    BY <1>1, <1>4
  <2> HIDE DEF I, J, s
  <2>5. /\ t \in Seq(ConfChar) /\ Len(t) = m + 1 /\ t[m + 1] = c
        /\ \A n \in 1..m : t[n] = s[n]
    BY <2>4, AppendProperties
  <2>6. Len(Inked(more)) = m + 1 /\ Inked(more)[m + 1] = c
        /\ \A n \in 1..m : Inked(more)[n] = s[n]
    <3>1. Len(Inked(more)) = m + 1
      BY <2>2, <2>3, <2>4, ArrayIsSeq
    <3>2. Inked(more)[m + 1] = c
      <4>1. m + 1 \in 1..Cardinality(J)
        BY <2>2, <2>4
      <4> QED BY <1>0, <2>2, <2>3, <4>1
    <3>3. ASSUME NEW n \in 1..m PROVE Inked(more)[n] = s[n]
      <4>1. n \in 1..Cardinality(J)
        BY <2>2, <2>4
      <4>2. Inked(more)[n] = more[Nth(I, n)]
        BY <2>2, <2>3, <4>1
      <4> QED BY <1>0, <1>2, <1>3, <4>2 DEF s
    <3> QED BY <3>1, <3>2, <3>3
  <2>7. Array(Inked(more), m + 1) /\ Array(t, m + 1)
    <3>1. Array(Inked(more), m + 1)
      BY <2>2, <2>3
    <3>2. Array(t, m + 1)
      <4> HIDE DEF t
      <4> QED BY <2>5 DEF Array
    <3> QED BY <3>1, <3>2
  <2> HIDE DEF t, m
  <2>8. \A n \in 1..m + 1 : Inked(more)[n] = t[n]
    <3>1. \A n \in 1..m + 1 : n = m + 1 \/ n \in 1..m
      BY <2>4
    <3> QED BY <2>5, <2>6, <3>1
  <2>9. Inked(more) = t
    BY <2>4, <2>7, <2>8, SameArray
  <2> QED BY <1>4, <1>6, <2>5, <2>9 DEF t, s
<1> QED BY <1>5, <1>6

LEMMA InkedNone ==
    ASSUME NEW row \in Seq(ConfChar), ~HasInk(row)
    PROVE  Inked(row) = <<>>
<1>1. Ink(row) = {}
  BY DEF HasInk
<1>2. Cardinality(Ink(row)) = 0
  BY <1>1, FS_EmptySet, Zenon
<1>3. Array(Inked(row), 0)
  BY <1>2 DEF Inked, Array
<1>4. Len(Inked(row)) = 0 /\ Inked(row) \in Seq({Inked(row)[k] : k \in 1..0})
  BY <1>3, ArrayIsSeq
<1> QED BY <1>4

LEMMA ConcatAppend ==
    ASSUME NEW s \in Seq(ConfChar), NEW t \in Seq(ConfChar), NEW c \in ConfChar
    PROVE  Append(s \o t, c) = s \o Append(t, c)
<1>1. <<c>> \in Seq(ConfChar) /\ s \o t \in Seq(ConfChar)
  OBVIOUS
<1>2. Append(t, c) = t \o <<c>> /\ Append(s \o t, c) = (s \o t) \o <<c>>
  BY <1>1, AppendIsConcat
<1> QED BY <1>1, <1>2, ConcatAssociative

LEMMA ConcatThree ==
    ASSUME NEW s \in Seq(ConfChar), NEW t \in Seq(ConfChar), NEW u \in Seq(ConfChar)
    PROVE  (s \o t) \o u = s \o (t \o u)
BY ConcatAssociative

(* The ink of a row behind another one is behind that one's. *)
LEMMA InkedConcat ==
    ASSUME NEW s \in Seq(ConfChar), NEW t \in Seq(ConfChar)
    PROVE  Inked(s \o t) = Inked(s) \o Inked(t)
<1> DEFINE InkJoins(n) == \A u \in Seq(ConfChar) :
                            Len(u) = n => Inked(s \o u) = Inked(s) \o Inked(u)
           bad == {n \in Nat : ~InkJoins(n)}
<1>1. ASSUME bad # {} PROVE FALSE
  <2> HIDE DEF bad
  <2>1. bad \subseteq Nat
    BY DEF bad
  <2>2. PICK n \in bad : \A l \in bad : ~(<<l, n>> \in OpToRel(<, Nat))
    BY <1>1, <2>1, WFMin, NatLessThanWellFounded
  <2>3. n \in Nat /\ ~InkJoins(n) /\ \A l \in Nat : l < n => InkJoins(l)
    BY <2>1, <2>2 DEF OpToRel, bad
  <2>4. PICK u \in Seq(ConfChar) : Len(u) = n /\ Inked(s \o u) # Inked(s) \o Inked(u)
    BY <2>3
  <2>5. CASE n = 0
    <3>1. u = <<>>
      BY <2>4, <2>5
    <3>2. Inked(u) = <<>>
      <4>1. ~HasInk(u)
        BY <3>1 DEF HasInk, Ink
      <4> QED BY <4>1, InkedNone
    <3>3. s \o u = s
      BY <3>1
    <3>4. Inked(s) \in Seq(ConfChar)
      BY InkedGrows, Chars
    <3>5. Inked(s) \o <<>> = Inked(s)
      BY <3>4
    <3> QED BY <2>4, <3>2, <3>3, <3>5, Zenon
  <2>6. CASE n # 0
    <3>1. PICK v \in Seq(ConfChar), c \in ConfChar : u = Append(v, c)
      <4>1. u # <<>>
        BY <2>4, <2>6
      <4> QED BY <4>1, SequenceEmptyOrAppend
    <3>2. Len(v) \in Nat /\ Len(v) < n
      BY <2>4, <3>1
    <3>3. Inked(s \o v) = Inked(s) \o Inked(v)
      BY <2>3, <3>2
    <3>4. s \o v \in Seq(ConfChar) /\ s \o u = Append(s \o v, c)
      BY <3>1
    <3>5. /\ Inked(u) = IF c = Space THEN Inked(v) ELSE Append(Inked(v), c)
          /\ Inked(v) \in Seq(ConfChar)
      BY <3>1, InkedGrows
    <3>6. /\ Inked(s \o u) = IF c = Space THEN Inked(s \o v) ELSE Append(Inked(s \o v), c)
      BY <3>4, InkedGrows
    <3>7. Inked(s) \in Seq(ConfChar)
      BY InkedGrows, Chars
    <3>8. Append(Inked(s) \o Inked(v), c) = Inked(s) \o Append(Inked(v), c)
      <4>1. Inked(v) \in Seq(ConfChar)
        BY <3>5
      <4> QED BY <3>7, <4>1, ConcatAppend
    <3> QED BY <2>4, <3>3, <3>5, <3>6, <3>8, Zenon
  <2> QED BY <2>5, <2>6
<1>2. Len(t) \in Nat
  OBVIOUS
<1>3. InkJoins(Len(t))
  BY <1>1, <1>2
<1> QED BY <1>3

-----------------------------------------------------------------------------
(*                        The rows of what was read                        *)

Breaks(s) == {k \in DOMAIN s : s[k] = Newline}
RowCount(s) == Cardinality(Breaks(s)) + 1
RowStart(s, n) == IF n = 1 THEN 1 ELSE Nth(Breaks(s), n - 1) + 1
RowStop(s, n) == IF n = RowCount(s) THEN Len(s) ELSE Nth(Breaks(s), n) - 1

LEMMA RowBounds ==
    ASSUME NEW s \in Seq(ConfChar)
    PROVE  /\ Rows(s) = [n \in 1..RowCount(s) |-> SubSeq(s, RowStart(s, n), RowStop(s, n))]
           /\ RowCount(s) \in Nat \ {0} /\ Within(Breaks(s), Len(s))
           /\ \A n \in 1..RowCount(s) : /\ RowStart(s, n) \in 1..Len(s) + 1
                                        /\ RowStop(s, n) \in 0..Len(s)
<1>1. Rows(s) = [n \in 1..RowCount(s) |-> SubSeq(s, RowStart(s, n), RowStop(s, n))]
  BY DEF Rows, RowCount, RowStart, RowStop, Breaks
<1>2. Within(Breaks(s), Len(s))
  <2>1. Len(s) \in Nat /\ DOMAIN s = 1..Len(s)
    OBVIOUS
  <2> QED BY <2>1 DEF Within, Breaks
<1>3. Cardinality(Breaks(s)) \in Nat
  BY <1>2, Positions
<1>4. \A n \in 1..Cardinality(Breaks(s)) : Nth(Breaks(s), n) \in 1..Len(s)
  BY <1>2, NthIs DEF Within
<1>5. ASSUME NEW n \in 1..RowCount(s)
      PROVE  RowStart(s, n) \in 1..Len(s) + 1 /\ RowStop(s, n) \in 0..Len(s)
  <2>1. Len(s) \in Nat
    OBVIOUS
  <2>2. /\ n # 1 => n - 1 \in 1..Cardinality(Breaks(s))
        /\ n # RowCount(s) => n \in 1..Cardinality(Breaks(s))
    BY <1>3 DEF RowCount
  <2>3. RowStart(s, n) \in 1..Len(s) + 1
    BY <1>4, <2>1, <2>2 DEF RowStart
  <2>4. RowStop(s, n) \in 0..Len(s)
    BY <1>4, <2>1, <2>2 DEF RowStop
  <2> QED BY <2>3, <2>4
<1> QED BY <1>1, <1>2, <1>3, <1>5 DEF RowCount

LEMMA SubSeqIs ==
    ASSUME NEW s \in Seq(ConfChar), NEW a \in 1..Len(s) + 1, NEW b \in 0..Len(s)
    PROVE  /\ SubSeq(s, a, b) \in Seq(ConfChar)
           /\ Len(SubSeq(s, a, b)) = IF a <= b THEN b - a + 1 ELSE 0
           /\ \A k \in 1..b - a + 1 : SubSeq(s, a, b)[k] = s[a + k - 1]
<1>1. /\ a \in Int /\ b \in Int /\ Len(s) \in Nat
      /\ \A k \in a..b : s[k] \in ConfChar
  OBVIOUS
<1> QED BY <1>1, SubSeqProperties

LEMMA SameSubSeq ==
    ASSUME NEW s \in Seq(ConfChar), NEW t \in Seq(ConfChar), Len(s) <= Len(t),
           \A k \in 1..Len(s) : t[k] = s[k],
           NEW a \in 1..Len(s) + 1, NEW b \in 0..Len(s)
    PROVE  SubSeq(t, a, b) = SubSeq(s, a, b)
<1> DEFINE p == SubSeq(s, a, b)
           q == SubSeq(t, a, b)
<1>1. Len(s) \in Nat /\ Len(t) \in Nat /\ a \in 1..Len(t) + 1 /\ b \in 0..Len(t)
  OBVIOUS
<1>2. /\ p \in Seq(ConfChar) /\ Len(p) = IF a <= b THEN b - a + 1 ELSE 0
      /\ \A k \in 1..b - a + 1 : p[k] = s[a + k - 1]
  BY SubSeqIs
<1>3. /\ q \in Seq(ConfChar) /\ Len(q) = IF a <= b THEN b - a + 1 ELSE 0
      /\ \A k \in 1..b - a + 1 : q[k] = t[a + k - 1]
  BY <1>1, SubSeqIs
<1> HIDE DEF p, q
<1>4. \A k \in 1..Len(p) : k \in 1..b - a + 1 /\ a + k - 1 \in 1..Len(s)
  BY <1>1, <1>2
<1>5. \A k \in 1..Len(p) : p[k] = q[k]
  BY <1>2, <1>3, <1>4
<1>6. p = q
  BY <1>2, <1>3, <1>5, SeqEqual
<1> QED BY <1>6 DEF p, q

LEMMA OneMoreChar ==
    ASSUME NEW s \in Seq(ConfChar), NEW t \in Seq(ConfChar), NEW n, Len(s) = n, Len(t) = n + 1,
           \A k \in 1..n : t[k] = s[k], NEW c, t[n + 1] = c
    PROVE  t = Append(s, c)
<1> DEFINE r == Append(s, c)
<1>0. n \in Nat /\ c \in ConfChar
  OBVIOUS
<1>1. /\ r \in Seq(ConfChar) /\ Len(r) = n + 1 /\ r[n + 1] = c
      /\ \A k \in 1..n : r[k] = s[k]
  BY <1>0, AppendProperties
<1> HIDE DEF r
<1>2. \A k \in 1..n + 1 : k = n + 1 \/ k \in 1..n
  BY <1>0
<1>3. \A k \in 1..Len(t) : t[k] = r[k]
  BY <1>1, <1>2
<1>4. t = r
  BY <1>1, <1>3, SeqEqual
<1> QED BY <1>4 DEF r

LEMMA SubSeqOfMore ==
    ASSUME NEW s \in Seq(ConfChar), NEW c \in ConfChar, NEW a \in 1..Len(s) + 1
    PROVE  /\ \A b \in 0..Len(s) : SubSeq(Append(s, c), a, b) = SubSeq(s, a, b)
           /\ SubSeq(Append(s, c), a, Len(s) + 1) = Append(SubSeq(s, a, Len(s)), c)
<1> DEFINE more == Append(s, c)
<1>0. /\ more \in Seq(ConfChar) /\ Len(s) \in Nat /\ Len(more) = Len(s) + 1
      /\ \A k \in 1..Len(s) : more[k] = s[k]
      /\ more[Len(s) + 1] = c
  BY AppendProperties
<1> HIDE DEF more
<1>1. ASSUME NEW b \in 0..Len(s) PROVE SubSeq(more, a, b) = SubSeq(s, a, b)
  BY <1>0, SameSubSeq
<1>2. SubSeq(more, a, Len(s) + 1) = Append(SubSeq(s, a, Len(s)), c)
  <2> DEFINE l == Len(s)
             n == l - a + 1
             p == SubSeq(more, a, l + 1)
             q == SubSeq(s, a, l)
  <2>1. /\ n \in Nat /\ l \in 0..Len(s) /\ l + 1 \in 0..Len(more) /\ a \in 1..Len(more) + 1
        /\ a <= l + 1 /\ l + 1 - a + 1 = n + 1 /\ (a <= l <=> n # 0) /\ l - a + 1 = n
    BY <1>0
  <2>2. /\ q \in Seq(ConfChar) /\ Len(q) = IF a <= l THEN l - a + 1 ELSE 0
        /\ \A k \in 1..l - a + 1 : q[k] = s[a + k - 1]
    BY <2>1, SubSeqIs
  <2>3. /\ p \in Seq(ConfChar) /\ Len(p) = IF a <= l + 1 THEN l + 1 - a + 1 ELSE 0
        /\ \A k \in 1..l + 1 - a + 1 : p[k] = more[a + k - 1]
    BY <1>0, <2>1, SubSeqIs
  <2> HIDE DEF p, q
  <2>4. Len(q) = n /\ Len(p) = n + 1
    BY <2>1, <2>2, <2>3
  <2>5. \A k \in 1..n : p[k] = q[k]
    <3> TAKE k \in 1..n
    <3>1. a + k - 1 \in 1..l /\ k \in 1..l + 1 - a + 1 /\ k \in 1..l - a + 1
      BY <1>0, <2>1
    <3>2. p[k] = more[a + k - 1] /\ q[k] = s[a + k - 1]
      BY <2>2, <2>3, <3>1
    <3> QED BY <1>0, <3>1, <3>2
  <2>6. p[n + 1] = c
    <3>1. a + (n + 1) - 1 = l + 1 /\ n + 1 \in 1..l + 1 - a + 1
      BY <1>0, <2>1
    <3> QED BY <1>0, <2>3, <3>1
  <2> HIDE DEF n
  <2>7. p = Append(q, c)
    BY <2>2, <2>3, <2>4, <2>5, <2>6, OneMoreChar
  <2> QED BY <2>7 DEF p, q
<1> QED BY <1>1, <1>2 DEF more

AreRows(rows) == rows \in Seq(Seq(ConfChar)) /\ Len(rows) \in Nat \ {0}

(* A newline starts a row, every other character belongs to the last one. *)
GrownBy(rows, more, c) ==
    /\ AreRows(rows) /\ AreRows(more)
    /\ \A k \in 1..Len(rows) : k # Len(rows) => more[k] = rows[k]
    /\ c = Newline => /\ Len(more) = Len(rows) + 1
                      /\ more[Len(rows)] = rows[Len(rows)] /\ more[Len(more)] = <<>>
    /\ c # Newline => Len(more) = Len(rows) /\ more[Len(rows)] = Append(rows[Len(rows)], c)

LEMMA RowsAre == ASSUME NEW s \in Seq(ConfChar) PROVE AreRows(Rows(s)) /\ Len(Rows(s)) = RowCount(s)
<1> DEFINE rows == Rows(s)
           n == RowCount(s)
<1>1. /\ rows = [k \in 1..n |-> SubSeq(s, RowStart(s, k), RowStop(s, k))]
      /\ n \in Nat \ {0}
      /\ \A k \in 1..n : RowStart(s, k) \in 1..Len(s) + 1 /\ RowStop(s, k) \in 0..Len(s)
  BY RowBounds
<1> HIDE DEF rows, n
<1>2. \A k \in 1..n : SubSeq(s, RowStart(s, k), RowStop(s, k)) \in Seq(ConfChar)
  BY <1>1, SubSeqIs
<1>3. rows \in [1..n -> Seq(ConfChar)]
  BY <1>1, <1>2
<1>4. rows \in Seq(Seq(ConfChar)) /\ Len(rows) = n
  BY <1>1, <1>3
<1> QED BY <1>1, <1>4 DEF AreRows, rows, n

LEMMA RowsGrow ==
    ASSUME NEW s \in Seq(ConfChar), NEW c \in ConfChar
    PROVE  GrownBy(Rows(s), Rows(Append(s, c)), c)
<1> DEFINE t == Append(s, c)
           rows == Rows(s)
           more == Rows(t)
           n == RowCount(s)
           B == Breaks(s)
           D == Breaks(t)
<1>0. /\ t \in Seq(ConfChar) /\ Len(s) \in Nat /\ Len(t) = Len(s) + 1
      /\ \A k \in 1..Len(s) : t[k] = s[k]
      /\ t[Len(s) + 1] = c /\ DOMAIN s = 1..Len(s) /\ DOMAIN t = 1..Len(s) + 1
  BY AppendProperties
<1> HIDE DEF t
<1>1. /\ \A k \in 1..n : rows[k] = SubSeq(s, RowStart(s, k), RowStop(s, k))
      /\ \A k \in 1..n : RowStart(s, k) \in 1..Len(s) + 1 /\ RowStop(s, k) \in 0..Len(s)
      /\ n \in Nat \ {0} /\ n = Cardinality(B) + 1 /\ Cardinality(B) \in Nat
  BY RowBounds, Positions DEF RowCount
<1>2. \A k \in 1..RowCount(t) : more[k] = SubSeq(t, RowStart(t, k), RowStop(t, k))
  BY <1>0, RowBounds
<1>3. AreRows(rows) /\ AreRows(more) /\ Len(rows) = n /\ Len(more) = RowCount(t)
  BY <1>0, RowsAre
<1>4. \A k \in 1..n : /\ \A b \in 0..Len(s) :
                           SubSeq(t, RowStart(s, k), b) = SubSeq(s, RowStart(s, k), b)
                      /\ SubSeq(t, RowStart(s, k), Len(s) + 1)
                           = Append(SubSeq(s, RowStart(s, k), Len(s)), c)
  BY <1>1, SubSeqOfMore DEF t
<1>5. CASE c # Newline
  <2>1. D = B
    BY <1>0, <1>5 DEF Breaks
  <2>2. Cardinality(D) = Cardinality(B) /\ \A k : Nth(D, k) = Nth(B, k)
    BY <2>1, Zenon
  <2> HIDE DEF rows, more, n, B, D
  <2>3. RowCount(t) = n
    BY <1>1, <2>2 DEF RowCount, D
  <2>4. \A k \in 1..n : RowStart(t, k) = RowStart(s, k)
    BY <2>2 DEF RowStart, B, D
  <2>5. /\ \A k \in 1..n : k # n => RowStop(t, k) = RowStop(s, k)
        /\ RowStop(t, n) = Len(s) + 1 /\ RowStop(s, n) = Len(s)
    BY <1>0, <1>1, <2>2, <2>3 DEF RowStop, B, D, n
  <2>6. \A k \in 1..n : k # n => more[k] = rows[k]
    <3> TAKE k \in 1..n
    <3>1. k # n => /\ rows[k] = SubSeq(s, RowStart(s, k), RowStop(s, k))
                   /\ more[k] = SubSeq(t, RowStart(s, k), RowStop(s, k))
      BY <1>1, <1>2, <2>3, <2>4, <2>5
    <3>2. RowStop(s, k) \in 0..Len(s)
      BY <1>1
    <3>3. SubSeq(t, RowStart(s, k), RowStop(s, k)) = SubSeq(s, RowStart(s, k), RowStop(s, k))
      BY <1>4, <3>2
    <3> QED BY <3>1, <3>3, Zenon
  <2>7. more[n] = Append(rows[n], c)
    <3>1. n \in 1..n
      BY <1>1
    <3>2. more[n] = SubSeq(t, RowStart(s, n), Len(s) + 1)
      BY <1>2, <2>3, <2>4, <2>5, <3>1
    <3>3. rows[n] = SubSeq(s, RowStart(s, n), Len(s))
      BY <1>1, <2>5, <3>1
    <3> QED BY <1>4, <3>1, <3>2, <3>3, Zenon
  <2>8. Len(more) = Len(rows) /\ Len(rows) = n
    BY <1>3, <2>3
  <2> QED BY <1>3, <1>5, <2>6, <2>7, <2>8 DEF GrownBy, rows, more, t
<1>6. CASE c = Newline
  <2>1. IsMore(D, B, Len(s) + 1, Len(s))
    <3>1. \A k : k \in D <=> (k \in B \/ k = Len(s) + 1)
      BY <1>0, <1>6 DEF Breaks
    <3>2. D = B \cup {Len(s) + 1}
      BY <3>1
    <3>3. Within(B, Len(s)) /\ Len(s) + 1 \in Nat /\ Len(s) + 1 > Len(s)
      BY <1>0, RowBounds
    <3> HIDE DEF B, D
    <3> QED BY <3>2, <3>3, Zenon DEF IsMore
  <2>2. /\ Cardinality(D) = Cardinality(B) + 1
        /\ \A k \in 1..Cardinality(B) : Nth(D, k) = Nth(B, k)
        /\ Nth(D, Cardinality(B) + 1) = Len(s) + 1
    <3> HIDE DEF B, D
    <3> QED BY <2>1, NthOfMore
  <2> HIDE DEF rows, more, n, B, D
  <2>3. RowCount(t) = n + 1
    BY <1>1, <2>2 DEF RowCount, D
  <2>4. /\ \A k \in 1..n : RowStart(t, k) = RowStart(s, k)
        /\ RowStart(t, n + 1) = Len(s) + 2
    <3>1. ASSUME NEW k \in 1..n PROVE RowStart(t, k) = RowStart(s, k)
      <4>1. k # 1 => k - 1 \in 1..Cardinality(B)
        BY <1>1
      <4> QED BY <2>2, <4>1 DEF RowStart, B, D
    <3>2. n + 1 # 1 /\ (n + 1) - 1 = Cardinality(B) + 1
      BY <1>1
    <3>3. Nth(D, (n + 1) - 1) = Len(s) + 1
      BY <2>2, <3>2
    <3> QED BY <1>0, <3>1, <3>2, <3>3 DEF RowStart, D
  <2>5. /\ \A k \in 1..n : RowStop(t, k) = RowStop(s, k)
        /\ RowStop(t, n + 1) = Len(s) + 1
    <3>1. ASSUME NEW k \in 1..n PROVE RowStop(t, k) = RowStop(s, k)
      <4>1. CASE k = n
        <5>1. RowStop(s, k) = Len(s)
          BY <4>1 DEF RowStop, n
        <5>2. RowStop(t, k) = Nth(D, Cardinality(B) + 1) - 1
          BY <1>1, <2>3, <4>1 DEF RowStop, D
        <5> QED BY <1>0, <2>2, <5>1, <5>2
      <4>2. CASE k # n
        <5>1. k \in 1..Cardinality(B) /\ k # n + 1
          BY <1>1, <4>2
        <5> QED BY <2>2, <2>3, <4>2, <5>1 DEF RowStop, B, D, n
      <4> QED BY <4>1, <4>2
    <3>2. RowStop(t, n + 1) = Len(s) + 1
      BY <1>0, <2>3 DEF RowStop
    <3> QED BY <3>1, <3>2
  <2>6. \A k \in 1..n : more[k] = rows[k]
    <3> TAKE k \in 1..n
    <3>1. k \in 1..RowCount(t)
      BY <1>1, <2>3
    <3>2. /\ rows[k] = SubSeq(s, RowStart(s, k), RowStop(s, k))
          /\ more[k] = SubSeq(t, RowStart(s, k), RowStop(s, k))
      BY <1>1, <1>2, <2>4, <2>5, <3>1
    <3>3. RowStop(s, k) \in 0..Len(s)
      BY <1>1
    <3>4. SubSeq(t, RowStart(s, k), RowStop(s, k)) = SubSeq(s, RowStart(s, k), RowStop(s, k))
      BY <1>4, <3>3
    <3> QED BY <3>2, <3>4, Zenon
  <2>7. more[n + 1] = <<>>
    <3>1. n + 1 \in 1..RowCount(t)
      BY <1>1, <2>3
    <3>2. more[n + 1] = SubSeq(t, Len(s) + 2, Len(s) + 1)
      BY <1>2, <2>4, <2>5, <3>1
    <3> QED BY <1>0, <3>2, SubSeqEmpty
  <2>8. Len(more) = n + 1 /\ Len(rows) = n /\ n \in 1..n
    BY <1>1, <1>3, <2>3
  <2> QED BY <1>3, <1>6, <2>6, <2>7, <2>8 DEF GrownBy, rows, more, t
<1> QED BY <1>5, <1>6

LEMMA RowsOfNothing == AreRows(Rows(<<>>)) /\ Len(Rows(<<>>)) = 1 /\ Rows(<<>>)[1] = <<>>
<1> DEFINE s == <<>>
<1>1. s \in Seq(ConfChar) /\ Len(s) = 0
  OBVIOUS
<1>2. Breaks(s) = {}
  BY DEF Breaks
<1>3. Cardinality(Breaks(s)) = 0
  BY <1>2, FS_EmptySet, Zenon
<1>4. RowCount(s) = 1
  BY <1>3 DEF RowCount
<1>5. RowStart(s, 1) = 1 /\ RowStop(s, 1) = 0
  BY <1>1, <1>4 DEF RowStart, RowStop
<1> HIDE DEF s
<1>6. Rows(s)[1] = SubSeq(s, 1, 0)
  <2>1. /\ Rows(s) = [k \in 1..1 |-> SubSeq(s, RowStart(s, k), RowStop(s, k))]
    BY <1>1, <1>4, RowBounds
  <2> QED BY <1>5, <2>1
<1>7. Rows(s)[1] = <<>>
  BY <1>6, SubSeqEmpty
<1> QED BY <1>1, <1>4, <1>7, RowsAre DEF s

-----------------------------------------------------------------------------
(*                  What a row is, and the line rows make                  *)

IsFirm(kind, row) ==
    HasInk(row) /\ FirstInk(row) # Comment /\ (kind = "conf" => FirstInk(row) # Backslash)

LEMMA RowsInside ==
    ASSUME NEW rows, AreRows(rows), NEW n \in 1..Len(rows)
    PROVE  rows[n] \in Seq(ConfChar) /\ Len(rows) \in Nat \ {0} /\ Len(rows) \in 1..Len(rows)
BY DEF AreRows

LEMMA CommentIs == ASSUME NEW row PROVE IsComment(row) <=> HasInk(row) /\ FirstInk(row) = Comment
BY DEF IsComment, HasInk, FirstInk

LEMMA HoldsIs ==
    ASSUME NEW kind, NEW rows, AreRows(rows), NEW n \in 1..Len(rows)
    PROVE  /\ Holds(kind, rows, n) <=>
                /\ HasInk(rows[n]) /\ ~IsComment(rows[n])
                /\ ~(/\ n < Len(rows) /\ IsContinued(kind, rows[n])
                     /\ Trimmed(rows[n]) = <<Backslash>>)
           /\ IsFirm(kind, rows[n]) => Holds(kind, rows, n)
           /\ kind # "conf" /\ Holds(kind, rows, n) => IsFirm(kind, rows[n])
<1>1. Holds(kind, rows, n) <=>
         /\ HasInk(rows[n]) /\ ~IsComment(rows[n])
         /\ ~(n < Len(rows) /\ IsContinued(kind, rows[n]) /\ Trimmed(rows[n]) = <<Backslash>>)
  BY DEF Holds, IsBlank, HasInk
<1>2. HasInk(rows[n]) => Trimmed(rows[n])[1] = FirstInk(rows[n])
  BY RowsInside, Trim
<1>3. IsContinued(kind, rows[n]) => kind = "conf"
  BY DEF IsContinued
<1>4. Trimmed(rows[n]) = <<Backslash>> => Trimmed(rows[n])[1] = Backslash
  OBVIOUS
<1> QED BY <1>1, <1>2, <1>3, <1>4, CommentIs DEF IsFirm

LEMMA SameRow ==
    ASSUME NEW kind, NEW rows, NEW more, NEW n, rows[n] = more[n], n < Len(rows), n < Len(more)
    PROVE  /\ Holds(kind, rows, n) <=> Holds(kind, more, n)
           /\ Kept(kind, rows, n) = Kept(kind, more, n)
<1>1. IsBlank(kind, rows, n) <=> IsBlank(kind, more, n)
  BY Zenon DEF IsBlank
<1>2. Holds(kind, rows, n) <=> Holds(kind, more, n)
  BY <1>1, Zenon DEF Holds
<1>3. Kept(kind, rows, n) = Kept(kind, more, n)
  BY <1>1, Zenon DEF Kept
<1> QED BY <1>2, <1>3

LEMMA BodyOfMore ==
    ASSUME NEW kind, NEW row \in Seq(ConfChar), NEW c \in ConfChar
    PROVE  /\ IsContinued(kind, Append(row, c)) <=> (kind = "conf" /\ c = Backslash)
           /\ Body(kind, Append(row, c)) =
                IF kind = "conf" /\ c = Backslash THEN row ELSE Append(row, c)
<1> DEFINE more == Append(row, c)
<1>1. /\ more \in Seq(ConfChar) /\ Len(row) \in Nat /\ Len(more) = Len(row) + 1 /\ more # <<>>
      /\ more[Len(row) + 1] = c
  BY AppendProperties
<1>2. SubSeq(more, 1, Len(row)) = row
  <2>1. 1 \in 1..Len(row) + 1 /\ Len(row) \in 0..Len(row)
    BY <1>1
  <2>2. SubSeq(more, 1, Len(row)) = SubSeq(row, 1, Len(row))
    BY <2>1, SubSeqOfMore
  <2> QED BY <2>2, SubSeqFull
<1> HIDE DEF more
<1>3. Last(more) = c /\ Front(more) = row
  <2>1. Len(more) - 1 = Len(row)
    BY <1>1
  <2> QED BY <1>1, <1>2, <2>1 DEF Last, Front
<1>4. IsContinued(kind, more) <=> (kind = "conf" /\ c = Backslash)
  BY <1>1, <1>3 DEF IsContinued
<1> QED BY <1>3, <1>4 DEF Body, more

LEMMA BodyTyped ==
    ASSUME NEW kind, NEW row \in Seq(ConfChar)
    PROVE  /\ Body(kind, row) \in Seq(ConfChar)
           /\ row = <<>> => ~IsContinued(kind, row)
           /\ ~IsContinued(kind, row) => Body(kind, row) = row
           /\ kind # "conf" => ~IsContinued(kind, row)
<1>1. ASSUME row # <<>> PROVE Front(row) \in Seq(ConfChar)
  <2>1. Len(row) - 1 \in 0..Len(row) /\ 1 \in 1..Len(row) + 1
    BY <1>1
  <2> QED BY <2>1, SubSeqIs DEF Front
<1> QED BY <1>1 DEF Body, IsContinued

Spans(rows, f, l) == AreRows(rows) /\ f \in 1..Len(rows) /\ l \in f..Len(rows)

LEMMA LineIs ==
    ASSUME NEW kind, NEW rows, NEW f, NEW l, Spans(rows, f, l)
    PROVE  /\ IsText(LineOf(kind, rows, f, l))
           /\ l = f => LineOf(kind, rows, f, l) = Trimmed(Body(kind, rows[f]))
           /\ l < Len(rows) => LineOf(kind, rows, f, l + 1)
                                 = Cat(LineOf(kind, rows, f, l), Body(kind, rows[l + 1]))
<1> DEFINE Bodies(m) == [k \in 1..m |-> Body(kind, rows[f + k])]
           start == Trimmed(Body(kind, rows[f]))
           Typed(m) == f + m <= Len(rows) => FlattenSeq(Bodies(m)) \in Seq(ConfChar)
<1>0. /\ AreRows(rows) /\ Len(rows) \in Nat /\ f \in Nat /\ l \in Nat
      /\ f \in 1..Len(rows) /\ l \in f..Len(rows)
      /\ \A k \in 1..Len(rows) : Body(kind, rows[k]) \in Seq(ConfChar)
  BY RowsInside, BodyTyped DEF AreRows, Spans
<1>1. start \in Seq(ConfChar)
  BY <1>0, Trim
<1>2. ASSUME NEW m \in Nat, f + m + 1 <= Len(rows)
      PROVE  /\ FlattenSeq(Bodies(m + 1)) = FlattenSeq(Bodies(m)) \o Body(kind, rows[f + m + 1])
             /\ m = 0 => FlattenSeq(Bodies(m)) = <<>>
  <2> DEFINE ss == Bodies(m)
             tt == Bodies(m + 1)
  <2>1. Array(ss, m) /\ Array(tt, m + 1)
    BY DEF Array
  <2>2. \A i \in 1..m : ss[i] = tt[i]
    BY <1>2
  <2>3. \A i \in 1..m + 1 : tt[i] \in Seq(ConfChar)
    <3> TAKE i \in 1..m + 1
    <3>1. f + i \in 1..Len(rows)
      BY <1>0, <1>2
    <3> QED BY <1>0, <3>1
  <2>4. tt[m + 1] = Body(kind, rows[f + m + 1])
    <3>1. m + 1 \in 1..m + 1 /\ f + (m + 1) = f + m + 1
      BY <1>0, <1>2
    <3> QED BY <3>1
  <2> HIDE DEF ss, tt
  <2>5. /\ FlattenSeq(tt) = FlattenSeq(ss) \o tt[m + 1]
        /\ m = 0 => FlattenSeq(ss) = <<>>
    BY <1>2, <2>1, <2>2, <2>3, FlattenStep
  <2> QED BY <2>4, <2>5 DEF ss, tt
<1>3. FlattenSeq(Bodies(0)) = <<>>
  BY DEF FlattenSeq
<1> HIDE DEF Bodies
<1>4. \A m \in Nat : Typed(m)
  <2> DEFINE bad == {m \in Nat : ~Typed(m)}
  <2>1. ASSUME bad # {} PROVE FALSE
    <3> HIDE DEF bad
    <3>1. bad \subseteq Nat
      BY DEF bad
    <3>2. PICK c \in bad : \A m \in bad : ~(<<m, c>> \in OpToRel(<, Nat))
      BY <2>1, <3>1, WFMin, NatLessThanWellFounded
    <3>3. c \in Nat /\ ~Typed(c) /\ \A m \in Nat : m < c => Typed(m)
      BY <3>1, <3>2 DEF OpToRel, bad
    <3>4. c # 0
      <4>1. Typed(0)
        <5>1. <<>> \in Seq(ConfChar)
          OBVIOUS
        <5> QED BY <1>3, <5>1, Zenon
      <4> HIDE DEF Typed
      <4> QED BY <3>3, <4>1, Zenon
    <3>5. c - 1 \in Nat /\ c - 1 < c /\ (c - 1) + 1 = c /\ f + (c - 1) + 1 = f + c
          /\ f + c <= Len(rows)
      BY <1>0, <3>3, <3>4
    <3>6. FlattenSeq(Bodies(c)) = FlattenSeq(Bodies(c - 1)) \o Body(kind, rows[f + c])
      BY <1>2, <3>5
    <3>7. FlattenSeq(Bodies(c - 1)) \in Seq(ConfChar)
      BY <1>0, <3>3, <3>5
    <3>8. Body(kind, rows[f + c]) \in Seq(ConfChar)
      BY <1>0, <3>5
    <3> QED BY <3>3, <3>6, <3>7, <3>8
  <2> QED BY <2>1
<1>5. \A m : LineOf(kind, rows, f, m) = start \o FlattenSeq(Bodies(m - f))
  BY DEF LineOf, Bodies
<1>6. l - f \in Nat /\ f + (l - f) <= Len(rows)
  BY <1>0
<1>7. FlattenSeq(Bodies(l - f)) \in Seq(ConfChar)
  BY <1>4, <1>6
<1>8. LineOf(kind, rows, f, l) \in Seq(ConfChar)
  <2> DEFINE b == FlattenSeq(Bodies(l - f))
  <2>1. b \in Seq(ConfChar) /\ LineOf(kind, rows, f, l) = start \o b
    BY <1>5, <1>7, Zenon
  <2> HIDE DEF start, b
  <2>2. start \o b \in Seq(ConfChar)
    BY <1>1, <2>1
  <2> QED BY <2>1, <2>2, Zenon
<1>9. ASSUME l = f PROVE LineOf(kind, rows, f, l) = start
  <2>1. l - f = 0
    BY <1>0, <1>9
  <2> QED BY <1>1, <1>3, <1>5, <2>1
<1>10. ASSUME l < Len(rows)
       PROVE  LineOf(kind, rows, f, l + 1) = LineOf(kind, rows, f, l) \o Body(kind, rows[l + 1])
  <2>1. /\ l - f + 1 = (l + 1) - f /\ f + (l - f) + 1 = l + 1 /\ f + (l - f) + 1 <= Len(rows)
        /\ l + 1 \in 1..Len(rows)
    BY <1>0, <1>10
  <2>2. FlattenSeq(Bodies((l + 1) - f)) = FlattenSeq(Bodies(l - f)) \o Body(kind, rows[l + 1])
    BY <1>2, <1>6, <2>1
  <2>3. Body(kind, rows[l + 1]) \in Seq(ConfChar)
    BY <1>0, <2>1
  <2> DEFINE a == FlattenSeq(Bodies(l - f))
             b == Body(kind, rows[l + 1])
  <2>4. LineOf(kind, rows, f, l + 1) = start \o (a \o b) /\ LineOf(kind, rows, f, l) = start \o a
    BY <1>5, <2>2, Zenon
  <2>5. a \in Seq(ConfChar) /\ b \in Seq(ConfChar)
    BY <1>7, <2>3
  <2> HIDE DEF a, b, start
  <2>6. start \o (a \o b) = (start \o a) \o b
    BY <1>1, <2>5, ConcatThree
  <2> QED BY <2>4, <2>6 DEF b
<1>11. l < Len(rows) => LineOf(kind, rows, f, l + 1)
                          = Cat(LineOf(kind, rows, f, l), Body(kind, rows[l + 1]))
  BY <1>10, Zenon DEF Cat
<1>12. IsText(LineOf(kind, rows, f, l))
  BY <1>8, Zenon DEF IsText
<1> QED BY <1>9, <1>11, <1>12, Zenon

LEMMA SameLine ==
    ASSUME NEW kind, NEW rows, NEW more, NEW f \in Nat, NEW l \in Nat, f <= l,
           \A k \in f..l : more[k] = rows[k]
    PROVE  LineOf(kind, more, f, l) = LineOf(kind, rows, f, l)
<1> DEFINE a == [k \in 1..l - f |-> Body(kind, rows[f + k])]
           b == [k \in 1..l - f |-> Body(kind, more[f + k])]
<1>1. ASSUME NEW k \in 1..l - f PROVE Body(kind, rows[f + k]) = Body(kind, more[f + k])
  <2>1. f + k \in f..l
    OBVIOUS
  <2>2. rows[f + k] = more[f + k]
    BY <2>1
  <2> QED BY <2>2, Zenon
<1>2. a = b
  BY <1>1
<1>3. more[f] = rows[f]
  OBVIOUS
<1>4. /\ LineOf(kind, rows, f, l) = Trimmed(Body(kind, rows[f])) \o FlattenSeq(a)
      /\ LineOf(kind, more, f, l) = Trimmed(Body(kind, more[f])) \o FlattenSeq(b)
  BY DEF LineOf
<1> HIDE DEF a, b
<1> QED BY <1>2, <1>3, <1>4, Zenon

LEMMA TextRows ==
    ASSUME NEW rows, AreRows(rows)
    PROVE  Len(rows) \in Nat \ {0} /\ \A n \in 1..Len(rows) : IsText(rows[n])
<1>1. \A n \in 1..Len(rows) : rows[n] \in Seq(ConfChar)
  BY RowsInside
<1> QED BY <1>1 DEF AreRows, IsText

LEMMA GrownRows ==
    ASSUME NEW rows, NEW more, NEW c, GrownBy(rows, more, c)
    PROVE  /\ AreRows(rows) /\ AreRows(more) /\ Len(rows) \in Nat \ {0}
           /\ IsText(rows[Len(rows)])
           /\ \A k \in 1..Len(rows) : k # Len(rows) => more[k] = rows[k]
           /\ c = Newline => /\ Len(more) = Len(rows) + 1
                             /\ more[Len(rows)] = rows[Len(rows)] /\ more[Len(rows) + 1] = <<>>
           /\ c # Newline => /\ Len(more) = Len(rows)
                             /\ more[Len(rows)] = Add(rows[Len(rows)], c)
<1> DEFINE n == Len(rows)
<1>1. AreRows(rows) /\ AreRows(more) /\ n \in Nat \ {0} /\ IsText(rows[n])
  <2>1. AreRows(rows) /\ AreRows(more)
    BY DEF GrownBy
  <2>2. n \in Nat \ {0} /\ n \in 1..Len(rows)
    BY <2>1 DEF AreRows
  <2> QED BY <2>1, <2>2, TextRows
<1>2. \A k \in 1..n : k # n => more[k] = rows[k]
  BY DEF GrownBy
<1>3. c = Newline => Len(more) = n + 1 /\ more[n] = rows[n] /\ more[Len(more)] = <<>>
  BY DEF GrownBy
<1>4. c # Newline => Len(more) = n /\ more[n] = Add(rows[n], c)
  BY Zenon DEF GrownBy, Add
<1> QED BY <1>1, <1>2, <1>3, <1>4, Zenon

LEMMA TrimGrows ==
    ASSUME NEW row, IsText(row), NEW c \in ConfChar
    PROVE  /\ IsText(Trimmed(row)) /\ (~HasInk(row) => Trimmed(row) = <<>>)
           /\ HasInk(row) => /\ HasInk(Add(row, c)) /\ FirstInk(Add(row, c)) = FirstInk(row)
                             /\ Trimmed(Add(row, c)) = Add(Trimmed(row), c)
           /\ ~HasInk(row) /\ c # Space => /\ HasInk(Add(row, c)) /\ FirstInk(Add(row, c)) = c
                                           /\ Trimmed(Add(row, c)) = Add(<<>>, c)
           /\ ~HasInk(row) /\ c = Space => ~HasInk(Add(row, c))
<1>1. PICK more : more = Append(row, c)
  OBVIOUS
<1>2. row \in Seq(ConfChar)
  BY DEF IsText
<1>3. /\ HasInk(row) => /\ HasInk(more) /\ FirstInk(more) = FirstInk(row)
                        /\ Trimmed(more) = Append(Trimmed(row), c)
      /\ ~HasInk(row) /\ c # Space => /\ HasInk(more) /\ FirstInk(more) = c
                                      /\ Trimmed(more) = <<c>>
      /\ ~HasInk(row) /\ c = Space => ~HasInk(more)
  BY <1>1, <1>2, TrimmedGrows, Zenon
<1>4. Add(<<>>, c) = <<c>>
  BY DEF Add
<1>5. Trimmed(row) \in Seq(ConfChar) /\ (~HasInk(row) => Trimmed(row) = <<>>)
  BY <1>2, Trim, Zenon
<1> QED BY <1>1, <1>3, <1>4, <1>5, Zenon DEF Add, IsText

LEMMA BodyGrows ==
    ASSUME NEW kind, NEW row, IsText(row), NEW c \in ConfChar
    PROVE  /\ IsContinued(kind, Add(row, c)) <=> (kind = "conf" /\ c = Backslash)
           /\ kind = "conf" /\ c = Backslash => Body(kind, Add(row, c)) = row
           /\ ~(kind = "conf" /\ c = Backslash) => Body(kind, Add(row, c)) = Add(row, c)
BY BodyOfMore, Zenon DEF IsText, Add

LEMMA BodyIs ==
    ASSUME NEW kind, NEW row, IsText(row)
    PROVE  /\ IsText(Body(kind, row))
           /\ row = <<>> => ~IsContinued(kind, row)
           /\ ~IsContinued(kind, row) => Body(kind, row) = row
           /\ kind # "conf" => ~IsContinued(kind, row)
BY BodyTyped, Zenon DEF IsText

LEMMA InkGrows ==
    ASSUME NEW row, IsText(row), NEW c \in ConfChar
    PROVE  /\ IsText(Inked(row))
           /\ Inked(Add(row, c)) = IF c = Space THEN Inked(row) ELSE Add(Inked(row), c)
<1>1. PICK more : more = Append(row, c)
  OBVIOUS
<1>2. row \in Seq(ConfChar)
  BY DEF IsText
<1>3. /\ Inked(row) \in Seq(ConfChar)
      /\ Inked(more) = IF c = Space THEN Inked(row) ELSE Append(Inked(row), c)
  BY <1>1, <1>2, InkedGrows, Zenon
<1> QED BY <1>1, <1>3, Zenon DEF Add, IsText

LEMMA InkOfCat ==
    ASSUME NEW s, NEW t, IsText(s), IsText(t)
    PROVE  Inked(Cat(s, t)) = Cat(Inked(s), Inked(t))
BY InkedConcat, Zenon DEF Cat, IsText

(* What a character makes of the line that the last rows make. *)
LEMMA LineBroken ==
    ASSUME NEW kind, NEW rows, NEW more, GrownBy(rows, more, Newline),
           NEW f, Spans(rows, f, Len(rows))
    PROVE  /\ LineOf(kind, more, f, Len(more)) = LineOf(kind, rows, f, Len(rows))
           /\ LineOf(kind, more, f, Len(rows)) = LineOf(kind, rows, f, Len(rows))
<1> DEFINE n == Len(rows)
           line == LineOf(kind, rows, f, n)
<1>1. /\ AreRows(more) /\ n \in Nat \ {0}
      /\ \A k \in 1..n : k # n => more[k] = rows[k]
      /\ Len(more) = n + 1 /\ more[n] = rows[n] /\ more[n + 1] = <<>>
  BY GrownRows
<1>2. f \in Nat /\ f <= n /\ f \in 1..n
  BY <1>1 DEF Spans
<1>3. IsText(line)
  BY LineIs
<1> HIDE DEF n
<1>4. LineOf(kind, more, f, n) = line
  <2>1. \A k \in f..n : more[k] = rows[k]
    BY <1>1, <1>2
  <2> QED BY <1>1, <1>2, <2>1, SameLine
<1>5. Spans(more, f, n) /\ n < Len(more)
  BY <1>1, <1>2 DEF Spans
<1>6. LineOf(kind, more, f, n + 1) = Cat(LineOf(kind, more, f, n), Body(kind, more[n + 1]))
  BY <1>5, LineIs
<1>7. Body(kind, more[n + 1]) = <<>>
  BY <1>1, Texts, BodyIs
<1>8. LineOf(kind, more, f, n + 1) = Cat(line, <<>>)
  BY <1>4, <1>6, <1>7, Zenon
<1>9. Cat(line, <<>>) = line
  BY <1>3, Texts, Zenon
<1> QED BY <1>1, <1>4, <1>8, <1>9, Zenon DEF line, n

LEMMA LineAdds ==
    ASSUME NEW kind, NEW rows, NEW more, NEW c \in ConfChar, c # Newline, GrownBy(rows, more, c),
           NEW f, Spans(rows, f, Len(rows)), HasInk(rows[f]),
           ~IsContinued(kind, rows[Len(rows)])
    PROVE  /\ kind = "conf" /\ c = Backslash =>
                LineOf(kind, more, f, Len(more)) = LineOf(kind, rows, f, Len(rows))
           /\ ~(kind = "conf" /\ c = Backslash) =>
                LineOf(kind, more, f, Len(more)) = Add(LineOf(kind, rows, f, Len(rows)), c)
<1> DEFINE n == Len(rows)
           row == rows[n]
           line == LineOf(kind, rows, f, n)
           escaped == kind = "conf" /\ c = Backslash
           added == IF escaped THEN row ELSE Add(row, c)
<1>1. /\ AreRows(rows) /\ AreRows(more) /\ n \in Nat \ {0}
      /\ \A k \in 1..n : k # n => more[k] = rows[k]
      /\ Len(more) = n /\ more[n] = Add(row, c) /\ IsText(row)
  BY GrownRows
<1>2. f \in Nat /\ f <= n /\ f \in 1..n /\ Spans(more, f, n)
  BY <1>1 DEF Spans
<1>3. Body(kind, row) = row
  BY <1>1, BodyIs, Zenon
<1>4. Body(kind, more[n]) = added
  BY <1>1, BodyGrows
<1> HIDE DEF n, row
<1>5. CASE f = n
  <2>1. line = Trimmed(row)
    <3>1. Spans(rows, f, n)
      BY DEF n
    <3>2. line = Trimmed(Body(kind, rows[f]))
      BY <1>5, <3>1, LineIs
    <3> QED BY <1>3, <1>5, <3>2, Zenon DEF row
  <2>2. LineOf(kind, more, f, n) = Trimmed(added)
    <3>1. LineOf(kind, more, f, n) = Trimmed(Body(kind, more[f]))
      BY <1>2, <1>5, LineIs
    <3> QED BY <1>4, <1>5, <3>1, Zenon
  <2>3. Trimmed(Add(row, c)) = Add(Trimmed(row), c)
    <3>1. HasInk(row)
      BY <1>5 DEF row
    <3> QED BY <1>1, <3>1, TrimGrows
  <2>4. Trimmed(added) = IF escaped THEN line ELSE Add(line, c)
    BY <2>1, <2>3, Zenon
  <2> QED BY <1>1, <2>2, <2>4, Zenon DEF n
<1>6. CASE f # n
  <2> DEFINE m == n - 1
             before == LineOf(kind, rows, f, m)
  <2>1. /\ m < n /\ m + 1 = n /\ m \in Nat /\ f <= m
        /\ Spans(rows, f, m) /\ Spans(more, f, m) /\ m < Len(rows) /\ m < Len(more)
    BY <1>1, <1>2, <1>6 DEF Spans, n
  <2> HIDE DEF m
  <2>2. IsText(before) /\ line = Cat(before, row)
    <3>1. /\ IsText(before)
          /\ LineOf(kind, rows, f, m + 1) = Cat(before, Body(kind, rows[m + 1]))
      BY <2>1, LineIs
    <3> QED BY <1>3, <2>1, <3>1, Zenon DEF row
  <2>3. LineOf(kind, more, f, m) = before
    <3>1. \A k \in f..m : more[k] = rows[k]
      BY <1>1, <1>2, <2>1
    <3> QED BY <1>2, <2>1, <3>1, SameLine
  <2>4. LineOf(kind, more, f, n) = Cat(before, added)
    <3>1. LineOf(kind, more, f, m + 1) = Cat(LineOf(kind, more, f, m), Body(kind, more[m + 1]))
      BY <2>1, LineIs
    <3> QED BY <1>4, <2>1, <2>3, <3>1, Zenon
  <2> HIDE DEF before
  <2>5. Cat(before, Add(row, c)) = Add(Cat(before, row), c)
    BY <1>1, <2>2, Texts
  <2>6. Cat(before, added) = IF escaped THEN line ELSE Add(line, c)
    BY <2>2, <2>5, Zenon
  <2> QED BY <1>1, <2>4, <2>6, Zenon DEF n
<1> QED BY <1>5, <1>6

-----------------------------------------------------------------------------
(*                    Rows that were skipped, and lines                    *)

Skipped(kind, rows, from, m) == \A n \in from + 1..m : ~Holds(kind, rows, n)
IsGap(kind, row) == IsContinued(kind, row) /\ Trimmed(row) = <<Backslash>>

(* The line is that of the first row that holds one. *)
Starts(kind, rows, from, line, m, f) ==
    /\ f \in from + 1..m /\ IsFirm(kind, rows[f]) /\ Skipped(kind, rows, from, f - 1)
    /\ \A k \in f..m - 1 : IsContinued(kind, rows[k])
    /\ line = LineOf(kind, rows, f, m)
Started(kind, rows, from, line, m) == \E f : Starts(kind, rows, from, line, m, f)

LEMMA SkippedGrows ==
    ASSUME NEW kind, NEW rows, NEW more, NEW c, GrownBy(rows, more, c),
           NEW from \in Nat, NEW m \in Int, m < Len(rows)
    PROVE  Skipped(kind, rows, from, m) <=> Skipped(kind, more, from, m)
<1>1. /\ AreRows(rows) /\ AreRows(more) /\ Len(rows) \in Nat \ {0}
      /\ \A k \in 1..Len(rows) : k # Len(rows) => more[k] = rows[k]
      /\ c = Newline => Len(more) = Len(rows) + 1
      /\ c # Newline => Len(more) = Len(rows)
  BY GrownRows
<1>2. ASSUME NEW n \in from + 1..m PROVE Holds(kind, rows, n) <=> Holds(kind, more, n)
  <2>1. n \in 1..Len(rows) /\ n < Len(rows) /\ n < Len(more)
    BY <1>1
  <2>2. rows[n] = more[n]
    BY <1>1, <2>1
  <2> QED BY <2>1, <2>2, SameRow
<1> QED BY <1>2 DEF Skipped

LEMMA RowSkipped ==
    ASSUME NEW kind, NEW rows, NEW more, GrownBy(rows, more, Newline), NEW from \in Nat,
           Skipped(kind, rows, from, Len(rows) - 1),
           \/ ~HasInk(rows[Len(rows)]) \/ IsComment(rows[Len(rows)])
           \/ IsGap(kind, rows[Len(rows)])
    PROVE  Skipped(kind, more, from, Len(rows))
<1> DEFINE n == Len(rows)
<1>1. /\ AreRows(more) /\ n \in Nat \ {0} /\ Len(more) = n + 1 /\ more[n] = rows[n]
  BY GrownRows
<1>2. n \in 1..Len(more) /\ n < Len(more) /\ n - 1 \in Int /\ n - 1 < Len(rows)
  BY <1>1
<1>3. Skipped(kind, more, from, n - 1)
  BY <1>2, SkippedGrows
<1>4. ~Holds(kind, more, n)
  BY <1>1, <1>2, HoldsIs DEF IsGap
<1> HIDE DEF n
<1>5. \A k \in from + 1..n : k = n \/ k \in from + 1..n - 1
  BY <1>1
<1>6. Skipped(kind, more, from, n)
  BY <1>3, <1>4, <1>5 DEF Skipped
<1> QED BY <1>6 DEF n

LEMMA StartsIs ==
    ASSUME NEW kind, NEW rows, AreRows(rows), NEW from \in Nat, NEW line, NEW m \in 1..Len(rows),
           NEW f, Starts(kind, rows, from, line, m, f)
    PROVE  /\ f \in Nat \ {0} /\ f \in from + 1..m /\ f \in 1..Len(rows) /\ f <= m
           /\ Spans(rows, f, m)
           /\ IsFirm(kind, rows[f]) /\ HasInk(rows[f]) /\ Skipped(kind, rows, from, f - 1)
           /\ \A k \in f..m - 1 : IsContinued(kind, rows[k])
           /\ line = LineOf(kind, rows, f, m) /\ IsText(line)
<1>1. m \in Nat /\ Len(rows) \in Nat /\ m <= Len(rows)
  BY DEF AreRows
<1>2. f \in from + 1..m /\ IsFirm(kind, rows[f]) /\ line = LineOf(kind, rows, f, m)
      /\ Skipped(kind, rows, from, f - 1) /\ \A k \in f..m - 1 : IsContinued(kind, rows[k])
  BY DEF Starts
<1>3. f \in Nat \ {0} /\ f \in 1..Len(rows) /\ f <= m /\ m \in f..Len(rows)
  BY <1>1, <1>2
<1>4. Spans(rows, f, m)
  BY <1>3 DEF Spans
<1> QED BY <1>2, <1>3, <1>4, LineIs DEF IsFirm

(* A line ends, with its row or at a continuation ... *)
LEMMA LineEnds ==
    ASSUME NEW kind, NEW rows, NEW more, GrownBy(rows, more, Newline),
           NEW from \in Nat, NEW line, Started(kind, rows, from, line, Len(rows))
    PROVE  /\ Started(kind, more, from, line, Len(rows))
           /\ IsContinued(kind, rows[Len(rows)]) => Started(kind, more, from, line, Len(more))
<1> DEFINE n == Len(rows)
<1>1. /\ AreRows(rows) /\ n \in Nat \ {0} /\ \A k \in 1..n : k # n => more[k] = rows[k]
      /\ Len(more) = n + 1 /\ more[n] = rows[n] /\ n \in 1..Len(rows)
  BY GrownRows
<1>2. PICK f : Starts(kind, rows, from, line, n, f)
  BY DEF Started
<1>3. /\ f \in Nat \ {0} /\ f \in from + 1..n /\ f <= n /\ Spans(rows, f, n)
      /\ IsFirm(kind, rows[f]) /\ Skipped(kind, rows, from, f - 1)
      /\ \A k \in f..n - 1 : IsContinued(kind, rows[k])
      /\ line = LineOf(kind, rows, f, n)
  BY <1>1, <1>2, StartsIs
<1>4. \A k \in 1..n : more[k] = rows[k]
  BY <1>1
<1>5. /\ LineOf(kind, more, f, Len(more)) = line
      /\ LineOf(kind, more, f, n) = line
  BY <1>3, LineBroken
<1>6. Skipped(kind, more, from, f - 1)
  BY <1>1, <1>3, SkippedGrows
<1> HIDE DEF n
<1>7. IsFirm(kind, more[f]) /\ \A k \in f..n - 1 : IsContinued(kind, more[k])
  <2>1. f \in 1..n /\ \A k \in f..n - 1 : k \in 1..n
    BY <1>1, <1>3
  <2>2. more[f] = rows[f] /\ \A k \in f..n - 1 : more[k] = rows[k]
    BY <1>4, <2>1
  <2> QED BY <1>3, <2>2
<1>8. Starts(kind, more, from, line, n, f)
  BY <1>3, <1>5, <1>6, <1>7 DEF Starts
<1>9. ASSUME IsContinued(kind, rows[n]) PROVE Starts(kind, more, from, line, Len(more), f)
  <2>1. \A k \in f..Len(more) - 1 : IsContinued(kind, more[k])
    <3> TAKE k \in f..Len(more) - 1
    <3>1. k = n \/ k \in f..n - 1
      BY <1>1, <1>3
    <3> QED BY <1>1, <1>7, <1>9, <3>1
  <2>2. f \in from + 1..Len(more)
    BY <1>1, <1>3
  <2> QED BY <1>5, <1>6, <1>7, <2>1, <2>2 DEF Starts
<1> QED BY <1>8, <1>9 DEF Started, n

(* ... starts ... *)
LEMMA LineStarts ==
    ASSUME NEW kind, NEW rows, NEW more, NEW c \in ConfChar, GrownBy(rows, more, c),
           NEW from \in Nat, from < Len(rows), Skipped(kind, rows, from, Len(rows) - 1),
           ~HasInk(rows[Len(rows)]), c \notin {Newline, Space, Comment},
           kind = "conf" => c # Backslash
    PROVE  Started(kind, more, from, Add(<<>>, c), Len(rows))
<1> DEFINE n == Len(rows)
           row == rows[n]
<1>1. /\ AreRows(more) /\ n \in Nat \ {0} /\ IsText(row) /\ Len(more) = n
      /\ more[n] = Add(row, c)
  BY GrownRows
<1>2. /\ HasInk(more[n]) /\ FirstInk(more[n]) = c /\ Trimmed(more[n]) = Add(<<>>, c)
  BY <1>1, TrimGrows
<1>3. Body(kind, more[n]) = more[n]
  BY <1>1, BodyGrows
<1>4. Skipped(kind, more, from, n - 1)
  BY <1>1, SkippedGrows
<1> HIDE DEF n, row
<1>5. Spans(more, n, n)
  BY <1>1 DEF Spans
<1>6. LineOf(kind, more, n, n) = Add(<<>>, c)
  BY <1>2, <1>3, <1>5, LineIs
<1>7. IsFirm(kind, more[n])
  BY <1>2 DEF IsFirm
<1>8. n \in from + 1..n
  BY <1>1 DEF n
<1>9. \A k \in n..n - 1 : IsContinued(kind, more[k])
  BY <1>1
<1> QED BY <1>4, <1>6, <1>7, <1>8, <1>9 DEF Started, Starts, n

(* ... and grows. *)
LEMMA LineGoesOn ==
    ASSUME NEW kind, NEW rows, NEW more, NEW c \in ConfChar, GrownBy(rows, more, c), c # Newline,
           NEW from \in Nat, NEW line, Started(kind, rows, from, line, Len(rows)),
           ~IsContinued(kind, rows[Len(rows)])
    PROVE  Started(kind, more, from, IF kind = "conf" /\ c = Backslash THEN line ELSE Add(line, c),
                   Len(rows))
<1> DEFINE n == Len(rows)
           longer == IF kind = "conf" /\ c = Backslash THEN line ELSE Add(line, c)
<1>1. /\ AreRows(rows) /\ n \in Nat \ {0} /\ \A k \in 1..n : k # n => more[k] = rows[k]
      /\ Len(more) = n /\ more[n] = Add(rows[n], c) /\ n \in 1..Len(rows) /\ IsText(rows[n])
  BY GrownRows
<1>2. PICK f : Starts(kind, rows, from, line, n, f)
  BY DEF Started
<1>3. /\ f \in Nat \ {0} /\ f \in from + 1..n /\ f <= n /\ Spans(rows, f, n)
      /\ IsFirm(kind, rows[f]) /\ HasInk(rows[f]) /\ Skipped(kind, rows, from, f - 1)
      /\ \A k \in f..n - 1 : IsContinued(kind, rows[k])
      /\ line = LineOf(kind, rows, f, n)
  BY <1>1, <1>2, StartsIs
<1>5. LineOf(kind, more, f, n) = longer
  <2>1. /\ kind = "conf" /\ c = Backslash =>
             LineOf(kind, more, f, Len(more)) = LineOf(kind, rows, f, Len(rows))
        /\ ~(kind = "conf" /\ c = Backslash) =>
             LineOf(kind, more, f, Len(more)) = Add(LineOf(kind, rows, f, Len(rows)), c)
    BY <1>3, LineAdds
  <2> QED BY <1>1, <1>3, <2>1, Zenon
<1>6. Skipped(kind, more, from, f - 1)
  BY <1>1, <1>3, SkippedGrows
<1>7. IsFirm(kind, more[f])
  <2>1. CASE f = n
    <3>1. HasInk(more[n]) /\ FirstInk(more[n]) = FirstInk(rows[n])
      BY <1>1, <1>3, <2>1, TrimGrows
    <3> QED BY <1>3, <2>1, <3>1 DEF IsFirm
  <2>2. CASE f # n
    BY <1>1, <1>3, <2>2
  <2> QED BY <2>1, <2>2
<1> HIDE DEF n, longer
<1>8. \A k \in f..n - 1 : IsContinued(kind, more[k])
  <2> TAKE k \in f..n - 1
  <2>1. k \in 1..n /\ k # n
    BY <1>1, <1>3
  <2> QED BY <1>1, <1>3, <2>1
<1> QED BY <1>3, <1>5, <1>6, <1>7, <1>8 DEF Started, Starts, n, longer

-----------------------------------------------------------------------------
(*                           Rows that are copied                          *)

KeptUpTo(kind, rows, m) == FlattenSeq([n \in 1..m |-> Kept(kind, rows, n)])

LEMMA KeptIs ==
    ASSUME NEW kind, NEW rows, AreRows(rows), NEW n \in 1..Len(rows)
    PROVE  /\ IsText(Kept(kind, rows, n))
           /\ ~HasInk(rows[n]) =>
                Kept(kind, rows, n) = IF n < Len(rows) THEN Add(<<>>, Newline) ELSE <<>>
           /\ kind # "conf" /\ IsComment(rows[n]) =>
                Kept(kind, rows, n) = IF n < Len(rows) THEN Add(rows[n], Newline) ELSE rows[n]
           /\ kind # "conf" /\ IsFirm(kind, rows[n]) =>
                Kept(kind, rows, n) = Add(rows[n], Newline)
<1> DEFINE row == IF IsBlank(kind, rows, n) THEN <<>> ELSE rows[n]
<1>1. IsText(rows[n]) /\ IsText(<<>>) /\ Newline \in ConfChar
  BY TextRows, Texts, Chars
<1>2. Kept(kind, rows, n) = IF n < Len(rows) \/ Holds(kind, rows, n) THEN Add(row, Newline) ELSE row
  BY Zenon DEF Kept, Add
<1>3. IsText(row)
  BY <1>1, Zenon
<1>4. IsText(Add(row, Newline))
  <2> HIDE DEF row
  <2> QED BY <1>1, <1>3, Texts
<1>5. IsBlank(kind, rows, n) <=> (~HasInk(rows[n]) \/ (n < Len(rows) /\ IsGap(kind, rows[n])))
  BY Zenon DEF IsBlank, HasInk, IsGap
<1>6. /\ ~HasInk(rows[n]) => ~Holds(kind, rows, n)
      /\ IsComment(rows[n]) => ~Holds(kind, rows, n) /\ HasInk(rows[n])
      /\ IsFirm(kind, rows[n]) => Holds(kind, rows, n) /\ HasInk(rows[n])
  BY HoldsIs, CommentIs DEF IsFirm
<1>7. kind # "conf" => ~IsGap(kind, rows[n])
  BY DEF IsGap, IsContinued
<1>8. IsText(Kept(kind, rows, n))
  BY <1>2, <1>3, <1>4, Zenon
<1>9. ASSUME ~HasInk(rows[n])
      PROVE  Kept(kind, rows, n) = IF n < Len(rows) THEN Add(<<>>, Newline) ELSE <<>>
  BY <1>2, <1>5, <1>6, <1>9, Zenon
<1>10. ASSUME kind # "conf", IsComment(rows[n])
       PROVE  Kept(kind, rows, n) = IF n < Len(rows) THEN Add(rows[n], Newline) ELSE rows[n]
  BY <1>2, <1>5, <1>6, <1>7, <1>10, Zenon
<1>11. ASSUME kind # "conf", IsFirm(kind, rows[n])
       PROVE  Kept(kind, rows, n) = Add(rows[n], Newline)
  BY <1>2, <1>5, <1>6, <1>7, <1>11, Zenon
<1> QED BY <1>8, <1>9, <1>10, <1>11, Zenon

LEMMA KeptStep ==
    ASSUME NEW kind, NEW rows, AreRows(rows), NEW m \in Nat, m < Len(rows)
    PROVE  KeptUpTo(kind, rows, m + 1) = Cat(KeptUpTo(kind, rows, m), Kept(kind, rows, m + 1))
<1> DEFINE ss == [n \in 1..m |-> Kept(kind, rows, n)]
           tt == [n \in 1..m + 1 |-> Kept(kind, rows, n)]
<1>1. Array(ss, m) /\ Array(tt, m + 1)
  BY DEF Array
<1>2. \A i \in 1..m : ss[i] = tt[i]
  OBVIOUS
<1>3. \A i \in 1..m + 1 : tt[i] \in Seq(ConfChar)
  <2> TAKE i \in 1..m + 1
  <2>1. i \in 1..Len(rows)
    BY DEF AreRows
  <2>2. IsText(Kept(kind, rows, i))
    BY <2>1, KeptIs
  <2> QED BY <2>2 DEF IsText
<1>4. tt[m + 1] = Kept(kind, rows, m + 1)
  OBVIOUS
<1>5. KeptUpTo(kind, rows, m) = FlattenSeq(ss) /\ KeptUpTo(kind, rows, m + 1) = FlattenSeq(tt)
  BY DEF KeptUpTo
<1> HIDE DEF ss, tt
<1>6. FlattenSeq(tt) = FlattenSeq(ss) \o tt[m + 1]
  BY <1>1, <1>2, <1>3, FlattenStep
<1> QED BY <1>4, <1>5, <1>6, Zenon DEF Cat

LEMMA KeptNone == ASSUME NEW kind, NEW rows PROVE KeptUpTo(kind, rows, 0) = <<>>
BY DEF KeptUpTo, FlattenSeq

LEMMA KeptTyped ==
    ASSUME NEW kind, NEW rows, AreRows(rows), NEW m \in Nat, m <= Len(rows)
    PROVE  IsText(KeptUpTo(kind, rows, m))
<1> DEFINE bad == {k \in Nat : k <= Len(rows) /\ ~IsText(KeptUpTo(kind, rows, k))}
<1>0. Len(rows) \in Nat \ {0}
  BY DEF AreRows
<1>1. ASSUME bad # {} PROVE FALSE
  <2> HIDE DEF bad
  <2>1. bad \subseteq Nat
    BY DEF bad
  <2>2. PICK k \in bad : \A l \in bad : ~(<<l, k>> \in OpToRel(<, Nat))
    BY <1>1, <2>1, WFMin, NatLessThanWellFounded
  <2>3. /\ k \in Nat /\ k <= Len(rows) /\ ~IsText(KeptUpTo(kind, rows, k))
        /\ \A l \in Nat : l < k /\ l <= Len(rows) => IsText(KeptUpTo(kind, rows, l))
    BY <2>1, <2>2 DEF OpToRel, bad
  <2>4. CASE k = 0
    BY <2>3, <2>4, KeptNone, Texts
  <2>5. CASE k # 0
    <3> DEFINE l == k - 1
    <3>1. l \in Nat /\ l < k /\ l < Len(rows) /\ l + 1 = k /\ k \in 1..Len(rows) /\ l <= Len(rows)
      BY <1>0, <2>3, <2>5
    <3> HIDE DEF l
    <3>2. IsText(KeptUpTo(kind, rows, l)) /\ IsText(Kept(kind, rows, k))
      BY <2>3, <3>1, KeptIs
    <3>3. KeptUpTo(kind, rows, k) = Cat(KeptUpTo(kind, rows, l), Kept(kind, rows, k))
      BY <3>1, KeptStep
    <3> QED BY <2>3, <3>2, <3>3, Texts
  <2> QED BY <2>4, <2>5
<1> QED BY <1>1

LEMMA KeptGrows ==
    ASSUME NEW kind, NEW rows, NEW more, NEW c, GrownBy(rows, more, c),
           NEW m \in Nat, m < Len(rows)
    PROVE  KeptUpTo(kind, more, m) = KeptUpTo(kind, rows, m)
<1>1. /\ Len(rows) \in Nat \ {0}
      /\ \A k \in 1..Len(rows) : k # Len(rows) => more[k] = rows[k]
      /\ c = Newline => Len(more) = Len(rows) + 1
      /\ c # Newline => Len(more) = Len(rows)
  BY GrownRows
<1>2. ASSUME NEW n \in 1..m PROVE Kept(kind, rows, n) = Kept(kind, more, n)
  <2>1. n \in 1..Len(rows) /\ n < Len(rows) /\ n < Len(more) /\ n # Len(rows)
    BY <1>1
  <2>2. rows[n] = more[n]
    BY <1>1, <2>1
  <2> QED BY <2>1, <2>2, SameRow
<1>3. [n \in 1..m |-> Kept(kind, rows, n)] = [n \in 1..m |-> Kept(kind, more, n)]
  BY <1>2
<1> QED BY <1>3, Zenon DEF KeptUpTo

(* No comment was indented. *)
Tidy(rows, from) ==
    \A n \in 1..Len(rows) : n > from /\ IsComment(rows[n]) => ~IsIndented(rows[n])

LEMMA TidyBefore ==
    ASSUME NEW rows, NEW more, NEW c \in ConfChar, GrownBy(rows, more, c),
           NEW from, Tidy(more, from)
    PROVE  Tidy(rows, from)
<1> DEFINE n == Len(rows)
<1>1. /\ n \in Nat \ {0} /\ \A k \in 1..n : k # n => more[k] = rows[k]
      /\ c = Newline => Len(more) = n + 1 /\ more[n] = rows[n]
      /\ c # Newline => Len(more) = n /\ more[n] = Add(rows[n], c)
      /\ IsText(rows[n])
  BY GrownRows
<1> HIDE DEF n
<1>2. n \in 1..Len(more)
  BY <1>1
<1>3. IsComment(rows[n]) /\ IsIndented(rows[n]) => IsComment(more[n]) /\ IsIndented(more[n])
  <2>1. CASE c = Newline
    BY <1>1, <2>1
  <2>2. CASE c # Newline
    <3> SUFFICES ASSUME IsComment(rows[n]), IsIndented(rows[n])
                 PROVE  IsComment(more[n]) /\ IsIndented(more[n])
      OBVIOUS
    <3>1. HasInk(rows[n]) /\ FirstInk(rows[n]) = Comment /\ rows[n][1] = Space
      BY CommentIs DEF IsIndented
    <3>2. HasInk(more[n]) /\ FirstInk(more[n]) = Comment
      BY <1>1, <2>2, <3>1, TrimGrows
    <3>3. 1 \in 1..Len(rows[n])
      <4>1. rows[n] \in Seq(ConfChar)
        BY <1>1 DEF IsText
      <4>2. Min(Ink(rows[n])) \in 1..Len(rows[n]) /\ Len(rows[n]) \in Nat
        BY <3>1, <4>1, InkWithin
      <4> QED BY <4>2
    <3>4. more[n][1] = rows[n][1]
      BY <1>1, <2>2, <3>3, Texts
    <3> QED BY <3>1, <3>2, <3>4, CommentIs DEF IsIndented, HasInk
  <2> QED BY <2>1, <2>2
<1>4. ASSUME NEW k \in 1..n, k > from, IsComment(rows[k]) PROVE ~IsIndented(rows[k])
  <2>1. k \in 1..Len(more)
    BY <1>1
  <2>2. CASE k = n
    BY <1>2, <1>3, <1>4, <2>2 DEF Tidy
  <2>3. CASE k # n
    <3>1. more[k] = rows[k]
      BY <1>1, <2>3
    <3>2. IsComment(more[k]) => ~IsIndented(more[k])
      BY <1>4, <2>1 DEF Tidy
    <3> QED BY <1>4, <3>1, <3>2
  <2> QED BY <2>2, <2>3
<1> QED BY <1>4 DEF Tidy, n

(* The copy has what the rows have, but for the blanks of indented comments. *)
Same(tidy, s, t) == IsText(s) /\ IsText(t) /\ Inked(s) = Inked(t) /\ (tidy => s = t)

LEMMA SameCat ==
    ASSUME NEW tidy, NEW tidier, NEW s, NEW t, NEW u, NEW v, Same(tidy, s, t), Same(tidy, u, v),
           tidier => tidy
    PROVE  Same(tidier, Cat(s, u), Cat(t, v))
<1>1. /\ IsText(s) /\ IsText(t) /\ IsText(u) /\ IsText(v)
      /\ Inked(s) = Inked(t) /\ Inked(u) = Inked(v)
  BY DEF Same
<1>2. IsText(Cat(s, u)) /\ IsText(Cat(t, v))
  BY <1>1, Texts
<1>3. Inked(Cat(s, u)) = Cat(Inked(s), Inked(u)) /\ Inked(Cat(t, v)) = Cat(Inked(t), Inked(v))
  BY <1>1, InkOfCat
<1>4. Inked(Cat(s, u)) = Inked(Cat(t, v))
  BY <1>1, <1>3, Zenon
<1>5. tidier => Cat(s, u) = Cat(t, v)
  BY Zenon DEF Same
<1> QED BY <1>2, <1>4, <1>5 DEF Same

LEMMA SameSelf == ASSUME NEW tidy, NEW s, IsText(s) PROVE Same(tidy, s, s)
BY DEF Same

(* The blanks before a comment. *)
Blanks(n) == [k \in 1..n |-> Space]

LEMMA BlanksAre ==
    ASSUME NEW n \in Nat
    PROVE  /\ IsText(Blanks(n)) /\ Len(Blanks(n)) = n /\ Inked(Blanks(n)) = <<>>
           /\ Blanks(n) = <<>> <=> n = 0
<1> DEFINE s == Blanks(n)
<1>1. s \in Seq(ConfChar) /\ Len(s) = n
  BY Chars DEF Blanks
<1>2. Ink(s) = {}
  BY DEF Ink, Blanks
<1> HIDE DEF s
<1>3. Inked(s) = <<>>
  BY <1>1, <1>2, InkedNone DEF HasInk
<1> QED BY <1>1, <1>3, Texts DEF IsText, s

LEMMA BlankRow ==
    ASSUME NEW row, IsText(row), ~HasInk(row)
    PROVE  Inked(row) = <<>> /\ row = Blanks(Len(row))
<1>1. row \in Seq(ConfChar) /\ Ink(row) = {}
  BY DEF IsText, HasInk
<1>2. Inked(row) = <<>>
  BY <1>1, InkedNone
<1>3. \A k \in 1..Len(row) : row[k] = Space
  BY <1>1 DEF Ink
<1>4. row = [k \in 1..Len(row) |-> row[k]]
  BY <1>1
<1>5. [k \in 1..Len(row) |-> row[k]] = [k \in 1..Len(row) |-> Space]
  BY <1>3
<1> QED BY <1>2, <1>4, <1>5, Zenon DEF Blanks

-----------------------------------------------------------------------------
(*                   The invariant of a parser that reads                  *)

InFile(c) == c.kind \in {"key", "pf"}
Reads(c) == c.at \in {"reading", "comment", "escape"}
HasLine(c) == c.at = "line" \/ (c.at = "returned" /\ c.rc > 0)

(* Rows are counted when they end; a line that the file ends does, too.     *)
RowsCounted(c, rows, e) ==
    LET n == Len(rows) IN
    /\ c.at = "idle" => c = Idle /\ n = 1 /\ rows[1] = <<>> /\ ~e
    /\ Reads(c) /\ ~e => c.rc = n - 1 /\ c.row < n
    /\ Reads(c) /\ e => /\ c.at = "reading" /\ c.rc = n /\ c.line = <<>> /\ c.ns = 0
                        /\ c.row <= n /\ (~c.copy => c.row = n)
    /\ HasLine(c) => /\ c.line # <<>> /\ c.row < c.rc /\ c.rc <= n /\ c.rc > 0
                     /\ IF e THEN c.rc = n ELSE c.rc = n - 1 /\ rows[n] = <<>>
                     /\ c.rc < n => ~IsContinued(c.kind, rows[c.rc])
    /\ c.copy => c.row = 0 /\ InFile(c) /\ (c.at = "returned" => c.rc <= 0)
    /\ c.oom => c.at = "returned" /\ c.rc <= 0
    /\ c.kind = "conf" => c.ns = 0

(* What is in the last row. *)
Current(c, row, e) ==
    ~e => /\ c.at = "reading" => ~IsContinued(c.kind, row) /\ (c.line = <<>> => ~HasInk(row))
          /\ c.at = "comment" => c.line = <<>> /\ IsComment(row)
          /\ c.at = "escape" => /\ c.kind = "conf" /\ IsContinued(c.kind, row)
                                /\ c.line = <<>> => IsGap(c.kind, row)

(* What was skipped, and what the line is. *)
LastRow(c, rows) == IF Reads(c) THEN Len(rows) ELSE c.rc
Gathered(c, rows) ==
    Reads(c) \/ HasLine(c) =>
      /\ c.line = <<>> /\ ~c.copy => Skipped(c.kind, rows, c.row, c.rc)
      /\ c.line # <<>> /\ ~c.copy =>
           Started(c.kind, rows, c.row, c.line, LastRow(c, rows))
      /\ c.line # <<>> /\ InFile(c) =>
           c.line = rows[LastRow(c, rows)] /\ IsFirm(c.kind, rows[LastRow(c, rows)])

(* The blanks that were counted, in key and pass-phrase files. *)
Blanked(c, rows, e) ==
    InFile(c) /\ ~e =>
      LET size == Len(rows[Len(rows)]) IN
      /\ c.at = "reading" /\ c.line = <<>> => c.ns >= size /\ (Tidy(rows, c.row) => c.ns = size)
      /\ c.at = "reading" /\ c.line # <<>> => c.ns = 0
      /\ c.at = "comment" /\ Tidy(rows, c.row) => c.ns = 0

(* What was copied. *)
CopiedIs(c, rows, e) ==
    c.copy =>
      LET tidy == Tidy(rows, 0)
          n == Len(rows)
      IN
      /\ c.at = "reading" /\ ~e => Same(tidy, c.tofp, KeptUpTo(c.kind, rows, n - 1))
      /\ c.at = "reading" /\ e => Same(tidy, c.tofp, KeptUpTo(c.kind, rows, n))
      /\ c.at = "comment" => Same(tidy, c.tofp, Cat(KeptUpTo(c.kind, rows, n - 1), rows[n]))
      /\ c.at = "line" => Same(tidy, c.tofp, KeptUpTo(c.kind, rows, c.rc - 1))

(* What a call says when it has no record. *)
Refused(c, rows, f) == f \in c.row + 1..Len(rows) /\ Holds(c.kind, rows, f)
AnswerIs(c, rows, e) ==
    c.at = "returned" /\ ~c.oom =>
      /\ c.rc = 0 /\ c.copy /\ e => Same(Tidy(rows, 0), c.tofp, KeptUpTo(c.kind, rows, Len(rows)))
      /\ c.rc < 0 => \E f : Refused(c, rows, f)

LinesAre(c, rows, e) ==
    /\ RowsCounted(c, rows, e) /\ Current(c, rows[Len(rows)], e) /\ Gathered(c, rows)
    /\ Blanked(c, rows, e) /\ CopiedIs(c, rows, e) /\ AnswerIs(c, rows, e)
HasNoEOF(s) == \E T : s \in Seq(T) /\ EOF \notin T
NothingAhead == ahead.is => HasNoEOF(ahead.text) /\ (ended => ahead.text = <<>>)
RecordInv == LinesAre(conf, Rows(text), ended) /\ NothingAhead

LEMMA Distinct ==
    /\ Newline # Comment /\ Newline # Space /\ Newline # Backslash /\ Newline # EOF
    /\ Comment # Space /\ Comment # Backslash /\ Comment # EOF
    /\ Space # Backslash /\ Space # EOF /\ Backslash # EOF
    /\ Newline \in ConfChar /\ Comment \in ConfChar /\ Space \in ConfChar
    /\ Backslash \in ConfChar /\ EOF \notin ConfChar
    /\ \A kind : CharsOf(kind) \subseteq ConfChar
    /\ Hex \subseteq ConfChar
<1>1. HexDigits[1] \in Hex
  <2>1. HexDigits # <<>> /\ HexDigits \in Seq(Hex)
    BY CharsAssumption
  <2> QED BY <2>1
<1>2. EOF \notin NameChars \cup Hex
  BY CharsAssumption
<1>3. EOF \notin ConfChar
  BY <1>1, <1>2 DEF ConfChar, CharsOf, EOF, Newline, Comment, Space, Backslash
<1> QED BY <1>3, Chars DEF EOF, Newline, Comment, Space, Backslash

LEMMA OneCharacter ==
    ASSUME FileTypes, NothingAhead, NEW c \in ConfChar, Getc(c)
    PROVE  /\ GrownBy(Rows(text), Rows(text'), c)
           /\ ~ended /\ ~ended' /\ NothingAhead'
<1>1. c # EOF
  BY Distinct
<1>2. text' = Append(text, c) /\ ended' = ended
  BY <1>1 DEF Getc, FileTypes
<1>3. ~ended
  <2>1. CASE ahead.is
    BY <1>1, <2>1 DEF Getc, NothingAhead
  <2>2. CASE ~ahead.is
    BY <1>1, <2>2 DEF Getc
  <2> QED BY <2>1, <2>2
<1>4. text \in Seq(ConfChar)
  BY DEF FileTypes
<1>5. GrownBy(Rows(text), Rows(Append(text, c)), c)
  BY <1>4, RowsGrow
<1>6. NothingAhead'
  <2>1. CASE ~ahead.is
    BY <1>1, <2>1 DEF Getc, NothingAhead
  <2>2. CASE ahead.is
    <3>1. PICK T : ahead.text \in Seq(T) /\ EOF \notin T
      BY <2>2 DEF NothingAhead, HasNoEOF
    <3>2. ahead.text # <<>>
      BY <1>1, <2>2 DEF Getc
    <3>3. Tail(ahead.text) \in Seq(T)
      BY <3>1, <3>2
    <3>4. ahead' = [ahead EXCEPT !.text = Tail(ahead.text)]
      BY <1>1, <2>2 DEF Getc
    <3> DEFINE t == Tail(ahead.text)
    <3> HIDE DEF t
    <3>5. ahead'.text = t
      BY <3>4 DEF FileTypes, t
    <3>6. ahead'.text \in Seq(T)
      BY <3>3, <3>5, Zenon DEF t
    <3> QED BY <1>2, <1>3, <3>1, <3>6 DEF NothingAhead, HasNoEOF
  <2> QED BY <2>1, <2>2
<1> QED BY <1>2, <1>3, <1>5, <1>6, Zenon

LEMMA NoMoreCharacters ==
    ASSUME NothingAhead, Getc(EOF)
    PROVE  /\ Rows(text') = Rows(text) /\ ended' /\ NothingAhead'
<1>1. text' = text /\ ahead' = ahead /\ ended'
  BY DEF Getc
<1>2. ahead.is => ahead.text = <<>>
  <2>1. ahead.is /\ ahead.text # <<>> => EOF = Head(ahead.text)
    BY DEF Getc
  <2>2. ASSUME NEW T, ahead.text \in Seq(T), EOF \notin T, ahead.text # <<>>
        PROVE  EOF # Head(ahead.text)
    BY <2>2
  <2> QED BY <2>1, <2>2 DEF NothingAhead, HasNoEOF
<1>3. Rows(text') = Rows(text)
  BY <1>1, Zenon
<1> QED BY <1>1, <1>2, <1>3 DEF NothingAhead

-----------------------------------------------------------------------------
(*                          The steps of a parser                          *)

(* What is known of a call that reads before the end of the file. *)
LEMMA AtReading ==
    ASSUME ConfTypes, RecordInv, Reads(conf), ~ended
    PROVE  LET rows == Rows(text)
               n == Len(rows)
               row == rows[n]
           IN
           /\ LinesAre(conf, rows, ended)
           /\ conf.rc = n - 1 /\ conf.row < n /\ conf.row \in Nat /\ conf.ns \in Nat
           /\ n \in Nat \ {0}
           /\ conf.copy => conf.row = 0 /\ InFile(conf)
           /\ conf.kind = "conf" => conf.ns = 0
           /\ ~conf.oom /\ IsText(row)
           /\ conf.line = <<>> /\ ~conf.copy => Skipped(conf.kind, rows, conf.row, n - 1)
           /\ conf.line # <<>> /\ ~conf.copy => Started(conf.kind, rows, conf.row, conf.line, n)
           /\ conf.line # <<>> /\ InFile(conf) => conf.line = row /\ IsFirm(conf.kind, row)
           /\ InFile(conf) => conf.kind # "conf"
<1> DEFINE rows == Rows(text)
           n == Len(rows)
           row == rows[n]
<1>1. LinesAre(conf, rows, ended) /\ CallTypes /\ text \in Seq(ConfChar)
  BY DEF RecordInv, ConfTypes, FileTypes
<1>2. AreRows(rows)
  BY <1>1, RowsAre
<1> HIDE DEF rows
<1>3. n \in Nat \ {0} /\ IsText(row)
  BY <1>2, TextRows
<1>4. conf.at # "returned" /\ ~HasLine(conf)
  BY DEF Reads, HasLine
<1>5. /\ conf.rc = n - 1 /\ conf.row < n /\ ~conf.oom
      /\ conf.copy => conf.row = 0 /\ InFile(conf)
      /\ conf.kind = "conf" => conf.ns = 0
  BY <1>1, <1>4 DEF LinesAre, RowsCounted
<1>6. /\ conf.line = <<>> /\ ~conf.copy => Skipped(conf.kind, rows, conf.row, n - 1)
      /\ conf.line # <<>> /\ ~conf.copy => Started(conf.kind, rows, conf.row, conf.line, n)
      /\ conf.line # <<>> /\ InFile(conf) => conf.line = row /\ IsFirm(conf.kind, row)
  <2>1. LastRow(conf, rows) = n
    BY DEF LastRow
  <2>2. Gathered(conf, rows)
    BY <1>1 DEF LinesAre
  <2> HIDE DEF n
  <2> QED BY <1>5, <2>1, <2>2, Zenon DEF Gathered
<1>7. conf.row \in Nat /\ conf.ns \in Nat
  BY <1>1 DEF CallTypes
<1>8. InFile(conf) => conf.kind # "conf"
  BY DEF InFile
<1> QED BY <1>1, <1>3, <1>5, <1>6, <1>7, <1>8, Zenon DEF rows

(* The step ends no call: what it has to keep. *)
LEMMA StillReads ==
    ASSUME NEW d, NEW more, NEW m, m = Len(more), AreRows(more), Reads(d),
           NEW from \in Nat, d.row = from, NEW rc, d.rc = rc,
           rc = m - 1, from < m, ~d.oom, d.copy => from = 0 /\ InFile(d),
           d.kind = "conf" => d.ns = 0,
           d.line = <<>> /\ ~d.copy => Skipped(d.kind, more, from, m - 1),
           d.line # <<>> /\ ~d.copy => Started(d.kind, more, from, d.line, m),
           d.line # <<>> /\ InFile(d) => d.line = more[m] /\ IsFirm(d.kind, more[m]),
           Current(d, more[m], FALSE), Blanked(d, more, FALSE), CopiedIs(d, more, FALSE)
    PROVE  LinesAre(d, more, FALSE)
<1>1. d.at \notin {"idle", "line", "returned"} /\ ~HasLine(d)
  BY DEF Reads, HasLine
<1>2. RowsCounted(d, more, FALSE)
  BY <1>1 DEF RowsCounted
<1>3. LastRow(d, more) = m
  BY DEF LastRow
<1>4. Gathered(d, more)
  BY <1>3, Zenon DEF Gathered
<1>5. AnswerIs(d, more, FALSE)
  BY <1>1 DEF AnswerIs
<1> QED BY <1>2, <1>4, <1>5, Zenon DEF LinesAre

LEMMA EndLineKeeps == ASSUME ConfTypes, RecordInv, EndLine PROVE RecordInv'
<1> DEFINE rows == Rows(text)
           more == Rows(text')
           n == Len(rows)
           from == conf.row
           kind == conf.kind
<1>1. GrownBy(rows, more, Newline) /\ ended = FALSE /\ ended' = FALSE /\ NothingAhead'
  <2>1. Getc(Newline) /\ FileTypes /\ NothingAhead /\ Newline \in ConfChar
    BY Distinct DEF EndLine, ConfTypes, RecordInv
  <2>2. GrownBy(rows, more, Newline) /\ ~ended /\ ~ended' /\ NothingAhead'
    BY <2>1, OneCharacter
  <2> QED BY <2>2, CharacterRead DEF ConfTypes, FileTypes
<1>2. conf.at = "reading" /\ Reads(conf) /\ ConfIsRecord
  BY DEF EndLine, Reads, ConfTypes, CallTypes
<1>3. /\ LinesAre(conf, rows, FALSE)
      /\ conf.rc = n - 1 /\ from < n /\ from \in Nat /\ n \in Nat \ {0}
      /\ conf.copy => from = 0 /\ InFile(conf)
      /\ conf.kind = "conf" => conf.ns = 0
      /\ ~conf.oom
      /\ conf.line = <<>> /\ ~conf.copy => Skipped(kind, rows, from, n - 1)
      /\ conf.line # <<>> /\ ~conf.copy => Started(kind, rows, from, conf.line, n)
      /\ conf.line # <<>> /\ InFile(conf) => conf.line = rows[n] /\ IsFirm(kind, rows[n])
      /\ InFile(conf) => kind # "conf"
  BY <1>1, <1>2, AtReading
<1>4. /\ AreRows(rows) /\ AreRows(more) /\ IsText(rows[n])
      /\ Len(more) = n + 1 /\ more[n] = rows[n] /\ more[n + 1] = <<>>
      /\ \A k \in 1..n : k # n => more[k] = rows[k]
  BY <1>1, GrownRows
<1>5. /\ ~IsContinued(kind, rows[n]) /\ (conf.line = <<>> => ~HasInk(rows[n]))
      /\ conf.copy => Same(Tidy(rows, 0), conf.tofp, KeptUpTo(kind, rows, n - 1))
  BY <1>2, <1>3 DEF LinesAre, Current, CopiedIs
<1>6. /\ Tidy(more, 0) => Tidy(rows, 0)
      /\ KeptUpTo(kind, more, n - 1) = KeptUpTo(kind, rows, n - 1)
  <2>1. n - 1 \in Nat /\ n - 1 < Len(rows) /\ Newline \in ConfChar
    BY <1>3, Distinct
  <2> QED BY <1>1, <2>1, KeptGrows, TidyBefore
<1>7. conf.copy => Same(Tidy(more, 0), conf.tofp, KeptUpTo(kind, more, n - 1))
  BY <1>5, <1>6 DEF Same
<1> HIDE DEF rows, more, n
<1>8. CASE conf.line # <<>>
  <2>1. Became("line", conf.rc + 1, conf.line, conf.ns, conf.tofp, conf.result, conf.oom)
    BY <1>2, <1>8 DEF EndLine, Became, ConfIsRecord
  <2>2. /\ conf'.kind = kind /\ conf'.copy = conf.copy /\ conf'.at = "line" /\ conf'.row = from
        /\ conf'.rc = n /\ conf'.line = conf.line /\ conf'.ns = conf.ns /\ conf'.tofp = conf.tofp
        /\ conf'.oom = conf.oom
    BY <1>3, <2>1 DEF Became
  <2>3. ~Reads(conf') /\ HasLine(conf')
    BY <2>2 DEF Reads, HasLine
  <2>4. RowsCounted(conf', more, FALSE)
    BY <1>3, <1>4, <1>5, <1>8, <2>2, <2>3 DEF RowsCounted, InFile
  <2>5. Current(conf', more[Len(more)], FALSE)
    BY <2>2 DEF Current
  <2>6. Gathered(conf', more)
    <3>1. LastRow(conf', more) = n
      BY <2>2, <2>3 DEF LastRow
    <3>2. ~conf.copy => Started(kind, more, from, conf.line, n)
      BY <1>1, <1>3, <1>8, LineEnds DEF n
    <3> QED BY <1>3, <1>4, <1>8, <2>2, <3>1, <3>2, Zenon DEF Gathered, InFile
  <2>7. Blanked(conf', more, FALSE)
    BY <2>2 DEF Blanked
  <2>8. CopiedIs(conf', more, FALSE)
    BY <1>7, <2>2 DEF CopiedIs
  <2>9. AnswerIs(conf', more, FALSE)
    BY <2>2 DEF AnswerIs
  <2> QED BY <1>1, <2>4, <2>5, <2>6, <2>7, <2>8, <2>9, Zenon DEF RecordInv, LinesAre, more
<1>9. CASE conf.line = <<>>
  <2> DEFINE copied == Copied(<<Newline>>)
  <2>1. Became("reading", conf.rc + 1, conf.line, 0, copied, conf.result, conf.oom)
    BY <1>2, <1>9 DEF EndLine, Became, ConfIsRecord
  <2> HIDE DEF copied
  <2>2. /\ conf'.kind = kind /\ conf'.copy = conf.copy /\ conf'.at = "reading" /\ conf'.row = from
        /\ conf'.rc = n /\ conf'.line = <<>> /\ conf'.ns = 0 /\ conf'.tofp = copied
        /\ conf'.oom = conf.oom
    BY <1>3, <1>9, <2>1 DEF Became
  <2>3. Reads(conf') /\ (InFile(conf') <=> InFile(conf))
    BY <2>2 DEF Reads, InFile
  <2>4. ~conf.copy => Skipped(kind, more, from, n)
    BY <1>1, <1>3, <1>5, <1>9, RowSkipped DEF n
  <2>5. Current(conf', more[n + 1], FALSE)
    <3>1. ~HasInk(more[n + 1])
      BY <1>4 DEF HasInk, Ink
    <3>2. ~IsContinued(kind, more[n + 1])
      BY <1>4 DEF IsContinued
    <3> QED BY <2>2, <3>1, <3>2 DEF Current
  <2>6. Blanked(conf', more, FALSE)
    BY <1>4, <2>2 DEF Blanked
  <2>7. CopiedIs(conf', more, FALSE)
    <3>1. CASE conf.copy
      <4>1. n - 1 \in Nat /\ n - 1 < Len(more) /\ (n - 1) + 1 = n
            /\ n \in 1..Len(more) /\ n < Len(more)
        BY <1>3, <1>4
      <4>2. KeptUpTo(kind, more, n) = Cat(KeptUpTo(kind, more, n - 1), Kept(kind, more, n))
        BY <1>4, <4>1, KeptStep
      <4>3. Kept(kind, more, n) = Add(<<>>, Newline)
        BY <1>4, <1>5, <1>9, <4>1, KeptIs
      <4>4. copied = Cat(conf.tofp, Add(<<>>, Newline))
        <5>1. <<Newline>> = Append(<<>>, Newline)
          OBVIOUS
        <5> QED BY <3>1, <5>1, Zenon DEF copied, Copied, Cat, Add
      <4>5. IsText(Add(<<>>, Newline))
        BY Texts, Distinct
      <4>6. Same(Tidy(more, 0), Add(<<>>, Newline), Kept(kind, more, n))
        BY <4>3, <4>5 DEF Same
      <4>7. Same(Tidy(more, 0), Cat(conf.tofp, Add(<<>>, Newline)), KeptUpTo(kind, more, n))
        BY <1>7, <3>1, <4>2, <4>6, SameCat
      <4>8. Same(Tidy(more, 0), conf'.tofp, KeptUpTo(kind, more, Len(more) - 1))
        <5>1. Len(more) - 1 = n
          BY <1>3, <1>4
        <5> QED BY <2>2, <4>4, <4>7, <5>1, Zenon
      <4> QED BY <2>2, <4>8 DEF CopiedIs
    <3>2. CASE ~conf.copy
      BY <2>2, <3>2 DEF CopiedIs
    <3> QED BY <3>1, <3>2
  <2>8. LinesAre(conf', more, FALSE)
    <3> DEFINE m == n + 1
    <3>1. /\ m = Len(more) /\ conf'.rc = m - 1 /\ from < m /\ from \in Nat /\ m - 1 = n
      BY <1>3, <1>4, <2>2
    <3> HIDE DEF m
    <3>2. Current(conf', more[m], FALSE) /\ (~conf'.copy => Skipped(conf'.kind, more, from, m - 1))
      BY <2>2, <2>4, <2>5, <3>1 DEF m
    <3> QED BY <1>3, <1>4, <2>2, <2>3, <2>6, <2>7, <3>1, <3>2, StillReads
  <2> QED BY <1>1, <2>8, Zenon DEF RecordInv, more
<1> QED BY <1>8, <1>9

(* What is known of a step that reads a character. *)
LEMMA ReadsOn ==
    ASSUME ConfTypes, RecordInv, Reads(conf), NEW c \in ConfChar, Getc(c)
    PROVE  LET rows == Rows(text)
               more == Rows(text')
               n == Len(rows)
               from == conf.row
               kind == conf.kind
           IN
           /\ GrownBy(rows, more, c) /\ ended = FALSE /\ ended' = FALSE /\ NothingAhead'
           /\ ConfIsRecord
           /\ LinesAre(conf, rows, FALSE)
           /\ conf.rc = n - 1 /\ from < n /\ from \in Nat /\ conf.ns \in Nat /\ n \in Nat \ {0}
           /\ conf.copy => from = 0 /\ InFile(conf)
           /\ conf.kind = "conf" => conf.ns = 0
           /\ ~conf.oom
           /\ conf.line = <<>> /\ ~conf.copy => Skipped(kind, rows, from, n - 1)
           /\ conf.line # <<>> /\ ~conf.copy => Started(kind, rows, from, conf.line, n)
           /\ conf.line # <<>> /\ InFile(conf) => conf.line = rows[n] /\ IsFirm(kind, rows[n])
           /\ InFile(conf) => kind # "conf"
           /\ AreRows(rows) /\ AreRows(more) /\ IsText(rows[n])
           /\ c = Newline => Len(more) = n + 1 /\ more[n] = rows[n] /\ more[n + 1] = <<>>
           /\ c # Newline => Len(more) = n /\ more[n] = Add(rows[n], c)
           /\ KeptUpTo(kind, more, n - 1) = KeptUpTo(kind, rows, n - 1)
           /\ Tidy(more, 0) => Tidy(rows, 0)
           /\ Tidy(more, from) => Tidy(rows, from)
<1> DEFINE rows == Rows(text)
           more == Rows(text')
           n == Len(rows)
           from == conf.row
           kind == conf.kind
<1>1. GrownBy(rows, more, c) /\ ended = FALSE /\ ended' = FALSE /\ NothingAhead' /\ ConfIsRecord
  <2>1. FileTypes /\ NothingAhead /\ ConfIsRecord
    BY DEF ConfTypes, RecordInv, CallTypes
  <2>2. GrownBy(rows, more, c) /\ ~ended /\ ~ended' /\ NothingAhead'
    BY <2>1, OneCharacter
  <2>3. ended' \in BOOLEAN /\ ended \in BOOLEAN
    BY CharacterRead DEF ConfTypes, FileTypes
  <2> QED BY <2>1, <2>2, <2>3
<1>2. /\ LinesAre(conf, rows, FALSE)
      /\ conf.rc = n - 1 /\ from < n /\ from \in Nat /\ conf.ns \in Nat /\ n \in Nat \ {0}
      /\ conf.copy => from = 0 /\ InFile(conf)
      /\ conf.kind = "conf" => conf.ns = 0
      /\ ~conf.oom
      /\ conf.line = <<>> /\ ~conf.copy => Skipped(kind, rows, from, n - 1)
      /\ conf.line # <<>> /\ ~conf.copy => Started(kind, rows, from, conf.line, n)
      /\ conf.line # <<>> /\ InFile(conf) => conf.line = rows[n] /\ IsFirm(kind, rows[n])
      /\ InFile(conf) => kind # "conf"
  BY <1>1, AtReading
<1>3. /\ AreRows(rows) /\ AreRows(more) /\ IsText(rows[n])
      /\ c = Newline => Len(more) = n + 1 /\ more[n] = rows[n] /\ more[n + 1] = <<>>
      /\ c # Newline => Len(more) = n /\ more[n] = Add(rows[n], c)
  BY <1>1, GrownRows
<1>4. KeptUpTo(kind, more, n - 1) = KeptUpTo(kind, rows, n - 1)
  <2>1. n - 1 \in Nat /\ n - 1 < Len(rows)
    BY <1>2
  <2> QED BY <1>1, <2>1, KeptGrows
<1>5. (Tidy(more, 0) => Tidy(rows, 0)) /\ (Tidy(more, from) => Tidy(rows, from))
  BY <1>1, TidyBefore
<1> HIDE DEF rows, more
<1> QED BY <1>1, <1>2, <1>3, <1>4, <1>5, Zenon DEF rows, more

LEMMA LeadingSpaceKeeps == ASSUME ConfTypes, RecordInv, LeadingSpace PROVE RecordInv'
<1> DEFINE rows == Rows(text)
           more == Rows(text')
           n == Len(rows)
           from == conf.row
           kind == conf.kind
           ns == IF Records THEN conf.ns + 1 ELSE conf.ns
<1>0. Reads(conf) /\ conf.at = "reading" /\ conf.line = <<>> /\ Getc(Space) /\ Space \in ConfChar
      /\ Space # Newline /\ Space # Backslash
  BY Distinct DEF LeadingSpace, Reads
<1>1. /\ GrownBy(rows, more, Space) /\ ended = FALSE /\ ended' = FALSE /\ NothingAhead'
      /\ ConfIsRecord
      /\ LinesAre(conf, rows, FALSE)
      /\ conf.rc = n - 1 /\ from < n /\ from \in Nat /\ conf.ns \in Nat /\ n \in Nat \ {0}
      /\ conf.copy => from = 0 /\ InFile(conf)
      /\ conf.kind = "conf" => conf.ns = 0
      /\ ~conf.oom
      /\ ~conf.copy => Skipped(kind, rows, from, n - 1)
      /\ InFile(conf) => kind # "conf"
      /\ AreRows(rows) /\ AreRows(more) /\ IsText(rows[n])
      /\ Len(more) = n /\ more[n] = Add(rows[n], Space)
      /\ KeptUpTo(kind, more, n - 1) = KeptUpTo(kind, rows, n - 1)
      /\ Tidy(more, 0) => Tidy(rows, 0)
      /\ Tidy(more, from) => Tidy(rows, from)
  BY <1>0, ReadsOn
<1>2. /\ ~IsContinued(kind, more[n]) /\ ~HasInk(more[n])
      /\ Len(more[n]) = Len(rows[n]) + 1 /\ Len(rows[n]) \in Nat
  <2>1. ~HasInk(rows[n])
    BY <1>0, <1>1 DEF LinesAre, Current
  <2>2. Len(Add(rows[n], Space)) = Len(rows[n]) + 1 /\ Len(rows[n]) \in Nat
    BY <1>0, <1>1, Texts
  <2> QED BY <1>0, <1>1, <2>1, <2>2, TrimGrows, BodyGrows
<1>3. InFile(conf) => /\ conf.ns >= Len(rows[n])
                      /\ Tidy(rows, from) => conf.ns = Len(rows[n])
  BY <1>0, <1>1 DEF LinesAre, Blanked
<1>4. conf.copy => Same(Tidy(more, 0), conf.tofp, KeptUpTo(kind, more, n - 1))
  <2>1. conf.copy => Same(Tidy(rows, 0), conf.tofp, KeptUpTo(kind, rows, n - 1))
    BY <1>0, <1>1 DEF LinesAre, CopiedIs
  <2> QED BY <1>1, <2>1 DEF Same
<1>5. ~conf.copy => Skipped(kind, more, from, n - 1)
  <2>1. n - 1 \in Int /\ n - 1 < Len(rows)
    BY <1>1
  <2> QED BY <1>1, <2>1, SkippedGrows
<1> HIDE DEF rows, more, n
<1>6. Became(conf.at, conf.rc, conf.line, ns, conf.tofp, conf.result, conf.oom)
  <2>1. conf' = [conf EXCEPT !.ns = ns]
    BY DEF LeadingSpace
  <2> HIDE DEF ns
  <2> QED BY <1>1, <2>1 DEF Became, ConfIsRecord
<1>7. /\ conf'.kind = kind /\ conf'.copy = conf.copy /\ conf'.at = "reading" /\ conf'.row = from
      /\ conf'.rc = n - 1 /\ conf'.line = <<>> /\ conf'.ns = ns /\ conf'.tofp = conf.tofp
      /\ conf'.oom = conf.oom
  <2> HIDE DEF ns
  <2> QED BY <1>0, <1>1, <1>6 DEF Became
<1>8. Reads(conf') /\ (InFile(conf') <=> InFile(conf)) /\ (kind = "conf" => ns = 0)
      /\ (InFile(conf) => ns = conf.ns + 1)
  BY <1>1, <1>7 DEF Reads, InFile, Records
<1> HIDE DEF ns
<1>9. Current(conf', more[n], FALSE)
  BY <1>2, <1>7 DEF Current
<1>10. Blanked(conf', more, FALSE)
  BY <1>1, <1>2, <1>3, <1>7, <1>8 DEF Blanked
<1>11. CopiedIs(conf', more, FALSE)
  BY <1>1, <1>4, <1>7 DEF CopiedIs
<1>12. LinesAre(conf', more, FALSE)
  BY <1>1, <1>5, <1>7, <1>8, <1>9, <1>10, <1>11, StillReads
<1> QED BY <1>1, <1>12, Zenon DEF RecordInv, more

LEMMA StartEscapeKeeps == ASSUME ConfTypes, RecordInv, StartEscape PROVE RecordInv'
<1> DEFINE rows == Rows(text)
           more == Rows(text')
           n == Len(rows)
           from == conf.row
           kind == conf.kind
<1>0. Reads(conf) /\ conf.at = "reading" /\ kind = "conf" /\ Getc(Backslash)
      /\ Backslash \in ConfChar
      /\ Backslash # Newline /\ Backslash # Space
  BY Distinct DEF StartEscape, Reads
<1>1. /\ GrownBy(rows, more, Backslash) /\ ended = FALSE /\ ended' = FALSE /\ NothingAhead'
      /\ ConfIsRecord
      /\ LinesAre(conf, rows, FALSE)
      /\ conf.rc = n - 1 /\ from < n /\ from \in Nat /\ conf.ns \in Nat /\ n \in Nat \ {0}
      /\ conf.copy => from = 0 /\ InFile(conf)
      /\ conf.kind = "conf" => conf.ns = 0
      /\ ~conf.oom
      /\ conf.line = <<>> /\ ~conf.copy => Skipped(kind, rows, from, n - 1)
      /\ conf.line # <<>> /\ ~conf.copy => Started(kind, rows, from, conf.line, n)
      /\ InFile(conf) => kind # "conf"
      /\ AreRows(rows) /\ AreRows(more) /\ IsText(rows[n])
      /\ Len(more) = n /\ more[n] = Add(rows[n], Backslash)
  BY <1>0, ReadsOn
<1>2. ~IsContinued(kind, rows[n]) /\ (conf.line = <<>> => ~HasInk(rows[n]))
  BY <1>0, <1>1 DEF LinesAre, Current
<1>3. ~InFile(conf) /\ ~conf.copy
  BY <1>0, <1>1
<1>4. IsContinued(kind, more[n]) /\ (conf.line = <<>> => IsGap(kind, more[n]))
  <2>1. IsContinued(kind, more[n])
    BY <1>0, <1>1, BodyGrows
  <2>2. conf.line = <<>> => Trimmed(more[n]) = Add(<<>>, Backslash)
    BY <1>0, <1>1, <1>2, TrimGrows
  <2>3. Add(<<>>, Backslash) = <<Backslash>>
    BY DEF Add
  <2> QED BY <2>1, <2>2, <2>3, Zenon DEF IsGap
<1>5. conf.line = <<>> => Skipped(kind, more, from, n - 1)
  <2>1. n - 1 \in Int /\ n - 1 < Len(rows)
    BY <1>1
  <2> QED BY <1>1, <1>3, <2>1, SkippedGrows
<1>6. conf.line # <<>> => Started(kind, more, from, conf.line, n)
  <2> SUFFICES ASSUME conf.line # <<>> PROVE Started(kind, more, from, conf.line, n)
    OBVIOUS
  <2> DEFINE longer == IF kind = "conf" /\ Backslash = Backslash THEN conf.line
                       ELSE Add(conf.line, Backslash)
  <2>1. Started(kind, more, from, longer, n)
    BY <1>0, <1>1, <1>2, <1>3, LineGoesOn
  <2>2. longer = conf.line
    BY <1>0, Zenon
  <2> HIDE DEF longer
  <2> QED BY <2>1, <2>2, Zenon
<1> HIDE DEF rows, more, n
<1>7. Became("escape", conf.rc, conf.line, conf.ns, conf.tofp, conf.result, conf.oom)
  BY <1>1 DEF StartEscape, Became, ConfIsRecord
<1>8. /\ conf'.kind = kind /\ conf'.copy = conf.copy /\ conf'.at = "escape" /\ conf'.row = from
      /\ conf'.rc = n - 1 /\ conf'.line = conf.line /\ conf'.ns = conf.ns /\ conf'.tofp = conf.tofp
      /\ conf'.oom = conf.oom
  BY <1>0, <1>1, <1>7 DEF Became
<1>9. Reads(conf') /\ ~InFile(conf')
  BY <1>3, <1>8 DEF Reads, InFile
<1>10. Current(conf', more[n], FALSE)
  BY <1>0, <1>4, <1>8 DEF Current
<1>11. Blanked(conf', more, FALSE) /\ CopiedIs(conf', more, FALSE)
  BY <1>3, <1>8, <1>9 DEF Blanked, CopiedIs
<1>12. LinesAre(conf', more, FALSE)
  BY <1>1, <1>3, <1>5, <1>6, <1>8, <1>9, <1>10, <1>11, StillReads
<1> QED BY <1>1, <1>12, Zenon DEF RecordInv, more

LEMMA ContinuationKeeps == ASSUME ConfTypes, RecordInv, Continuation PROVE RecordInv'
<1> DEFINE rows == Rows(text)
           more == Rows(text')
           n == Len(rows)
           from == conf.row
           kind == conf.kind
<1>0. Reads(conf) /\ conf.at = "escape" /\ Getc(Newline) /\ Newline \in ConfChar
  BY Distinct DEF Continuation, Reads
<1>1. /\ GrownBy(rows, more, Newline) /\ ended = FALSE /\ ended' = FALSE /\ NothingAhead'
      /\ ConfIsRecord
      /\ LinesAre(conf, rows, FALSE)
      /\ conf.rc = n - 1 /\ from < n /\ from \in Nat /\ conf.ns \in Nat /\ n \in Nat \ {0}
      /\ conf.copy => from = 0 /\ InFile(conf)
      /\ conf.kind = "conf" => conf.ns = 0
      /\ ~conf.oom
      /\ conf.line = <<>> /\ ~conf.copy => Skipped(kind, rows, from, n - 1)
      /\ conf.line # <<>> /\ ~conf.copy => Started(kind, rows, from, conf.line, n)
      /\ InFile(conf) => kind # "conf"
      /\ AreRows(rows) /\ AreRows(more) /\ IsText(rows[n])
      /\ Len(more) = n + 1 /\ more[n] = rows[n] /\ more[n + 1] = <<>>
  BY <1>0, ReadsOn
<1>2. kind = "conf" /\ IsContinued(kind, rows[n]) /\ (conf.line = <<>> => IsGap(kind, rows[n]))
  BY <1>0, <1>1 DEF LinesAre, Current
<1>3. ~InFile(conf) /\ ~conf.copy
  BY <1>1, <1>2
<1>4. conf.line = <<>> => Skipped(kind, more, from, n)
  BY <1>1, <1>2, <1>3, RowSkipped
<1>5. conf.line # <<>> => Started(kind, more, from, conf.line, n + 1)
  <2>1. conf.line # <<>> => Started(kind, more, from, conf.line, Len(more))
    BY <1>1, <1>2, <1>3, LineEnds
  <2> QED BY <1>1, <2>1, Zenon
<1> HIDE DEF rows, more, n
<1>6. Became("reading", conf.rc + 1, conf.line, conf.ns, conf.tofp, conf.result, conf.oom)
  BY <1>1 DEF Continuation, Became, ConfIsRecord
<1>7. /\ conf'.kind = kind /\ conf'.copy = conf.copy /\ conf'.at = "reading" /\ conf'.row = from
      /\ conf'.rc = n /\ conf'.line = conf.line /\ conf'.ns = conf.ns /\ conf'.tofp = conf.tofp
      /\ conf'.oom = conf.oom
  BY <1>0, <1>1, <1>6 DEF Became
<1>8. Reads(conf') /\ ~InFile(conf')
  BY <1>3, <1>7 DEF Reads, InFile
<1>9. Current(conf', more[n + 1], FALSE)
  <2>1. ~HasInk(more[n + 1])
    BY <1>1 DEF HasInk, Ink
  <2>2. ~IsContinued(kind, more[n + 1])
    BY <1>1 DEF IsContinued
  <2> QED BY <1>7, <2>1, <2>2 DEF Current
<1>10. Blanked(conf', more, FALSE) /\ CopiedIs(conf', more, FALSE)
  BY <1>3, <1>7, <1>8 DEF Blanked, CopiedIs
<1>11. LinesAre(conf', more, FALSE)
  <2> DEFINE m == n + 1
  <2>1. m = Len(more) /\ conf'.rc = m - 1 /\ from < m /\ from \in Nat /\ m - 1 = n
    BY <1>1, <1>7
  <2>2. /\ Current(conf', more[m], FALSE)
        /\ conf.line # <<>> => Started(kind, more, from, conf.line, m)
    BY <1>5, <1>9
  <2> HIDE DEF m
  <2>3. conf.line = <<>> => Skipped(kind, more, from, m - 1)
    BY <1>4, <2>1
  <2> QED BY <1>1, <1>2, <1>3, <1>7, <1>8, <1>10, <2>1, <2>2, <2>3, StillReads
<1> QED BY <1>1, <1>11, Zenon DEF RecordInv, more

LEMMA CopyCharKeeps == ASSUME ConfTypes, RecordInv, CopyChar PROVE RecordInv'
<1> DEFINE rows == Rows(text)
           more == Rows(text')
           n == Len(rows)
           from == conf.row
           kind == conf.kind
<1>a. PICK c \in CharsOf(kind) \cup Hex :
         Plain(c) /\ Getc(c) /\ conf' = [conf EXCEPT !.line = Append(conf.line, c)]
  BY DEF CopyChar
<1> DEFINE longer == Add(conf.line, c)
<1>0. /\ Reads(conf) /\ conf.at = "reading" /\ conf.ns = 0 /\ Getc(c) /\ c \in ConfChar
      /\ c # Newline /\ (kind = "conf" => c # Backslash)
      /\ conf.line = <<>> => c \notin {Comment, Space}
      /\ conf' = [conf EXCEPT !.line = longer]
  BY <1>a, Distinct DEF CopyChar, Reads, Plain, Add
<1>1. /\ GrownBy(rows, more, c) /\ ended = FALSE /\ ended' = FALSE /\ NothingAhead' /\ ConfIsRecord
      /\ LinesAre(conf, rows, FALSE)
      /\ conf.rc = n - 1 /\ from < n /\ from \in Nat /\ n \in Nat \ {0}
      /\ conf.copy => from = 0 /\ InFile(conf)
      /\ ~conf.oom
      /\ conf.line = <<>> /\ ~conf.copy => Skipped(kind, rows, from, n - 1)
      /\ conf.line # <<>> /\ ~conf.copy => Started(kind, rows, from, conf.line, n)
      /\ conf.line # <<>> /\ InFile(conf) => conf.line = rows[n] /\ IsFirm(kind, rows[n])
      /\ InFile(conf) => kind # "conf"
      /\ AreRows(rows) /\ AreRows(more) /\ IsText(rows[n])
      /\ Len(more) = n /\ more[n] = Add(rows[n], c)
      /\ KeptUpTo(kind, more, n - 1) = KeptUpTo(kind, rows, n - 1)
      /\ Tidy(more, 0) => Tidy(rows, 0)
  BY <1>0, ReadsOn
<1>2. ~IsContinued(kind, rows[n]) /\ (conf.line = <<>> => ~HasInk(rows[n]))
  BY <1>0, <1>1 DEF LinesAre, Current
<1>3. ~IsContinued(kind, more[n])
  BY <1>0, <1>1, BodyGrows
<1>4. InFile(conf) /\ conf.line = <<>> => rows[n] = <<>>
  <2>1. InFile(conf) /\ conf.line = <<>> => conf.ns >= Len(rows[n])
    BY <1>0, <1>1 DEF LinesAre, Blanked
  <2>2. Len(rows[n]) \in Nat /\ (rows[n] = <<>> <=> Len(rows[n]) = 0)
    BY <1>1, Texts
  <2> QED BY <1>0, <2>1, <2>2
<1>5. longer # <<>>
  <2>1. IsText(conf.line)
    <3>1. conf.line \in Seq(LineChar) /\ LineChar \subseteq ConfChar
      BY DEF ConfTypes, CallTypes, LineChar
    <3> QED BY <3>1 DEF IsText
  <2> QED BY <1>0, <2>1, Texts
<1>6. InFile(conf) => longer = more[n] /\ IsFirm(kind, more[n])
  <2>1. CASE conf.line = <<>>
    <3>1. FirstInk(more[n]) = c /\ HasInk(more[n])
      BY <1>0, <1>1, <1>2, <2>1, TrimGrows
    <3>2. InFile(conf) => longer = more[n]
      BY <1>1, <1>4, <2>1, Zenon
    <3> QED BY <1>0, <2>1, <3>1, <3>2 DEF IsFirm
  <2>2. CASE conf.line # <<>>
    <3>1. IsFirm(kind, rows[n]) => FirstInk(more[n]) = FirstInk(rows[n]) /\ HasInk(more[n])
      BY <1>0, <1>1, TrimGrows DEF IsFirm
    <3>2. InFile(conf) => longer = more[n]
      BY <1>1, <2>2, Zenon
    <3> QED BY <1>1, <2>2, <3>1, <3>2 DEF IsFirm
  <2> QED BY <2>1, <2>2
<1>7. ~conf.copy => Started(kind, more, from, longer, n)
  <2>1. CASE conf.line = <<>>
    <3>1. ~conf.copy => Started(kind, more, from, Add(<<>>, c), n)
      BY <1>0, <1>1, <1>2, <2>1, LineStarts
    <3> QED BY <2>1, <3>1, Zenon
  <2>2. CASE conf.line # <<>>
    <3> DEFINE after == IF kind = "conf" /\ c = Backslash THEN conf.line ELSE Add(conf.line, c)
    <3>1. ~conf.copy => Started(kind, more, from, after, n)
      BY <1>0, <1>1, <1>2, <2>2, LineGoesOn
    <3>2. after = longer
      BY <1>0, Zenon
    <3> HIDE DEF after, longer
    <3> QED BY <3>1, <3>2, Zenon
  <2> QED BY <2>1, <2>2
<1>8. conf.copy => Same(Tidy(more, 0), conf.tofp, KeptUpTo(kind, more, n - 1))
  <2>1. conf.copy => Same(Tidy(rows, 0), conf.tofp, KeptUpTo(kind, rows, n - 1))
    BY <1>0, <1>1 DEF LinesAre, CopiedIs
  <2> QED BY <1>1, <2>1 DEF Same
<1> HIDE DEF rows, more, n, longer
<1>9. Became(conf.at, conf.rc, longer, conf.ns, conf.tofp, conf.result, conf.oom)
  BY <1>0, <1>1 DEF Became, ConfIsRecord
<1>10. /\ conf'.kind = kind /\ conf'.copy = conf.copy /\ conf'.at = "reading" /\ conf'.row = from
       /\ conf'.rc = n - 1 /\ conf'.line = longer /\ conf'.ns = 0 /\ conf'.tofp = conf.tofp
       /\ conf'.oom = conf.oom
  BY <1>0, <1>1, <1>9 DEF Became
<1>11. Reads(conf') /\ (InFile(conf') <=> InFile(conf))
  BY <1>10 DEF Reads, InFile
<1>12. Current(conf', more[n], FALSE)
  BY <1>3, <1>5, <1>10 DEF Current
<1>13. Blanked(conf', more, FALSE)
  BY <1>5, <1>10 DEF Blanked
<1>14. CopiedIs(conf', more, FALSE)
  BY <1>1, <1>8, <1>10 DEF CopiedIs
<1>15. LinesAre(conf', more, FALSE)
  BY <1>1, <1>5, <1>6, <1>7, <1>10, <1>11, <1>12, <1>13, <1>14, StillReads
<1> QED BY <1>1, <1>15, Zenon DEF RecordInv, more

LEMMA StartCommentKeeps == ASSUME ConfTypes, RecordInv, StartComment PROVE RecordInv'
<1> DEFINE rows == Rows(text)
           more == Rows(text')
           n == Len(rows)
           from == conf.row
           kind == conf.kind
           ns == conf.ns
           tofp == Copied([k \in 1..ns |-> Space] \o <<Comment>>)
<1>0. /\ Reads(conf) /\ conf.at = "reading" /\ conf.line = <<>> /\ Getc(Comment)
      /\ Comment \in ConfChar /\ Comment # Newline /\ Comment # Space /\ Comment # Backslash
  BY Distinct DEF StartComment, Reads
<1>1. /\ GrownBy(rows, more, Comment) /\ ended = FALSE /\ ended' = FALSE /\ NothingAhead'
      /\ ConfIsRecord
      /\ LinesAre(conf, rows, FALSE)
      /\ conf.rc = n - 1 /\ from < n /\ from \in Nat /\ ns \in Nat /\ n \in Nat \ {0}
      /\ conf.copy => from = 0 /\ InFile(conf)
      /\ conf.kind = "conf" => conf.ns = 0
      /\ ~conf.oom
      /\ ~conf.copy => Skipped(kind, rows, from, n - 1)
      /\ InFile(conf) => kind # "conf"
      /\ AreRows(rows) /\ AreRows(more) /\ IsText(rows[n])
      /\ Len(more) = n /\ more[n] = Add(rows[n], Comment)
      /\ KeptUpTo(kind, more, n - 1) = KeptUpTo(kind, rows, n - 1)
      /\ Tidy(more, 0) => Tidy(rows, 0)
      /\ Tidy(more, from) => Tidy(rows, from)
  BY <1>0, ReadsOn
<1>2. ~HasInk(rows[n]) /\ IsComment(more[n])
  <2>1. ~HasInk(rows[n])
    BY <1>0, <1>1 DEF LinesAre, Current
  <2>2. HasInk(more[n]) /\ FirstInk(more[n]) = Comment
    BY <1>0, <1>1, <2>1, TrimGrows
  <2> QED BY <2>1, <2>2, CommentIs
<1>3. InFile(conf) /\ Tidy(rows, from) => ns = Len(rows[n])
  BY <1>0, <1>1 DEF LinesAre, Blanked
<1>4. Inked(rows[n]) = <<>> /\ rows[n] = Blanks(Len(rows[n])) /\ Len(rows[n]) \in Nat
  BY <1>1, <1>2, BlankRow, Texts
<1>5. InFile(conf) /\ Tidy(more, from) => ns = 0
  <2> SUFFICES ASSUME InFile(conf), Tidy(more, from), ns # 0 PROVE FALSE
    OBVIOUS
  <2>1. Len(rows[n]) = ns
    BY <1>1, <1>3
  <2>2. 1 \in 1..Len(rows[n])
    BY <1>1, <2>1
  <2>3. more[n][1] = rows[n][1]
    BY <1>0, <1>1, <2>2, Texts
  <2>4. rows[n][1] = Space
    BY <1>1, <1>4, <2>1, <2>2 DEF Blanks
  <2>5. IsIndented(more[n])
    BY <1>2, <2>3, <2>4, CommentIs DEF IsIndented, HasInk
  <2>6. n \in 1..Len(more) /\ n > from
    BY <1>1
  <2> QED BY <1>2, <2>5, <2>6 DEF Tidy
<1>6. conf.copy => Same(Tidy(more, 0), conf.tofp, KeptUpTo(kind, more, n - 1))
  <2>1. conf.copy => Same(Tidy(rows, 0), conf.tofp, KeptUpTo(kind, rows, n - 1))
    BY <1>0, <1>1 DEF LinesAre, CopiedIs
  <2> QED BY <1>1, <2>1 DEF Same
<1>7. conf.copy => Same(Tidy(more, 0), tofp, Cat(KeptUpTo(kind, more, n - 1), more[n]))
  <2> SUFFICES ASSUME conf.copy
               PROVE  Same(Tidy(more, 0), tofp, Cat(KeptUpTo(kind, more, n - 1), more[n]))
    OBVIOUS
  <2> DEFINE b == Add(Blanks(ns), Comment)
  <2>1. IsText(Blanks(ns)) /\ Inked(Blanks(ns)) = <<>>
    BY <1>1, BlanksAre
  <2>2. tofp = Cat(conf.tofp, b)
    <3>1. Blanks(ns) \o <<Comment>> = Append(Blanks(ns), Comment)
      <4>1. Blanks(ns) \in Seq(ConfChar)
        BY <2>1 DEF IsText
      <4> QED BY <1>0, <4>1, AppendIsConcat
    <3> QED BY <3>1, Zenon DEF Copied, Blanks, Cat, Add
  <2>3. IsText(b) /\ IsText(more[n])
    BY <1>0, <1>1, <2>1, Texts
  <2>4. Inked(b) = Add(<<>>, Comment) /\ Inked(more[n]) = Add(<<>>, Comment)
    <3>1. Inked(b) = Add(Inked(Blanks(ns)), Comment)
      BY <1>0, <2>1, InkGrows
    <3>2. Inked(more[n]) = Add(Inked(rows[n]), Comment)
      BY <1>0, <1>1, InkGrows
    <3> QED BY <1>4, <2>1, <3>1, <3>2, Zenon
  <2>5. Tidy(more, 0) => b = more[n]
    <3>1. Tidy(more, 0) => ns = Len(rows[n])
      BY <1>1, <1>3
    <3>2. Tidy(more, 0) => Blanks(ns) = rows[n]
      BY <1>4, <3>1, Zenon
    <3> QED BY <1>1, <3>2, Zenon
  <2> HIDE DEF b, tofp
  <2>6. Same(Tidy(more, 0), b, more[n])
    BY <2>3, <2>4, <2>5, Zenon DEF Same
  <2>7. Same(Tidy(more, 0), Cat(conf.tofp, b), Cat(KeptUpTo(kind, more, n - 1), more[n]))
    BY <1>6, <2>6, SameCat
  <2> QED BY <2>2, <2>7, Zenon
<1>8. ~conf.copy => Skipped(kind, more, from, n - 1)
  <2>1. n - 1 \in Int /\ n - 1 < Len(rows)
    BY <1>1
  <2> QED BY <1>1, <2>1, SkippedGrows
<1>9. conf' = [conf EXCEPT !.at = "comment", !.tofp = tofp]
  BY Zenon DEF StartComment
<1> HIDE DEF rows, more, n, tofp
<1>10. Became("comment", conf.rc, conf.line, ns, tofp, conf.result, conf.oom)
  BY <1>1, <1>9 DEF Became, ConfIsRecord
<1>11. /\ conf'.kind = kind /\ conf'.copy = conf.copy /\ conf'.at = "comment" /\ conf'.row = from
       /\ conf'.rc = n - 1 /\ conf'.line = <<>> /\ conf'.ns = ns /\ conf'.tofp = tofp
       /\ conf'.oom = conf.oom
  BY <1>0, <1>1, <1>10 DEF Became
<1>12. Reads(conf') /\ (InFile(conf') <=> InFile(conf))
  BY <1>11 DEF Reads, InFile
<1>13. Current(conf', more[n], FALSE)
  BY <1>2, <1>11 DEF Current
<1>14. Blanked(conf', more, FALSE)
  BY <1>1, <1>5, <1>11, <1>12 DEF Blanked
<1>15. CopiedIs(conf', more, FALSE)
  BY <1>1, <1>7, <1>11 DEF CopiedIs
<1>16. LinesAre(conf', more, FALSE)
  BY <1>1, <1>8, <1>11, <1>12, <1>13, <1>14, <1>15, StillReads
<1> QED BY <1>1, <1>16, Zenon DEF RecordInv, more

LEMMA AddOne ==
    ASSUME NEW s, NEW t, NEW c \in ConfChar, IsText(s), IsText(t)
    PROVE  IsText(Add(<<>>, c)) /\ Cat(s, Add(t, c)) = Cat(Cat(s, t), Add(<<>>, c))
<1>1. IsText(<<>>) /\ IsText(Add(<<>>, c)) /\ IsText(Cat(s, t))
  BY Texts
<1>2. Cat(s, Add(t, c)) = Add(Cat(s, t), c)
  BY Texts
<1>3. Cat(Cat(s, t), Add(<<>>, c)) = Add(Cat(Cat(s, t), <<>>), c)
  BY <1>1, Texts
<1>4. Cat(Cat(s, t), <<>>) = Cat(s, t)
  BY <1>1, Texts
<1> QED BY <1>1, <1>2, <1>3, <1>4, Zenon

LEMMA InCommentKeeps == ASSUME ConfTypes, RecordInv, InComment PROVE RecordInv'
<1> DEFINE rows == Rows(text)
           more == Rows(text')
           n == Len(rows)
           from == conf.row
           kind == conf.kind
<1>a. PICK c \in CharsOf(kind) :
         /\ Getc(c)
         /\ conf' = [conf EXCEPT !.tofp = Copied(<<c>>),
                                 !.at = IF c = Newline THEN "reading" ELSE @,
                                 !.rc = IF c = Newline THEN @ + 1 ELSE @]
  BY DEF InComment
<1> DEFINE tofp == Copied(<<c>>)
<1>0. Reads(conf) /\ conf.at = "comment" /\ Getc(c) /\ c \in ConfChar
  BY <1>a, Distinct DEF InComment, Reads
<1>1. /\ GrownBy(rows, more, c) /\ ended = FALSE /\ ended' = FALSE /\ NothingAhead' /\ ConfIsRecord
      /\ LinesAre(conf, rows, FALSE)
      /\ conf.rc = n - 1 /\ from < n /\ from \in Nat /\ conf.ns \in Nat /\ n \in Nat \ {0}
      /\ conf.copy => from = 0 /\ InFile(conf)
      /\ conf.kind = "conf" => conf.ns = 0
      /\ ~conf.oom
      /\ conf.line = <<>> /\ ~conf.copy => Skipped(kind, rows, from, n - 1)
      /\ InFile(conf) => kind # "conf"
      /\ AreRows(rows) /\ AreRows(more) /\ IsText(rows[n])
      /\ c = Newline => Len(more) = n + 1 /\ more[n] = rows[n] /\ more[n + 1] = <<>>
      /\ c # Newline => Len(more) = n /\ more[n] = Add(rows[n], c)
      /\ KeptUpTo(kind, more, n - 1) = KeptUpTo(kind, rows, n - 1)
      /\ Tidy(more, 0) => Tidy(rows, 0)
      /\ Tidy(more, from) => Tidy(rows, from)
  BY <1>0, ReadsOn
<1>2. conf.line = <<>> /\ IsComment(rows[n])
  BY <1>0, <1>1 DEF LinesAre, Current
<1>3. InFile(conf) /\ Tidy(more, from) => conf.ns = 0
  BY <1>0, <1>1 DEF LinesAre, Blanked
<1>4. conf.copy => Same(Tidy(more, 0), conf.tofp, Cat(KeptUpTo(kind, more, n - 1), rows[n]))
  <2>1. conf.copy => Same(Tidy(rows, 0), conf.tofp, Cat(KeptUpTo(kind, rows, n - 1), rows[n]))
    BY <1>0, <1>1 DEF LinesAre, CopiedIs
  <2> QED BY <1>1, <2>1 DEF Same
<1>5. conf.copy => Same(Tidy(more, 0), tofp, Cat(KeptUpTo(kind, more, n - 1), Add(rows[n], c)))
  <2> SUFFICES ASSUME conf.copy
               PROVE  Same(Tidy(more, 0), tofp, Cat(KeptUpTo(kind, more, n - 1), Add(rows[n], c)))
    OBVIOUS
  <2> DEFINE one == Add(<<>>, c)
             kept == KeptUpTo(kind, more, n - 1)
  <2>1. IsText(kept)
    <3>1. n - 1 \in Nat /\ n - 1 <= Len(more)
      BY <1>1
    <3> QED BY <1>1, <3>1, KeptTyped
  <2>2. tofp = Cat(conf.tofp, one)
    <3>1. <<c>> = Append(<<>>, c)
      OBVIOUS
    <3> QED BY <3>1, Zenon DEF Copied, Cat, Add
  <2> HIDE DEF kept, one, tofp
  <2>3. IsText(one) /\ Cat(kept, Add(rows[n], c)) = Cat(Cat(kept, rows[n]), one)
    BY <1>0, <1>1, <2>1, AddOne DEF one
  <2>4. Same(Tidy(more, 0), one, one)
    BY <2>3, SameSelf
  <2>5. Same(Tidy(more, 0), Cat(conf.tofp, one), Cat(Cat(kept, rows[n]), one))
    BY <1>4, <2>4, SameCat DEF kept
  <2> QED BY <2>2, <2>3, <2>5, Zenon DEF kept
<1>6. CASE c # Newline
  <2>1. IsComment(more[n])
    BY <1>0, <1>1, <1>2, <1>6, CommentIs, TrimGrows
  <2>2. ~conf.copy => Skipped(kind, more, from, n - 1)
    <3>1. n - 1 \in Int /\ n - 1 < Len(rows)
      BY <1>1
    <3> QED BY <1>1, <1>2, <3>1, SkippedGrows
  <2>3. conf' = [conf EXCEPT !.tofp = tofp]
    <3>1. conf' = [conf EXCEPT !.tofp = tofp, !.at = conf.at, !.rc = conf.rc]
      BY <1>a, <1>6, Zenon
    <3> HIDE DEF tofp
    <3> QED BY <1>1, <3>1 DEF ConfIsRecord
  <2> HIDE DEF rows, more, n, tofp
  <2>4. Became("comment", conf.rc, conf.line, conf.ns, tofp, conf.result, conf.oom)
    BY <1>0, <1>1, <2>3 DEF Became, ConfIsRecord
  <2>5. /\ conf'.kind = kind /\ conf'.copy = conf.copy /\ conf'.at = "comment" /\ conf'.row = from
        /\ conf'.rc = n - 1 /\ conf'.line = <<>> /\ conf'.ns = conf.ns /\ conf'.tofp = tofp
        /\ conf'.oom = conf.oom
    BY <1>1, <1>2, <2>4 DEF Became
  <2>6. Reads(conf') /\ (InFile(conf') <=> InFile(conf))
    BY <2>5 DEF Reads, InFile
  <2>7. Current(conf', more[n], FALSE)
    BY <2>1, <2>5 DEF Current
  <2>8. Blanked(conf', more, FALSE)
    BY <1>3, <2>5, <2>6 DEF Blanked
  <2>9. CopiedIs(conf', more, FALSE)
    BY <1>1, <1>5, <1>6, <2>5 DEF CopiedIs
  <2>10. LinesAre(conf', more, FALSE)
    BY <1>1, <1>6, <2>2, <2>5, <2>6, <2>7, <2>8, <2>9, StillReads
  <2> QED BY <1>1, <2>10, Zenon DEF RecordInv, more
<1>7. CASE c = Newline
  <2>0. Len(more) = n + 1 /\ more[n] = rows[n] /\ more[n + 1] = <<>>
    BY <1>1, <1>7
  <2>1. ~conf.copy => Skipped(kind, more, from, n)
    BY <1>1, <1>2, <1>7, RowSkipped
  <2>2. conf.copy => Same(Tidy(more, 0), tofp, KeptUpTo(kind, more, n))
    <3>1. n - 1 \in Nat /\ n - 1 < Len(more) /\ (n - 1) + 1 = n
          /\ n \in 1..Len(more) /\ n < Len(more)
      BY <1>1, <2>0
    <3> DEFINE m == n - 1
    <3>a. AreRows(more) /\ m \in Nat /\ m < Len(more) /\ m + 1 = n
      BY <1>1, <3>1
    <3> HIDE DEF rows, more, n, m
    <3>b. KeptUpTo(kind, more, m + 1) = Cat(KeptUpTo(kind, more, m), Kept(kind, more, m + 1))
      BY <3>a, KeptStep
    <3>2. KeptUpTo(kind, more, n) = Cat(KeptUpTo(kind, more, n - 1), Kept(kind, more, n))
      BY <3>a, <3>b, Zenon DEF m
    <3>3. conf.copy => Kept(kind, more, n) = Add(rows[n], Newline)
      <4>1. kind # "conf" => Kept(kind, more, n) = Add(more[n], Newline)
        BY <1>1, <1>2, <2>0, <3>1, KeptIs
      <4> QED BY <1>1, <2>0, <4>1, Zenon
    <3> HIDE DEF tofp
    <3> QED BY <1>5, <1>7, <3>2, <3>3, Zenon
  <2>3. conf' = [conf EXCEPT !.tofp = tofp, !.at = "reading", !.rc = conf.rc + 1]
    BY <1>a, <1>7, Zenon
  <2> HIDE DEF rows, more, n, tofp
  <2>4. Became("reading", conf.rc + 1, conf.line, conf.ns, tofp, conf.result, conf.oom)
    BY <1>1, <2>3 DEF Became, ConfIsRecord
  <2>5. /\ conf'.kind = kind /\ conf'.copy = conf.copy /\ conf'.at = "reading" /\ conf'.row = from
        /\ conf'.rc = n /\ conf'.line = <<>> /\ conf'.ns = conf.ns /\ conf'.tofp = tofp
        /\ conf'.oom = conf.oom
    BY <1>1, <1>2, <2>4 DEF Became
  <2>6. Reads(conf') /\ (InFile(conf') <=> InFile(conf))
    BY <2>5 DEF Reads, InFile
  <2>7. Current(conf', more[n + 1], FALSE)
    <3>1. ~HasInk(more[n + 1])
      BY <2>0 DEF HasInk, Ink
    <3>2. ~IsContinued(kind, more[n + 1])
      BY <2>0 DEF IsContinued
    <3> QED BY <2>5, <3>1, <3>2 DEF Current
  <2>8. Blanked(conf', more, FALSE)
    <3>1. Len(more[Len(more)]) = 0
      BY <2>0
    <3> QED BY <1>1, <1>3, <2>5, <2>6, <3>1 DEF Blanked
  <2> DEFINE m == n + 1
  <2>9. /\ m = Len(more) /\ conf'.rc = m - 1 /\ from < m /\ from \in Nat /\ m - 1 = n
    BY <1>1, <2>0, <2>5
  <2>10. Current(conf', more[m], FALSE)
    BY <2>7
  <2> HIDE DEF m
  <2>11. CopiedIs(conf', more, FALSE)
    BY <2>2, <2>5, <2>9 DEF CopiedIs
  <2>12. LinesAre(conf', more, FALSE)
    BY <1>1, <2>1, <2>5, <2>6, <2>8, <2>9, <2>10, <2>11, StillReads
  <2> QED BY <1>1, <2>12, Zenon DEF RecordInv, more
<1> QED BY <1>6, <1>7

(* A call that returns no record has nothing to keep but what it says. *)
LEMMA Returns ==
    ASSUME NEW d, NEW more, NEW e, NEW rc \in Int, d.at = "returned", d.rc = rc, rc <= 0,
           d.copy => d.row = 0 /\ InFile(d), d.kind = "conf" => d.ns = 0, AnswerIs(d, more, e)
    PROVE  LinesAre(d, more, e)
<1>1. ~Reads(d) /\ ~HasLine(d)
  BY DEF Reads, HasLine
<1>2. RowsCounted(d, more, e)
  BY <1>1 DEF RowsCounted
<1>3. /\ Current(d, more[Len(more)], e) /\ Gathered(d, more)
      /\ Blanked(d, more, e) /\ CopiedIs(d, more, e)
  BY <1>1 DEF Current, Gathered, Blanked, CopiedIs
<1> QED BY <1>2, <1>3, Zenon DEF LinesAre

LEMMA StaysFirm ==
    ASSUME NEW kind, NEW rows, NEW more, NEW c \in ConfChar, c # Newline, GrownBy(rows, more, c),
           NEW f \in 1..Len(rows), IsFirm(kind, rows[f])
    PROVE  IsFirm(kind, more[f]) /\ Holds(kind, more, f)
<1>1. /\ AreRows(more) /\ Len(more) = Len(rows) /\ IsText(rows[Len(rows)])
      /\ \A k \in 1..Len(rows) : k # Len(rows) => more[k] = rows[k]
      /\ more[Len(rows)] = Add(rows[Len(rows)], c)
  BY GrownRows
<1>2. IsFirm(kind, more[f])
  <2>1. CASE f = Len(rows)
    <3>1. HasInk(more[f]) /\ FirstInk(more[f]) = FirstInk(rows[f])
      BY <1>1, <2>1, TrimGrows DEF IsFirm
    <3> QED BY <3>1 DEF IsFirm
  <2>2. CASE f # Len(rows)
    BY <1>1, <2>2
  <2> QED BY <2>1, <2>2
<1> QED BY <1>1, <1>2, HoldsIs

LEMMA LastHolds ==
    ASSUME NEW kind, NEW rows, AreRows(rows), HasInk(rows[Len(rows)]),
           FirstInk(rows[Len(rows)]) # Comment
    PROVE  Holds(kind, rows, Len(rows))
<1>1. Len(rows) \in 1..Len(rows) /\ ~(Len(rows) < Len(rows))
  BY DEF AreRows
<1>2. ~IsComment(rows[Len(rows)])
  BY CommentIs
<1> QED BY <1>1, <1>2, HoldsIs

LEMMA GapIs ==
    ASSUME NEW kind, NEW row, IsText(row), IsGap(kind, row)
    PROVE  HasInk(row) /\ FirstInk(row) = Backslash
<1>1. row \in Seq(ConfChar) /\ Trimmed(row) # <<>> /\ Trimmed(row)[1] = Backslash
  BY DEF IsText, IsGap
<1> QED BY <1>1, Trim

LEMMA OutOfLineMemoryKeeps == ASSUME ConfTypes, RecordInv, OutOfLineMemory PROVE RecordInv'
<1> DEFINE rows == Rows(text)
           more == Rows(text')
           n == Len(rows)
<1>a. PICK c \in CharsOf(conf.kind) : Getc(c)
  BY DEF OutOfLineMemory
<1>0. Reads(conf) /\ Getc(c) /\ c \in ConfChar
  BY <1>a, Distinct DEF OutOfLineMemory, Reads
<1>1. /\ NothingAhead' /\ ConfIsRecord /\ conf.rc = n - 1 /\ n \in Nat \ {0}
      /\ conf.copy => conf.row = 0 /\ InFile(conf)
      /\ conf.kind = "conf" => conf.ns = 0
  BY <1>0, ReadsOn
<1> HIDE DEF rows, more, n
<1>2. Became("returned", -conf.rc, <<>>, conf.ns, conf.tofp, conf.result, TRUE)
  BY <1>1 DEF OutOfLineMemory, Became, ConfIsRecord
<1>3. /\ conf'.kind = conf.kind /\ conf'.copy = conf.copy /\ conf'.at = "returned"
      /\ conf'.row = conf.row /\ conf'.rc = -conf.rc /\ conf'.ns = conf.ns /\ conf'.oom
  BY <1>2 DEF Became
<1>4. -conf.rc \in Int /\ -conf.rc <= 0
  BY <1>1
<1>5. AnswerIs(conf', more, ended') /\ (InFile(conf') <=> InFile(conf))
  BY <1>3 DEF AnswerIs, InFile
<1>6. LinesAre(conf', more, ended')
  BY <1>1, <1>3, <1>4, <1>5, Returns
<1> QED BY <1>1, <1>6 DEF RecordInv, more

LEMMA IndentedKeeps == ASSUME ConfTypes, RecordInv, Indented PROVE RecordInv'
<1> DEFINE rows == Rows(text)
           more == Rows(text')
           n == Len(rows)
           from == conf.row
           kind == conf.kind
           ns == conf.ns
<1>a. PICK c \in CharsOf(kind) : Plain(c) /\ Getc(c)
  BY DEF Indented
<1>0. /\ Reads(conf) /\ conf.at = "reading" /\ ns > 0 /\ Getc(c) /\ c \in ConfChar
      /\ c # Newline /\ (kind = "conf" => c # Backslash)
      /\ conf.line = <<>> => c \notin {Comment, Space}
  BY <1>a, Distinct DEF Indented, Reads, Plain
<1>1. /\ GrownBy(rows, more, c) /\ ended = FALSE /\ ended' = FALSE /\ NothingAhead' /\ ConfIsRecord
      /\ LinesAre(conf, rows, FALSE)
      /\ conf.rc = n - 1 /\ from < n /\ from \in Nat /\ ns \in Nat /\ n \in Nat \ {0}
      /\ conf.copy => from = 0 /\ InFile(conf)
      /\ conf.kind = "conf" => conf.ns = 0
      /\ conf.line = <<>> /\ ~conf.copy => Skipped(kind, rows, from, n - 1)
      /\ conf.line # <<>> /\ ~conf.copy => Started(kind, rows, from, conf.line, n)
      /\ InFile(conf) => kind # "conf"
      /\ AreRows(rows) /\ AreRows(more) /\ IsText(rows[n])
      /\ Len(more) = n /\ more[n] = Add(rows[n], c)
  BY <1>0, ReadsOn
<1>2. conf.line = <<>> => ~HasInk(rows[n])
  BY <1>0, <1>1 DEF LinesAre, Current
<1>3. InFile(conf) => conf.line = <<>>
  BY <1>0, <1>1 DEF LinesAre, Blanked
<1>5. CASE conf.line = <<>>
  <2>1. HasInk(more[n]) /\ FirstInk(more[n]) = c
    BY <1>0, <1>1, <1>2, <1>5, TrimGrows
  <2>2. Holds(kind, more, n)
    BY <1>0, <1>1, <1>5, <2>1, LastHolds
  <2> HIDE DEF rows, more, n
  <2>4. n \in from + 1..n
    BY <1>1
  <2>6. n \in from + 1..Len(more) /\ Holds(kind, more, n)
    BY <1>1, <2>2, <2>4
  <2> QED
    <3>1. Became("returned", -conf.rc, conf.line, conf.ns, conf.tofp, conf.result, conf.oom)
      BY <1>1 DEF Indented, ReturnRow, Became, ConfIsRecord
    <3>2. /\ conf'.kind = kind /\ conf'.copy = conf.copy /\ conf'.at = "returned"
          /\ conf'.row = from /\ conf'.rc = -conf.rc /\ conf'.ns = ns
      BY <3>1 DEF Became
    <3>3. -conf.rc \in Int /\ -conf.rc <= 0 /\ (-conf.rc = 0 => n = 1)
          /\ (InFile(conf') <=> InFile(conf))
      BY <1>1, <3>2 DEF InFile
    <3>4. Refused(conf', more, n)
      BY <2>6, <3>2, Zenon DEF Refused
    <3>5. AnswerIs(conf', more, FALSE)
      BY <1>1, <3>2, <3>3, <3>4 DEF AnswerIs
    <3>6. LinesAre(conf', more, FALSE)
      BY <1>1, <3>2, <3>3, <3>5, Returns
    <3> QED BY <1>1, <3>6, Zenon DEF RecordInv, more
<1>6. CASE conf.line # <<>>
  <2>1. ~InFile(conf) /\ ~conf.copy
    BY <1>1, <1>3, <1>6
  <2>2. PICK f : Starts(kind, rows, from, conf.line, n, f)
    BY <1>1, <1>6, <2>1 DEF Started
  <2>3. f \in from + 1..n /\ f \in 1..Len(rows) /\ IsFirm(kind, rows[f])
    BY <1>1, <2>2 DEF Starts
  <2>4. Holds(kind, more, f)
    BY <1>0, <1>1, <2>3, StaysFirm
  <2> HIDE DEF rows, more, n
  <2>5. Became("returned", -conf.rc, conf.line, conf.ns, conf.tofp, conf.result, conf.oom)
    BY <1>1 DEF Indented, ReturnRow, Became, ConfIsRecord
  <2>6. /\ conf'.kind = kind /\ conf'.copy = conf.copy /\ conf'.at = "returned"
        /\ conf'.row = from /\ conf'.rc = -conf.rc /\ conf'.ns = ns
    BY <2>5 DEF Became
  <2>7. -conf.rc \in Int /\ -conf.rc <= 0 /\ (-conf.rc = 0 => n = 1)
        /\ (InFile(conf') <=> InFile(conf))
    BY <1>1, <2>6 DEF InFile
  <2>8. Refused(conf', more, f)
    BY <1>1, <2>1, <2>3, <2>4, <2>6, <2>7 DEF Refused
  <2>9. AnswerIs(conf', more, FALSE)
    BY <1>1, <2>6, <2>7, <2>8 DEF AnswerIs
  <2>10. LinesAre(conf', more, FALSE)
    BY <1>1, <2>6, <2>7, <2>9, Returns
  <2> QED BY <1>1, <2>10, Zenon DEF RecordInv, more
<1> QED BY <1>5, <1>6

LEMMA BadEscapeKeeps == ASSUME ConfTypes, RecordInv, BadEscape PROVE RecordInv'
<1> DEFINE rows == Rows(text)
           more == Rows(text')
           n == Len(rows)
           from == conf.row
           kind == conf.kind
<1>a. PICK c \in CharsOf("conf") \cup {EOF} : c # Newline /\ Getc(c)
  BY DEF BadEscape
<1>0. /\ Reads(conf) /\ conf.at = "escape" /\ (c \in ConfChar \/ c = EOF)
      /\ Backslash # Comment /\ ended = FALSE /\ ConfIsRecord
  <2>1. Reads(conf) /\ conf.at = "escape" /\ (c \in ConfChar \/ c = EOF) /\ Backslash # Comment
    BY Distinct DEF BadEscape, Reads
  <2>2. ConfIsRecord /\ ended \in BOOLEAN /\ RowsCounted(conf, rows, ended)
    BY DEF ConfTypes, CallTypes, FileTypes, RecordInv, LinesAre
  <2>3. ~ended
    BY <2>1, <2>2 DEF RowsCounted
  <2> QED BY <2>1, <2>2, <2>3
<1>1. /\ LinesAre(conf, rows, FALSE)
      /\ conf.rc = n - 1 /\ from < n /\ from \in Nat /\ n \in Nat \ {0}
      /\ conf.copy => from = 0 /\ InFile(conf)
      /\ conf.kind = "conf" => conf.ns = 0
      /\ conf.line # <<>> /\ ~conf.copy => Started(kind, rows, from, conf.line, n)
      /\ InFile(conf) => kind # "conf"
      /\ IsText(rows[n])
  BY <1>0, AtReading
<1>2. AreRows(rows)
  BY RowsAre DEF ConfTypes, FileTypes
<1>3. kind = "conf" /\ ~InFile(conf) /\ ~conf.copy /\ (conf.line = <<>> => IsGap(kind, rows[n]))
  BY <1>0, <1>1 DEF LinesAre, Current
<1>4. \E f \in from + 1..n : f \in 1..n /\ HasInk(rows[f]) /\ FirstInk(rows[f]) # Comment
                             /\ (f = n \/ IsFirm(kind, rows[f]))
  <2>1. CASE conf.line = <<>>
    <3>1. HasInk(rows[n]) /\ FirstInk(rows[n]) # Comment
      BY <1>0, <1>1, <1>3, <2>1, GapIs
    <3>2. n \in from + 1..n /\ n \in 1..n
      BY <1>1
    <3> QED BY <3>1, <3>2
  <2>2. CASE conf.line # <<>>
    <3>1. PICK f : Starts(kind, rows, from, conf.line, n, f)
      BY <1>1, <1>3, <2>2 DEF Started
    <3>2. f \in from + 1..n /\ f \in 1..n /\ IsFirm(kind, rows[f])
      BY <1>1, <3>1 DEF Starts
    <3> QED BY <3>2 DEF IsFirm
  <2> QED BY <2>1, <2>2
<1>5. PICK f \in from + 1..n : f \in 1..n /\ HasInk(rows[f]) /\ FirstInk(rows[f]) # Comment
                               /\ (f = n \/ IsFirm(kind, rows[f]))
  BY <1>4
<1>6. Len(more) = n /\ Holds(kind, more, f) /\ NothingAhead'
  <2>1. CASE c = EOF
    <3>1. more = rows /\ NothingAhead'
      BY <1>a, <2>1, NoMoreCharacters DEF RecordInv
    <3>2. Holds(kind, rows, f)
      BY <1>2, <1>5, LastHolds, HoldsIs
    <3> HIDE DEF more, rows
    <3> QED BY <3>1, <3>2, Zenon DEF n
  <2>2. CASE c \in ConfChar
    <3>1. /\ GrownBy(rows, more, c) /\ NothingAhead' /\ AreRows(more)
          /\ Len(more) = n /\ more[n] = Add(rows[n], c)
      BY <1>0, <1>a, <2>2, ReadsOn
    <3>2. CASE f = n
      <4>1. HasInk(rows[n]) /\ FirstInk(rows[n]) # Comment
        BY <1>5, <3>2
      <4>2. HasInk(more[n]) /\ FirstInk(more[n]) # Comment
        BY <1>1, <2>2, <3>1, <4>1, TrimGrows
      <4>3. Holds(kind, more, n)
        BY <3>1, <4>2, LastHolds
      <4> QED BY <3>1, <3>2, <4>3
    <3>3. CASE IsFirm(kind, rows[f])
      BY <1>a, <1>5, <2>2, <3>1, <3>3, StaysFirm
    <3> QED BY <1>5, <3>2, <3>3
  <2> QED BY <1>0, <2>1, <2>2
<1> HIDE DEF rows, more, n
<1>7. Became("returned", -conf.rc, conf.line, conf.ns, conf.tofp, conf.result, conf.oom)
  BY <1>0 DEF BadEscape, ReturnRow, Became, ConfIsRecord
<1>8. /\ conf'.kind = kind /\ conf'.copy = conf.copy /\ conf'.at = "returned"
      /\ conf'.row = from /\ conf'.rc = -conf.rc /\ conf'.ns = conf.ns
  BY <1>7 DEF Became
<1>9. -conf.rc \in Int /\ -conf.rc <= 0 /\ (-conf.rc = 0 => n = 1) /\ ~InFile(conf')
  BY <1>1, <1>3, <1>8 DEF InFile
<1>10. Refused(conf', more, f)
  BY <1>5, <1>6, <1>8, <1>9 DEF Refused
<1>11. AnswerIs(conf', more, ended')
  BY <1>3, <1>6, <1>8, <1>9, <1>10 DEF AnswerIs
<1>12. LinesAre(conf', more, ended')
  BY <1>1, <1>3, <1>8, <1>9, <1>11, Returns
<1> QED BY <1>6, <1>12, Zenon DEF RecordInv, more

LEMMA SkippedOne ==
    ASSUME NEW kind, NEW rows, NEW from \in Nat, NEW n \in Nat \ {0},
           Skipped(kind, rows, from, n - 1),
           ~Holds(kind, rows, n)
    PROVE  Skipped(kind, rows, from, n)
BY DEF Skipped

LEMMA KeptLast ==
    ASSUME NEW kind, NEW rows, AreRows(rows), kind # "conf",
           ~HasInk(rows[Len(rows)]) \/ IsComment(rows[Len(rows)])
    PROVE  LET before == KeptUpTo(kind, rows, Len(rows) - 1) IN
           /\ ~HasInk(rows[Len(rows)]) => KeptUpTo(kind, rows, Len(rows)) = before
           /\ IsComment(rows[Len(rows)]) =>
                KeptUpTo(kind, rows, Len(rows)) = Cat(before, rows[Len(rows)])
<1> DEFINE n == Len(rows)
           m == n - 1
<1>1. n \in 1..Len(rows) /\ ~(n < Len(rows)) /\ m \in Nat /\ m < Len(rows) /\ m + 1 = n
  BY DEF AreRows
<1>2. /\ ~HasInk(rows[n]) => Kept(kind, rows, n) = <<>>
      /\ IsComment(rows[n]) => Kept(kind, rows, n) = rows[n]
  BY <1>1, KeptIs
<1> HIDE DEF m
<1>3. KeptUpTo(kind, rows, m + 1) = Cat(KeptUpTo(kind, rows, m), Kept(kind, rows, m + 1))
  BY <1>1, KeptStep
<1>4. IsText(KeptUpTo(kind, rows, m))
  BY <1>1, KeptTyped
<1>5. Cat(KeptUpTo(kind, rows, m), <<>>) = KeptUpTo(kind, rows, m)
  BY <1>4, Texts
<1> HIDE DEF n
<1>6. KeptUpTo(kind, rows, n) = Cat(KeptUpTo(kind, rows, m), Kept(kind, rows, n))
  BY <1>1, <1>3, Zenon
<1> QED BY <1>2, <1>5, <1>6, Zenon DEF n, m

LEMMA EndFileKeeps == ASSUME ConfTypes, RecordInv, EndFile PROVE RecordInv'
<1> DEFINE rows == Rows(text)
           more == Rows(text')
           n == Len(rows)
           from == conf.row
           kind == conf.kind
<1>0. /\ Reads(conf) /\ conf.at \in {"reading", "comment"} /\ more = rows /\ NothingAhead'
      /\ ended' = TRUE /\ ConfIsRecord /\ ended \in BOOLEAN
  <2>1. Reads(conf) /\ conf.at \in {"reading", "comment"} /\ Getc(EOF)
    BY DEF EndFile, Reads
  <2>2. more = rows /\ ended' /\ NothingAhead'
    BY <2>1, NoMoreCharacters DEF RecordInv
  <2>3. ended' = TRUE
    BY <2>1 DEF Getc, ConfTypes, FileTypes, EOF
  <2> QED BY <2>1, <2>2, <2>3 DEF ConfTypes, CallTypes, FileTypes
<1>1. AreRows(rows) /\ n \in Nat \ {0} /\ LinesAre(conf, rows, ended) /\ from \in Nat
  <2>1. AreRows(rows)
    BY RowsAre DEF ConfTypes, FileTypes
  <2>2. n \in Nat \ {0}
    BY <2>1, TextRows
  <2> QED BY <2>1, <2>2 DEF RecordInv, ConfTypes, CallTypes
<1>2. ~ended => /\ conf.rc = n - 1 /\ from < n
                /\ conf.copy => from = 0 /\ InFile(conf)
                /\ conf.kind = "conf" => conf.ns = 0
                /\ ~conf.oom
                /\ conf.line = <<>> /\ ~conf.copy => Skipped(kind, rows, from, n - 1)
                /\ conf.line # <<>> /\ ~conf.copy => Started(kind, rows, from, conf.line, n)
                /\ conf.line # <<>> /\ InFile(conf) => conf.line = rows[n] /\ IsFirm(kind, rows[n])
  BY <1>0, AtReading
<1>3. /\ ended => /\ conf.at = "reading" /\ conf.line = <<>>
                  /\ ~conf.copy => from = n
      /\ conf.copy => from = 0 /\ InFile(conf)
      /\ conf.kind = "conf" => conf.ns = 0
  BY <1>0, <1>1 DEF LinesAre, RowsCounted
<1>4. InFile(conf) => kind # "conf"
  BY DEF InFile
<1>5. ~ended => /\ conf.at = "reading" /\ conf.line = <<>> => ~HasInk(rows[n])
                /\ conf.at = "comment" => conf.line = <<>> /\ IsComment(rows[n])
  BY <1>1 DEF LinesAre, Current
<1>6. conf.copy => /\ conf.at = "reading" /\ ~ended =>
                        Same(Tidy(rows, 0), conf.tofp, KeptUpTo(kind, rows, n - 1))
                   /\ conf.at = "reading" /\ ended =>
                        Same(Tidy(rows, 0), conf.tofp, KeptUpTo(kind, rows, n))
                   /\ conf.at = "comment" =>
                        Same(Tidy(rows, 0), conf.tofp, Cat(KeptUpTo(kind, rows, n - 1), rows[n]))
  BY <1>1 DEF LinesAre, CopiedIs
<1>7. CASE conf.line = <<>>
  <2>2. conf.copy => Same(Tidy(rows, 0), conf.tofp, KeptUpTo(kind, rows, n))
    <3> SUFFICES ASSUME conf.copy PROVE Same(Tidy(rows, 0), conf.tofp, KeptUpTo(kind, rows, n))
      OBVIOUS
    <3>1. CASE ~ended /\ conf.at = "reading"
      <4>1. KeptUpTo(kind, rows, n) = KeptUpTo(kind, rows, n - 1)
        BY <1>1, <1>3, <1>4, <1>5, <1>7, <3>1, KeptLast
      <4> QED BY <1>6, <3>1, <4>1, Zenon
    <3>2. CASE ~ended /\ conf.at = "comment"
      <4>1. KeptUpTo(kind, rows, n) = Cat(KeptUpTo(kind, rows, n - 1), rows[n])
        BY <1>1, <1>3, <1>4, <1>5, <1>7, <3>2, KeptLast
      <4> QED BY <1>6, <3>2, <4>1, Zenon
    <3>3. CASE ended
      BY <1>3, <1>6, <3>3
    <3> QED BY <1>0, <3>1, <3>2, <3>3
  <2> HIDE DEF rows, more
  <2>3. Became("returned", 0, conf.line, conf.ns, conf.tofp, conf.result, conf.oom)
    BY <1>0, <1>7 DEF EndFile, ReturnRow, Became, ConfIsRecord
  <2>4. /\ conf'.kind = kind /\ conf'.copy = conf.copy /\ conf'.at = "returned"
        /\ conf'.row = from /\ conf'.rc = 0 /\ conf'.ns = conf.ns /\ conf'.tofp = conf.tofp
        /\ (InFile(conf') <=> InFile(conf))
    BY <2>3 DEF Became, InFile
  <2>5. AnswerIs(conf', rows, TRUE)
    BY <2>2, <2>4 DEF AnswerIs
  <2>6. LinesAre(conf', rows, TRUE)
    <3> DEFINE rc == 0
    <3>1. rc \in Int /\ conf'.rc = rc /\ rc <= 0
      BY <2>4
    <3> HIDE DEF rc
    <3> QED BY <1>3, <2>4, <2>5, <3>1, Returns
  <2> QED BY <1>0, <2>6, Zenon DEF RecordInv, more
<1>8. CASE conf.line # <<>>
  <2>1. ~ended /\ conf.at = "reading"
    BY <1>0, <1>3, <1>5, <1>8
  <2> HIDE DEF rows, more, n
  <2>2. Became("line", conf.rc + 1, conf.line, conf.ns, conf.tofp, conf.result, conf.oom)
    BY <1>0, <1>8 DEF EndFile, Became, ConfIsRecord
  <2>3. /\ conf'.kind = kind /\ conf'.copy = conf.copy /\ conf'.at = "line" /\ conf'.row = from
        /\ conf'.rc = n /\ conf'.line = conf.line /\ conf'.ns = conf.ns /\ conf'.tofp = conf.tofp
        /\ conf'.oom = conf.oom
    BY <1>1, <1>2, <2>1, <2>2 DEF Became
  <2>4. ~Reads(conf') /\ HasLine(conf') /\ (InFile(conf') <=> InFile(conf))
    BY <2>3 DEF Reads, HasLine, InFile
  <2>5. RowsCounted(conf', rows, TRUE)
    BY <1>1, <1>2, <1>3, <1>8, <2>1, <2>3, <2>4 DEF RowsCounted, n
  <2>6. /\ Current(conf', rows[Len(rows)], TRUE) /\ Blanked(conf', rows, TRUE)
        /\ AnswerIs(conf', rows, TRUE)
    BY <2>3 DEF Current, Blanked, AnswerIs
  <2>7. Gathered(conf', rows)
    <3>1. LastRow(conf', rows) = n
      BY <2>3, <2>4 DEF LastRow
    <3> QED BY <1>2, <1>8, <2>1, <2>3, <2>4, <3>1, Zenon DEF Gathered
  <2>8. CopiedIs(conf', rows, TRUE)
    BY <1>6, <2>1, <2>3 DEF CopiedIs
  <2>9. LinesAre(conf', rows, TRUE)
    BY <2>5, <2>6, <2>7, <2>8, Zenon DEF LinesAre
  <2> QED BY <1>0, <2>9, Zenon DEF RecordInv, more
<1> QED BY <1>7, <1>8

-----------------------------------------------------------------------------
(*                        The calls that have a line                       *)

(* What is known of a call that has a line. *)
LEMMA AtLine ==
    ASSUME ConfTypes, RecordInv, HasLine(conf)
    PROVE  LET rows == Rows(text)
               n == Len(rows)
               from == conf.row
               kind == conf.kind
               rc == conf.rc
           IN
           /\ ConfIsRecord /\ LinesAre(conf, rows, ended) /\ AreRows(rows) /\ n \in Nat \ {0}
           /\ conf.line # <<>> /\ from \in Nat /\ rc \in 1..n /\ rc \in Nat \ {0} /\ from < rc
           /\ ended \in BOOLEAN /\ (ended => rc = n) /\ (~ended => rc = n - 1 /\ rows[n] = <<>>)
           /\ conf.copy => from = 0 /\ InFile(conf) /\ conf.at = "line"
           /\ conf.kind = "conf" => conf.ns = 0
           /\ ~conf.oom /\ (InFile(conf) => kind # "conf")
           /\ ~conf.copy => Started(kind, rows, from, conf.line, rc)
           /\ InFile(conf) => conf.line = rows[rc] /\ IsFirm(kind, rows[rc])
           /\ rc < n => ~IsContinued(kind, rows[rc])
<1> DEFINE rows == Rows(text)
           n == Len(rows)
           from == conf.row
           kind == conf.kind
           rc == conf.rc
<1>1. /\ LinesAre(conf, rows, ended) /\ AreRows(rows) /\ ConfIsRecord /\ ended \in BOOLEAN
      /\ from \in Nat /\ rc \in Int
  BY RowsAre DEF RecordInv, ConfTypes, CallTypes, FileTypes
<1> HIDE DEF rows
<1>2. n \in Nat \ {0}
  BY <1>1, TextRows
<1>3. ~Reads(conf) /\ conf.at \in {"line", "returned"} /\ (conf.at = "returned" => rc > 0)
  BY DEF Reads, HasLine
<1>4. /\ conf.line # <<>> /\ from < rc /\ rc <= n /\ rc > 0
      /\ (ended => rc = n) /\ (~ended => rc = n - 1 /\ rows[n] = <<>>)
      /\ rc < n => ~IsContinued(kind, rows[rc])
      /\ conf.copy => from = 0 /\ InFile(conf) /\ (conf.at = "returned" => rc <= 0)
      /\ conf.kind = "conf" => conf.ns = 0
      /\ conf.oom => conf.at = "returned" /\ rc <= 0
  BY <1>1 DEF LinesAre, RowsCounted
<1>5. ~conf.oom /\ (conf.copy => conf.at = "line") /\ rc \in 1..n /\ rc \in Nat \ {0}
  BY <1>1, <1>2, <1>3, <1>4
<1>6. /\ ~conf.copy => Started(kind, rows, from, conf.line, rc)
      /\ InFile(conf) => conf.line = rows[rc] /\ IsFirm(kind, rows[rc])
  <2>1. LastRow(conf, rows) = rc /\ Gathered(conf, rows)
    BY <1>1, <1>3 DEF LastRow, LinesAre
  <2> HIDE DEF rc
  <2> QED BY <1>4, <2>1, Zenon DEF Gathered
<1>7. InFile(conf) => kind # "conf"
  BY DEF InFile
<1> QED BY <1>1, <1>2, <1>4, <1>5, <1>6, <1>7, Zenon DEF rows

Unread == text' = text /\ ahead' = ahead /\ ended' = ended
LEMMA UnreadRows ==
    ASSUME RecordInv, Unread
    PROVE  /\ Rows(text') = Rows(text) /\ NothingAhead' /\ ended' = ended
           /\ LinesAre(conf', Rows(text), ended) => RecordInv'
<1>1. Rows(text') = Rows(text)
  BY Zenon DEF Unread
<1>2. NothingAhead' /\ ended' = ended
  BY DEF Unread, RecordInv, NothingAhead
<1> HIDE DEF NothingAhead
<1>3. LinesAre(conf', Rows(text), ended) => LinesAre(conf', Rows(text'), ended')
  BY <1>1, <1>2, Zenon
<1> QED BY <1>1, <1>2, <1>3, Zenon DEF RecordInv

LEMMA LineAccepted ==
    ASSUME ConfTypes, RecordInv, conf.at = "line", ~conf.copy, Unread, NEW record,
           Became("returned", conf.rc, conf.line, conf.ns, conf.tofp, record, conf.oom)
    PROVE  RecordInv'
<1> DEFINE rows == Rows(text)
           n == Len(rows)
           from == conf.row
           kind == conf.kind
           rc == conf.rc
<1>1. /\ HasLine(conf) /\ n \in Nat \ {0}
      /\ conf.line # <<>> /\ from \in Nat /\ rc \in 1..n /\ rc \in Nat \ {0} /\ from < rc
      /\ ended \in BOOLEAN /\ (ended => rc = n) /\ (~ended => rc = n - 1 /\ rows[n] = <<>>)
      /\ conf.kind = "conf" => conf.ns = 0
      /\ ~conf.oom
      /\ Started(kind, rows, from, conf.line, rc)
      /\ InFile(conf) => conf.line = rows[rc] /\ IsFirm(kind, rows[rc])
      /\ rc < n => ~IsContinued(kind, rows[rc])
  <2>1. HasLine(conf)
    BY DEF HasLine
  <2> QED BY <2>1, AtLine
<1> HIDE DEF rows, n
<1>2. /\ conf'.kind = kind /\ conf'.copy = conf.copy /\ conf'.at = "returned" /\ conf'.row = from
      /\ conf'.rc = rc /\ conf'.line = conf.line /\ conf'.ns = conf.ns /\ conf'.oom = conf.oom
  BY DEF Became
<1>3. ~Reads(conf') /\ HasLine(conf') /\ (InFile(conf') <=> InFile(conf))
  BY <1>1, <1>2 DEF Reads, HasLine, InFile
<1>4. RowsCounted(conf', rows, ended)
  BY <1>1, <1>2, <1>3 DEF RowsCounted, n
<1>5. /\ Current(conf', rows[Len(rows)], ended) /\ Blanked(conf', rows, ended)
      /\ CopiedIs(conf', rows, ended)
  BY <1>2 DEF Current, Blanked, CopiedIs
<1>6. Gathered(conf', rows)
  <2>1. LastRow(conf', rows) = rc
    BY <1>2, <1>3 DEF LastRow
  <2> HIDE DEF rc
  <2> QED BY <1>1, <1>2, <1>3, <2>1, Zenon DEF Gathered
<1>7. AnswerIs(conf', rows, ended)
  BY <1>1, <1>2 DEF AnswerIs
<1>8. LinesAre(conf', rows, ended)
  BY <1>4, <1>5, <1>6, <1>7, Zenon DEF LinesAre
<1> QED BY <1>8, UnreadRows DEF rows

LEMMA LineRefused ==
    ASSUME ConfTypes, RecordInv, conf.at = "line", Unread, NEW line, NEW failed,
           Became("returned", -conf.rc, line, conf.ns, conf.tofp, conf.result, failed)
    PROVE  RecordInv'
<1> DEFINE rows == Rows(text)
           n == Len(rows)
           from == conf.row
           kind == conf.kind
           rc == conf.rc
<1>1. /\ AreRows(rows) /\ n \in Nat \ {0}
      /\ conf.line # <<>> /\ from \in Nat /\ rc \in 1..n /\ rc \in Nat \ {0} /\ from < rc
      /\ conf.copy => from = 0 /\ InFile(conf)
      /\ conf.kind = "conf" => conf.ns = 0
      /\ (InFile(conf) => kind # "conf")
      /\ ~conf.copy => Started(kind, rows, from, conf.line, rc)
      /\ InFile(conf) => conf.line = rows[rc] /\ IsFirm(kind, rows[rc])
  <2>1. HasLine(conf)
    BY DEF HasLine
  <2> QED BY <2>1, AtLine
<1>2. /\ conf'.kind = kind /\ conf'.copy = conf.copy /\ conf'.at = "returned" /\ conf'.row = from
      /\ conf'.rc = -rc /\ conf'.ns = conf.ns /\ conf'.oom = failed
      /\ (InFile(conf') <=> InFile(conf))
  BY DEF Became, InFile
<1>3. ASSUME ~failed PROVE \E f : Refused(conf', rows, f)
  <2>1. CASE InFile(conf)
    <3>1. Holds(kind, rows, rc) /\ rc \in from + 1..Len(rows)
      BY <1>1, <2>1, HoldsIs
    <3>4. Refused(conf', rows, rc)
      BY <1>2, <3>1, Zenon DEF Refused
    <3> QED BY <3>4
  <2>2. CASE ~InFile(conf)
    <3>1. PICK f : Starts(kind, rows, from, conf.line, rc, f)
      BY <1>1, <2>2 DEF Started
    <3>2. f \in from + 1..rc /\ IsFirm(kind, rows[f]) /\ f \in 1..Len(rows)
          /\ f \in from + 1..Len(rows)
      BY <1>1, <3>1 DEF Starts
    <3>3. Holds(kind, rows, f)
      BY <1>1, <3>2, HoldsIs
    <3>4. Refused(conf', rows, f)
      BY <1>2, <2>2, <3>2, <3>3, Zenon DEF Refused
    <3> QED BY <3>4
  <2> QED BY <2>1, <2>2
<1>4. -rc \in Int /\ -rc <= 0 /\ -rc # 0
  BY <1>1
<1> HIDE DEF rows
<1>5. AnswerIs(conf', rows, ended)
  BY <1>2, <1>3, <1>4 DEF AnswerIs
<1>6. LinesAre(conf', rows, ended)
  BY <1>1, <1>2, <1>4, <1>5, Returns
<1> QED BY <1>6, UnreadRows DEF rows

LEMMA LineCopied ==
    ASSUME ConfTypes, RecordInv, conf.at = "line", conf.copy, Unread, conf' = CopyLine
    PROVE  RecordInv'
<1> DEFINE rows == Rows(text)
           n == Len(rows)
           from == conf.row
           kind == conf.kind
           rc == conf.rc
           copied == Cat(conf.tofp, Add(conf.line, Newline))
           tidy == Tidy(rows, 0)
<1>1. /\ ConfIsRecord /\ LinesAre(conf, rows, ended) /\ AreRows(rows) /\ n \in Nat \ {0}
      /\ conf.line # <<>> /\ rc \in 1..n /\ rc \in Nat \ {0} /\ from < rc
      /\ ended \in BOOLEAN /\ (ended => rc = n) /\ (~ended => rc = n - 1 /\ rows[n] = <<>>)
      /\ from = 0 /\ InFile(conf) /\ kind # "conf" /\ ~conf.oom
      /\ conf.line = rows[rc] /\ IsFirm(kind, rows[rc])
  <2>1. HasLine(conf)
    BY DEF HasLine
  <2> QED BY <2>1, AtLine
<1>2. IsText(conf.line) /\ Newline \in ConfChar
  <2>1. IsText(rows[rc])
    BY <1>1, TextRows
  <2> QED BY <1>1, <2>1, Distinct
<1>3. conf'.tofp = copied /\ Became("reading", rc, <<>>, 0, copied, conf.result, conf.oom)
  <2>1. Copied(Append(conf.line, Newline)) = copied
    BY Zenon DEF Copied, Cat, Add
  <2> HIDE DEF copied
  <2> QED BY <1>1, <2>1 DEF CopyLine, Became, ConfIsRecord
<1>4. Same(tidy, copied, KeptUpTo(kind, rows, rc))
  <2> DEFINE m == rc - 1
  <2>1. Same(tidy, conf.tofp, KeptUpTo(kind, rows, m))
    BY <1>1 DEF LinesAre, CopiedIs
  <2>2. m \in Nat /\ m < Len(rows) /\ m + 1 = rc
    BY <1>1
  <2>3. Kept(kind, rows, rc) = Add(conf.line, Newline)
    BY <1>1, KeptIs
  <2> HIDE DEF m, rows
  <2>4. KeptUpTo(kind, rows, m + 1) = Cat(KeptUpTo(kind, rows, m), Kept(kind, rows, m + 1))
    BY <1>1, <2>2, KeptStep
  <2> HIDE DEF rc
  <2>5. KeptUpTo(kind, rows, rc) = Cat(KeptUpTo(kind, rows, m), Add(conf.line, Newline))
    BY <2>2, <2>3, <2>4, Zenon
  <2>6. Same(tidy, Add(conf.line, Newline), Add(conf.line, Newline))
    BY <1>2, Texts, SameSelf
  <2> QED BY <2>1, <2>5, <2>6, SameCat
<1> HIDE DEF copied, rows, n, tidy
<1>5. /\ conf'.kind = kind /\ conf'.copy = conf.copy /\ conf'.at = "reading" /\ conf'.row = from
      /\ conf'.rc = rc /\ conf'.line = <<>> /\ conf'.ns = 0 /\ conf'.tofp = copied
      /\ conf'.oom = conf.oom
  BY <1>3 DEF Became
<1>6. Reads(conf') /\ InFile(conf') /\ ~HasLine(conf')
  BY <1>1, <1>5 DEF Reads, InFile, HasLine
<1>7. CASE ended
  <2>1. RowsCounted(conf', rows, TRUE)
    BY <1>1, <1>5, <1>6, <1>7 DEF RowsCounted, n
  <2>2. /\ Current(conf', rows[Len(rows)], TRUE) /\ Blanked(conf', rows, TRUE)
        /\ AnswerIs(conf', rows, TRUE)
    BY <1>5 DEF Current, Blanked, AnswerIs
  <2>3. Gathered(conf', rows)
    BY <1>1, <1>5 DEF Gathered
  <2>4. CopiedIs(conf', rows, TRUE)
    <3>1. Same(tidy, copied, KeptUpTo(kind, rows, n))
      BY <1>1, <1>4, <1>7
    <3> QED BY <1>5, <3>1 DEF CopiedIs, tidy, n
  <2>5. LinesAre(conf', rows, TRUE)
    BY <2>1, <2>2, <2>3, <2>4, Zenon DEF LinesAre
  <2>6. LinesAre(conf', rows, ended)
    BY <1>1, <1>7, <2>5
  <2> QED BY <2>6, UnreadRows DEF rows
<1>8. CASE ~ended
  <2>1. n - 1 = rc /\ Len(rows[n]) = 0 /\ ~HasInk(rows[n]) /\ ~IsContinued(kind, rows[n])
    BY <1>1, <1>8 DEF HasInk, Ink, IsContinued
  <2>2. Current(conf', rows[n], FALSE) /\ Blanked(conf', rows, FALSE)
    BY <1>5, <2>1 DEF Current, Blanked, n
  <2>3. CopiedIs(conf', rows, FALSE)
    <3>1. Same(tidy, copied, KeptUpTo(kind, rows, n - 1))
      BY <1>4, <2>1
    <3> QED BY <1>5, <3>1 DEF CopiedIs, tidy, n
  <2>4. LinesAre(conf', rows, FALSE)
    <3>1. n = Len(rows) /\ 0 \in Nat /\ 0 < n /\ rc = n - 1
      BY <1>1, <2>1 DEF n
    <3> QED BY <1>1, <1>5, <1>6, <2>2, <2>3, <3>1, StillReads
  <2>5. LinesAre(conf', rows, ended)
    BY <1>1, <1>8, <2>4
  <2> QED BY <2>5, UnreadRows DEF rows
<1> QED BY <1>7, <1>8

(* A line with a pass phrase has white space. *)
LEMMA PassPhraseHasSpace ==
    ASSUME NEW line \in Seq(LineChar), PFOf(line) # <<>>
    PROVE  Space \in Range(line)
<1> SUFFICES ASSUME Space \notin Range(line) PROVE FALSE
  OBVIOUS
<1> DEFINE starts == {k \in DOMAIN line : line[k] # Space /\ (k = 1 \/ line[k - 1] = Space)}
<1>1. starts = {} \/ starts = {1}
  <2>1. \A k \in DOMAIN line : line[k] # Space
    BY DEF Range
  <2>2. \A k \in starts : k = 1
    <3> SUFFICES ASSUME NEW k \in starts, k # 1 PROVE FALSE
      OBVIOUS
    <3>1. k \in 1..Len(line) /\ Len(line) \in Nat /\ line[k - 1] = Space
      OBVIOUS
    <3>2. k - 1 \in 1..Len(line)
      BY <3>1
    <3> QED BY <2>1, <3>1, <3>2
  <2> HIDE DEF starts
  <2> QED BY <2>2
<1>2. Cardinality(starts) \in {0, 1}
  <2> HIDE DEF starts
  <2>1. Cardinality({}) = 0
    BY FS_EmptySet
  <2>2. Cardinality({1}) = 1
    BY NthOfOne
  <2> QED BY <1>1, <2>1, <2>2
<1>3. Len(Tokens(line)) = Cardinality(starts)
  <2> DEFINE End(k) == Max({j \in k..Len(line) : \A i \in k..j : line[i] # Space})
  <2>1. Tokens(line) = [n \in 1..Cardinality(starts) |->
                          SubSeq(line, Nth(starts, n), End(Nth(starts, n)))]
    BY Zenon DEF Tokens
  <2> HIDE DEF starts, End
  <2> QED BY <1>2, <2>1
<1>4. Len(Tokens(line)) = 2
  BY DEF PFOf
<1> HIDE DEF starts
<1>5. 2 \in {0, 1}
  BY <1>2, <1>3, <1>4, Zenon
<1> QED BY <1>5

LEMMA ResultKeeps ==
    ASSUME ConfTypes, RecordInv, conf.at = "line", Unread, NEW record, conf' = Result(record),
           record # <<>> => ~conf.copy
    PROVE  RecordInv'
<1>0. ConfIsRecord
  BY DEF ConfTypes, CallTypes
<1>1. CASE record = <<>>
  <2>1. Became("returned", -conf.rc, conf.line, conf.ns, conf.tofp, conf.result, conf.oom)
    BY <1>0, <1>1 DEF Result, Became, ConfIsRecord
  <2> QED BY <1>1, <2>1, LineRefused
<1>2. CASE record # <<>>
  <2>1. Became("returned", conf.rc, conf.line, conf.ns, conf.tofp, record, conf.oom)
    BY <1>0, <1>2 DEF Result, Became, ConfIsRecord
  <2> QED BY <1>2, <2>1, LineAccepted
<1> QED BY <1>1, <1>2

LEMMA ParsesKeep ==
    ASSUME ConfTypes, RecordInv,
           I2ReadConfVar \/ I2ParseKeyFile \/ I2ParsePFFile \/ OutOfResultMemory
    PROVE  RecordInv'
<1>0. ConfIsRecord /\ conf.line \in Seq(LineChar)
  BY DEF ConfTypes, CallTypes
<1>1. CASE I2ReadConfVar
  <2>1. conf.at = "line" /\ Unread /\ conf' = Result(VarOf(conf.line)) /\ conf.kind = "conf"
    BY <1>1 DEF I2ReadConfVar, Unread
  <2>2. HasLine(conf) /\ ~InFile(conf)
    BY <2>1 DEF HasLine, InFile
  <2>3. ~conf.copy
    BY <2>2, AtLine
  <2> QED BY <2>1, <2>2, <2>3, ResultKeeps
<1>2. CASE I2ParseKeyFile
  <2>1. /\ conf.at = "line" /\ Unread /\ conf.kind = "key"
        /\ conf.copy /\ KeyOf(conf.line) # <<>> => conf' = CopyLine
        /\ ~(conf.copy /\ KeyOf(conf.line) # <<>>) => conf' = Result(KeyOf(conf.line))
    BY <1>2 DEF I2ParseKeyFile, Unread
  <2>3. CASE conf.copy /\ KeyOf(conf.line) # <<>>
    BY <2>1, <2>3, LineCopied
  <2>4. CASE ~(conf.copy /\ KeyOf(conf.line) # <<>>)
    BY <2>1, <2>4, ResultKeeps
  <2> QED BY <2>3, <2>4
<1>3. CASE I2ParsePFFile
  <2>1. /\ conf.at = "line" /\ Unread /\ conf.kind = "pf"
        /\ conf.copy /\ Space \in Range(conf.line) => conf' = CopyLine
        /\ ~(conf.copy /\ Space \in Range(conf.line)) => conf' = Result(PFOf(conf.line))
    BY <1>3 DEF I2ParsePFFile, Unread
  <2>3. CASE conf.copy /\ Space \in Range(conf.line)
    BY <2>1, <2>3, LineCopied
  <2>4. CASE ~(conf.copy /\ Space \in Range(conf.line))
    <3>1. PFOf(conf.line) # <<>> => ~conf.copy
      BY <1>0, <2>4, PassPhraseHasSpace
    <3> QED BY <2>1, <2>4, <3>1, ResultKeeps
  <2> QED BY <2>3, <2>4
<1>4. CASE OutOfResultMemory
  <2>1. conf.at = "line" /\ Unread
        /\ conf' = [conf EXCEPT !.at = "returned", !.rc = -@, !.line = <<>>, !.oom = TRUE]
    BY <1>4 DEF OutOfResultMemory, Unread
  <2>2. Became("returned", -conf.rc, <<>>, conf.ns, conf.tofp, conf.result, TRUE)
    BY <1>0, <2>1 DEF Became, ConfIsRecord
  <2> QED BY <2>1, <2>2, LineRefused
<1> QED BY <1>1, <1>2, <1>3, <1>4

LEMMA CallParserKeeps == ASSUME ConfTypes, RecordInv, CallParser PROVE RecordInv'
<1> DEFINE rows == Rows(text)
           n == Len(rows)
           more == Rows(text')
           m == Len(more)
<1>c. /\ \/ conf = Idle
         \/ conf.at = "returned" /\ conf.rc > 0
         \/ conf.at = "returned" /\ conf.rc = 0 /\ ~ended /\ conf.copy /\ ~conf.oom
      /\ text' = IF conf.rc = 0 THEN <<>> ELSE text
      /\ UNCHANGED <<ahead, ended, num>>
  BY DEF CallParser
<1>b. PICK kind \in Kinds, copy \in BOOLEAN :
        /\ conf # Idle => kind = conf.kind /\ copy = conf.copy
        /\ kind = "conf" \/ ahead.is => ~copy
        /\ conf' = [Idle EXCEPT !.kind = kind, !.copy = copy, !.at = "reading",
                                !.row = conf.rc, !.rc = conf.rc]
  BY Zenon DEF CallParser
<1>a. /\ \/ conf = Idle
         \/ conf.at = "returned" /\ conf.rc > 0 /\ kind = conf.kind /\ copy = conf.copy
         \/ conf.at = "returned" /\ conf.rc = 0 /\ ~ended /\ ~conf.oom
            /\ conf.copy /\ kind = conf.kind /\ copy
      /\ kind = "conf" \/ ahead.is => ~copy
      /\ conf' = [Idle EXCEPT !.kind = kind, !.copy = copy, !.at = "reading",
                              !.row = conf.rc, !.rc = conf.rc]
      /\ text' = IF conf.rc = 0 THEN <<>> ELSE text
      /\ UNCHANGED <<ahead, ended, num>>
  <2>1. conf.at = "returned" => conf # Idle
    BY DEF Idle
  <2> QED BY <1>b, <1>c, <2>1, Zenon
<1>0. /\ ConfIsRecord /\ n \in Nat \ {0} /\ LinesAre(conf, rows, ended)
      /\ AreRows(more) /\ m \in Nat \ {0} /\ ended \in BOOLEAN
  <2>1. text \in Seq(ConfChar) /\ text' \in Seq(ConfChar)
    <3>1. <<>> \in Seq(ConfChar)
      OBVIOUS
    <3> QED BY <1>a, <3>1 DEF ConfTypes, FileTypes
  <2>2. AreRows(rows) /\ AreRows(more)
    BY <2>1, RowsAre
  <2> QED BY <2>2, TextRows DEF ConfTypes, CallTypes, FileTypes, RecordInv
<1> HIDE DEF rows, n, more, m
<1>1. /\ conf'.kind = kind /\ conf'.copy = copy /\ conf'.at = "reading" /\ conf'.row = conf.rc
      /\ conf'.rc = conf.rc /\ conf'.line = <<>> /\ conf'.ns = 0 /\ conf'.tofp = <<>>
      /\ ~conf'.oom
  BY <1>0, <1>a DEF Idle
<1>2. Reads(conf') /\ ~HasLine(conf')
  BY <1>1 DEF Reads, HasLine
<1>3. \A last, rc \in Int : rc + 1 > last => Skipped(kind, more, rc, last)
  BY DEF Skipped
<1>4. /\ conf.rc \in Nat /\ ~conf.oom /\ (copy => conf.rc = 0 /\ kind # "conf")
      /\ ended => conf.rc = m /\ ~copy
      /\ ~ended => conf.rc = m - 1 /\ more[m] = <<>>
  <2>1. CASE conf = Idle
    <3>1. ~ended /\ conf.rc = 0 /\ ~conf.oom
      BY <1>0, <2>1 DEF LinesAre, RowsCounted, Idle
    <3>2. m = 1 /\ more[1] = <<>>
      <4>1. more = Rows(<<>>)
        BY <1>a, <3>1, Zenon DEF more
      <4> QED BY <4>1, RowsOfNothing DEF m
    <3> QED BY <1>a, <2>1, <3>1, <3>2
  <2>2. CASE conf.at = "returned" /\ conf.rc > 0 /\ kind = conf.kind /\ copy = conf.copy
    <3>1. HasLine(conf)
      BY <2>2 DEF HasLine
    <3>2. /\ conf.rc \in Nat \ {0} /\ ~conf.oom /\ ~conf.copy
          /\ ended => conf.rc = n
          /\ ~ended => conf.rc = n - 1 /\ rows[n] = <<>>
      BY <2>2, <3>1, AtLine DEF rows, n
    <3>3. more = rows /\ m = n
      <4>1. text' = text
        BY <1>a, <3>2
      <4> QED BY <4>1, Zenon DEF more, rows, m, n
    <3> QED BY <2>2, <3>2, <3>3
  <2>3. CASE /\ conf.rc = 0 /\ ~ended /\ ~conf.oom
             /\ conf.copy /\ kind = conf.kind /\ copy
    <3>1. kind # "conf"
      BY <1>a, <2>3
    <3>2. more = Rows(<<>>)
      BY <1>a, <2>3, Zenon DEF more
    <3>3. m = 1 /\ more[1] = <<>>
      BY <3>2, RowsOfNothing DEF m
    <3> QED BY <2>3, <3>1, <3>3
  <2> QED BY <1>a, <2>1, <2>2, <2>3
<1>n. NothingAhead'
  BY <1>a DEF RecordInv, NothingAhead
<1>5. CASE ended
  <2>1. RowsCounted(conf', more, TRUE)
    BY <1>0, <1>1, <1>2, <1>4, <1>5 DEF RowsCounted, m
  <2>2. /\ Current(conf', more[Len(more)], TRUE) /\ Blanked(conf', more, TRUE)
        /\ AnswerIs(conf', more, TRUE) /\ CopiedIs(conf', more, TRUE)
    BY <1>1, <1>4, <1>5 DEF Current, Blanked, AnswerIs, CopiedIs
  <2>3. Gathered(conf', more)
    <3>1. Skipped(kind, more, conf.rc, conf.rc)
      BY <1>3, <1>4
    <3> QED BY <1>1, <3>1 DEF Gathered
  <2>4. LinesAre(conf', more, ended')
    <3>1. LinesAre(conf', more, TRUE)
      BY <2>1, <2>2, <2>3, Zenon DEF LinesAre
    <3> QED BY <1>0, <1>a, <1>5, <3>1
  <2> QED BY <1>n, <2>4 DEF more, RecordInv
<1>6. CASE ~ended
  <2>1. ~HasInk(more[m]) /\ ~IsContinued(kind, more[m]) /\ Len(more[m]) = 0
    BY <1>4, <1>6 DEF HasInk, Ink, IsContinued
  <2>2. Current(conf', more[m], FALSE) /\ Blanked(conf', more, FALSE)
    BY <1>1, <2>1 DEF Current, Blanked, m
  <2>3. copy => m - 1 = 0 /\ InFile(conf') /\ conf.rc = 0
    <3> SUFFICES ASSUME copy PROVE m - 1 = 0 /\ InFile(conf') /\ conf.rc = 0
      OBVIOUS
    <3>1. conf.rc = 0 /\ kind \in {"key", "pf"}
      BY <1>4 DEF Kinds
    <3>2. InFile(conf')
      BY <1>1, <3>1 DEF InFile
    <3> QED BY <1>0, <1>4, <1>6, <3>1, <3>2
  <2>4. CopiedIs(conf', more, FALSE)
    <3> SUFFICES ASSUME copy PROVE Same(Tidy(more, 0), <<>>, KeptUpTo(kind, more, m - 1))
      BY <1>1, <2>3, Zenon DEF CopiedIs, m
    <3>1. KeptUpTo(kind, more, 0) = <<>> /\ IsText(<<>>)
      BY KeptNone, Texts
    <3>2. Same(Tidy(more, 0), <<>>, KeptUpTo(kind, more, 0))
      BY <3>1, SameSelf
    <3> QED BY <2>3, <3>2
  <2>5. LinesAre(conf', more, FALSE)
    <3>1. m = Len(more) /\ conf.rc < m /\ conf.rc = m - 1
      BY <1>0, <1>4, <1>6 DEF m
    <3>2. Skipped(kind, more, conf.rc, m - 1)
      BY <1>0, <1>3, <1>4, <3>1
    <3> QED BY <1>0, <1>1, <1>2, <1>4, <2>2, <2>3, <2>4, <3>1, <3>2, StillReads
  <2>6. LinesAre(conf', more, ended')
    BY <1>0, <1>a, <1>6, <2>5
  <2> QED BY <1>n, <2>6 DEF more, RecordInv
<1> QED BY <1>5, <1>6

-----------------------------------------------------------------------------
(*                       The digits of bytes (hex.c)                       *)

LEMMA DigitsOf ==
    ASSUME NEW b, NEW B \in Nat \ {0}, b \in 0..B * B - 1
    PROVE  /\ b \div B \in 0..B - 1 /\ b % B \in 0..B - 1
           /\ B * (b \div B) + (b % B) = b
<1> DEFINE q == b \div B
           r == b % B
<1>0. b \in Nat /\ B * B \in Nat /\ b < B * B
  <2>1. B * B \in Nat
    OBVIOUS
  <2> DEFINE p == B * B
  <2> HIDE DEF p
  <2>2. b \in 0..p - 1 /\ p \in Nat
    BY <2>1 DEF p
  <2>3. b \in Nat /\ b < p
    BY <2>2
  <2> QED BY <2>1, <2>3 DEF p
<1>1. q \in Nat /\ r \in 0..B - 1 /\ b = B * q + r
  BY <1>0
<1>2. q < B
  <2>1. ASSUME q >= B PROVE FALSE
    <3> HIDE DEF q, r
    <3>1. B * q >= B * B
      BY <1>1, <2>1
    <3> DEFINE p == B * B
               s == B * q
    <3>2. s \in Nat
      BY <1>1
    <3>3. b < p /\ s >= p /\ b = s + r /\ p \in Nat
      BY <1>0, <1>1, <3>1
    <3> HIDE DEF p, s
    <3> QED BY <1>0, <1>1, <3>2, <3>3
  <2> HIDE DEF q
  <2> QED BY <1>1, <2>1
<1> HIDE DEF q, r
<1>3. q \in 0..B - 1
  BY <1>1, <1>2
<1>4. B * q + r = b
  BY <1>1
<1> QED BY <1>1, <1>3, <1>4 DEF q, r

LEMMA HexDigitsAre ==
    /\ Base \in Nat \ {0} /\ \A v \in 0..Base - 1 : HexDigits[v + 1] \in Hex
    /\ \A v \in 0..Base - 1 : Value(HexDigits[v + 1]) = v
<1>1. HexDigits # <<>> /\ HexDigits \in Seq(Hex) /\ IsInjective(HexDigits)
  BY CharsAssumption
<1>2. Base \in Nat \ {0} /\ DOMAIN HexDigits = 1..Base
  BY <1>1 DEF Base
<1>3. \A v \in 0..Base - 1 : HexDigits[v + 1] \in Hex
  BY <1>1, <1>2
<1>4. ASSUME NEW v \in 0..Base - 1 PROVE Value(HexDigits[v + 1]) = v
  <2>1. \A w \in 0..Base - 1 : HexDigits[w + 1] = HexDigits[v + 1] => w = v
    <3> TAKE w \in 0..Base - 1
    <3>1. v + 1 \in DOMAIN HexDigits /\ w + 1 \in DOMAIN HexDigits /\ (v + 1 = w + 1 => w = v)
      BY <1>2
    <3> QED BY <1>1, <3>1 DEF IsInjective
  <2> QED BY <2>1, Zenon DEF Value
<1> QED BY <1>2, <1>3, <1>4

(* Two digits a byte. *)
LEMMA EncodedIs ==
    ASSUME NEW bytes \in PassPhrases
    PROVE  LET hex == I2HexEncode(bytes)
               n == Len(bytes)
           IN
           /\ n \in Nat /\ bytes \in Seq(0..Base * Base - 1)
           /\ hex \in Seq(Hex) /\ Len(hex) = 2 * n
           /\ \A k \in 1..n : /\ hex[2 * k - 1] = HexDigits[(bytes[k] \div Base) + 1]
                              /\ hex[2 * k] = HexDigits[(bytes[k] % Base) + 1]
<1> DEFINE n == Len(bytes)
           hex == I2HexEncode(bytes)
<1>1. bytes \in Seq(0..Base * Base - 1)
  BY CharsAssumption, Zenon DEF Base
<1>2. n \in Nat /\ \A k \in 1..n : bytes[k] \in 0..Base * Base - 1
  <2> DEFINE S == 0..Base * Base - 1
  <2> HIDE DEF S
  <2>1. bytes \in Seq(S)
    BY <1>1 DEF S
  <2>2. n \in Nat /\ \A k \in 1..n : bytes[k] \in S
    BY <2>1
  <2> QED BY <2>2 DEF S
<1>3. hex = [k \in 1..2 * n |->
               HexDigits[(IF k % 2 = 1 THEN bytes[(k + 1) \div 2] \div Base
                                       ELSE bytes[(k + 1) \div 2] % Base) + 1]]
  BY Zenon DEF I2HexEncode
<1>4. \A k \in 1..n : /\ bytes[k] \div Base \in 0..Base - 1
                      /\ bytes[k] % Base \in 0..Base - 1
  BY <1>2, HexDigitsAre, DigitsOf
<1> HIDE DEF hex, n
<1>5. ASSUME NEW k \in 1..2 * n
      PROVE  hex[k] \in Hex
  <2>1. (k + 1) \div 2 \in 1..n
    BY <1>2
  <2> DEFINE b == bytes[(k + 1) \div 2]
  <2>2. b \div Base \in 0..Base - 1 /\ b % Base \in 0..Base - 1
    BY <1>4, <2>1, Zenon
  <2>3. hex[k] = HexDigits[(IF k % 2 = 1 THEN b \div Base ELSE b % Base) + 1]
    BY <1>3, Zenon
  <2> HIDE DEF b
  <2> DEFINE x == b \div Base
             y == b % Base
  <2>4. HexDigits[x + 1] \in Hex /\ HexDigits[y + 1] \in Hex
    BY <2>2, HexDigitsAre, Zenon
  <2> QED BY <2>3, <2>4, Zenon
<1>6. hex \in Seq(Hex) /\ Len(hex) = 2 * n
  <2>1. hex \in [1..2 * n -> Hex]
    BY <1>3, <1>5, Zenon
  <2> QED BY <1>2, <2>1
<1>7. ASSUME NEW k \in 1..n
      PROVE  /\ hex[2 * k - 1] = HexDigits[(bytes[k] \div Base) + 1]
             /\ hex[2 * k] = HexDigits[(bytes[k] % Base) + 1]
  <2> DEFINE i == 2 * k - 1
             j == 2 * k
  <2>1. /\ i \in 1..2 * n /\ i % 2 = 1 /\ (i + 1) \div 2 = k
        /\ j \in 1..2 * n /\ j % 2 # 1 /\ (j + 1) \div 2 = k
    BY <1>2
  <2> HIDE DEF i, j
  <2>2. hex[i] = HexDigits[(bytes[k] \div Base) + 1]
    BY <1>3, <2>1, Zenon
  <2>3. hex[j] = HexDigits[(bytes[k] % Base) + 1]
    BY <1>3, <2>1, Zenon
  <2> QED BY <2>2, <2>3, Zenon DEF i, j
<1> QED BY <1>1, <1>2, <1>6, <1>7 DEF hex, n

-----------------------------------------------------------------------------
(*                  The records are the lines of the file                  *)

LEMMA WrittenHasNoEOF ==
    ASSUME NEW id \in Identities, NEW bytes \in PassPhrases
    PROVE  HasNoEOF(Line(id, bytes))
<1> DEFINE T == Range(id) \cup Hex \cup {Space, Newline}
           hex == I2HexEncode(bytes)
<1>1. id \in Seq(Range(id)) /\ EOF \notin Range(id) /\ hex \in Seq(Hex)
  BY CharsAssumption, EncodedIs
<1>2. EOF \notin T
  BY <1>1, Distinct
<1>3. Line(id, bytes) \in Seq(T)
  <2>1. Hex \subseteq T /\ Range(id) \subseteq T /\ Space \in T /\ Newline \in T
    OBVIOUS
  <2> HIDE DEF T, hex
  <2>2. id \in Seq(T) /\ hex \in Seq(T) /\ <<Space>> \in Seq(T) /\ <<Newline>> \in Seq(T)
    BY <1>1, <2>1
  <2>3. id \o <<Space>> \o hex \o <<Newline>> \in Seq(T)
    BY <2>2
  <2> QED BY <2>3, Zenon DEF Line, hex
<1> HIDE DEF T
<1> QED BY <1>2, <1>3 DEF HasNoEOF

LEMMA WriteLineKeeps == ASSUME ConfTypes, RecordInv, WriteLine PROVE RecordInv'
<1>1. PICK id \in Identities, bytes \in PassPhrases :
        ahead' = [is |-> TRUE, text |-> Line(id, bytes), id |-> id, bytes |-> bytes]
  BY DEF WriteLine
<1>2. conf = Idle /\ conf' = conf /\ text' = text /\ ended' = ended
  BY DEF WriteLine
<1>3. ~ended
  BY <1>2 DEF RecordInv, LinesAre, RowsCounted, Idle
<1>4. Rows(text') = Rows(text)
  BY <1>2, Zenon
<1>5. LinesAre(conf', Rows(text'), ended')
  BY <1>2, <1>4, Zenon DEF RecordInv
<1>6. NothingAhead'
  <2>1. HasNoEOF(ahead'.text)
    BY <1>1, WrittenHasNoEOF
  <2> QED BY <1>2, <1>3, <2>1 DEF NothingAhead
<1> QED BY <1>5, <1>6, Zenon DEF RecordInv

LEMMA RecordStep == ConfTypes /\ RecordInv /\ [ConfNext]_confVars => RecordInv'
<1> SUFFICES ASSUME ConfTypes, RecordInv, [ConfNext]_confVars PROVE RecordInv'
  OBVIOUS
<1>1. CASE ReadStep
  BY <1>1, EndLineKeeps, StartCommentKeeps, InCommentKeeps, LeadingSpaceKeeps, IndentedKeeps,
     CopyCharKeeps, OutOfLineMemoryKeeps, StartEscapeKeeps, ContinuationKeeps, BadEscapeKeeps,
     EndFileKeeps DEF ReadStep
<1>2. ASSUME UNCHANGED <<conf, text, ahead, ended>> PROVE RecordInv'
  <2>1. Rows(text') = Rows(text) /\ conf' = conf /\ ended' = ended
    BY <1>2, Zenon
  <2>2. LinesAre(conf', Rows(text'), ended')
    BY <2>1, Zenon DEF RecordInv
  <2>3. NothingAhead'
    BY <1>2 DEF RecordInv, NothingAhead
  <2> QED BY <2>2, <2>3, Zenon DEF RecordInv
<1>3. CASE StrTo \/ UNCHANGED confVars
  BY <1>2, <1>3 DEF StrTo, confVars
<1> QED BY <1>1, <1>3, CallParserKeeps, ParsesKeep, WriteLineKeeps DEF ConfNext

LEMMA RecordInit == ConfInit => RecordInv
<1> SUFFICES ASSUME ConfInit PROVE RecordInv
  OBVIOUS
<1> DEFINE rows == Rows(text)
<1>1. conf = Idle /\ text = <<>> /\ ahead = NotWritten /\ ended = FALSE
  BY DEF ConfInit
<1>2. Len(rows) = 1 /\ rows[1] = <<>>
  <2>1. rows = Rows(<<>>)
    BY <1>1, Zenon
  <2> QED BY <2>1, RowsOfNothing
<1> HIDE DEF rows
<1>3. conf.at = "idle" /\ ~conf.copy /\ ~conf.oom /\ conf.kind = "none"
  BY <1>1 DEF Idle
<1>4. ~Reads(conf) /\ ~HasLine(conf)
  BY <1>3 DEF Reads, HasLine
<1>5. LinesAre(conf, rows, ended)
  BY <1>1, <1>2, <1>3, <1>4
     DEF LinesAre, RowsCounted, Current, Gathered, Blanked, CopiedIs, AnswerIs
<1>6. NothingAhead
  BY <1>1 DEF NothingAhead, NotWritten
<1> QED BY <1>5, <1>6, Zenon DEF RecordInv, rows

-----------------------------------------------------------------------------
(*                     Why a call returns no record                        *)

Inset(row) == row # <<>> /\ row[1] = Space

LEMMA SpacedSame ==
    ASSUME NEW rows, NEW more, NEW from \in Nat, NEW n \in Nat,
           \A k \in 1..n : k # n => more[k] = rows[k], Inset(more[n]) <=> Inset(rows[n])
    PROVE  Spaced(more, from, n) <=> Spaced(rows, from, n)
<1>1. ASSUME NEW i \in from + 1..n PROVE Inset(more[i]) <=> Inset(rows[i])
  <2>1. i \in 1..n
    OBVIOUS
  <2> QED BY <2>1
<1>2. ASSUME NEW i \in from + 1..n, NEW k \in i..n - 1 PROVE IsComment(more[k]) <=> IsComment(rows[k])
  <2>1. k \in 1..n /\ k # n
    OBVIOUS
  <2>2. more[k] = rows[k]
    BY <2>1
  <2> QED BY <2>2
<1>3. ASSUME NEW r
      PROVE  Spaced(r, from, n) <=> \E i \in from + 1..n :
               Inset(r[i]) /\ \A k \in i..n - 1 : IsComment(r[k])
  BY Zenon DEF Spaced, Inset
<1> QED BY <1>1, <1>2, <1>3, Zenon

LEMMA SpacedNext ==
    ASSUME NEW rows, NEW more, NEW from \in Nat, NEW n \in Nat,
           \A k \in 1..n : more[k] = rows[k], more[n + 1] = <<>>
    PROVE  /\ Spaced(more, from, n) <=> Spaced(rows, from, n)
           /\ Spaced(more, from, n + 1) <=> IsComment(rows[n]) /\ Spaced(rows, from, n)
<1>1. Spaced(more, from, n) <=> Spaced(rows, from, n)
  <2>1. CASE n = 0
    BY <2>1 DEF Spaced
  <2>2. CASE n # 0
    <3>1. more[n] = rows[n]
      BY <2>2
    <3> QED BY <3>1, SpacedSame
  <2> QED BY <2>1, <2>2
<1>2. ASSUME NEW i \in from + 1..n + 1, i # n + 1 PROVE i \in from + 1..n
  BY <1>2
<1>3. ASSUME Spaced(more, from, n + 1) PROVE IsComment(rows[n]) /\ Spaced(rows, from, n)
  <2>1. PICK i \in from + 1..n + 1 : /\ Inset(more[i])
                                     /\ \A k \in i..(n + 1) - 1 : IsComment(more[k])
    BY <1>3, Zenon DEF Spaced, Inset
  <2>2. i \in from + 1..n
    BY <1>2, <2>1 DEF Inset
  <2>3. n \in i..(n + 1) - 1 /\ more[n] = rows[n] /\ \A k \in i..n - 1 : k \in i..(n + 1) - 1
    BY <2>2
  <2>4. IsComment(more[n]) /\ \A k \in i..n - 1 : IsComment(more[k])
    BY <2>1, <2>3
  <2>5. Spaced(more, from, n)
    BY <2>1, <2>2, <2>4, Zenon DEF Spaced, Inset
  <2> QED BY <1>1, <2>3, <2>4, <2>5
<1>4. ASSUME IsComment(rows[n]), Spaced(rows, from, n) PROVE Spaced(more, from, n + 1)
  <2>1. PICK i \in from + 1..n : Inset(more[i]) /\ \A k \in i..n - 1 : IsComment(more[k])
    BY <1>1, <1>4, Zenon DEF Spaced, Inset
  <2>2. i \in from + 1..n + 1 /\ n \in 1..n
    OBVIOUS
  <2>3. ASSUME NEW k \in i..(n + 1) - 1 PROVE IsComment(more[k])
    <3>1. k = n \/ k \in i..n - 1
      OBVIOUS
    <3>2. IsComment(more[n])
      BY <1>4, <2>2
    <3> QED BY <2>1, <3>1, <3>2
  <2> QED BY <2>1, <2>2, <2>3, Zenon DEF Spaced, Inset
<1> QED BY <1>1, <1>3, <1>4

(* A character that is not the first of its row does not change it. *)
LEMMA SpacedAdds ==
    ASSUME NEW rows, NEW more, NEW c \in ConfChar, c # Newline, GrownBy(rows, more, c),
           NEW from \in Nat, rows[Len(rows)] # <<>> \/ c # Space
    PROVE  Spaced(more, from, Len(rows)) <=> Spaced(rows, from, Len(rows))
<1> DEFINE n == Len(rows)
           row == rows[n]
<1>1. /\ n \in Nat /\ IsText(row) /\ more[n] = Add(row, c)
      /\ \A k \in 1..n : k # n => more[k] = rows[k]
  BY GrownRows
<1>2. Inset(more[n]) <=> Inset(row)
  <2>1. CASE row = <<>>
    <3>1. Len(row) = 0 /\ Add(row, c)[Len(row) + 1] = c
      BY <1>1, <2>1, Texts
    <3>2. more[n][1] = c
      BY <1>1, <3>1
    <3> QED BY <2>1, <3>2 DEF Inset
  <2>2. CASE row # <<>>
    <3>1. Len(row) \in Nat /\ Len(row) # 0
      BY <1>1, <2>2, Texts
    <3>2. 1 \in 1..Len(row)
      BY <3>1
    <3>3. Add(row, c)[1] = row[1] /\ Add(row, c) # <<>>
      BY <1>1, <3>2, Texts
    <3> QED BY <1>1, <2>2, <3>3 DEF Inset
  <2> QED BY <2>1, <2>2
<1> HIDE DEF n, row
<1>3. Spaced(more, from, n) <=> Spaced(rows, from, n)
  BY <1>1, <1>2, SpacedSame DEF row
<1> QED BY <1>3 DEF n

(* The blanks that are counted, and what a row with a record did not have. *)
Counts(c, rows, e) ==
    /\ c.ns > 0 => InFile(c)
    /\ InFile(c) /\ Reads(c) /\ c.line = <<>> /\ ~e =>
         (c.ns > 0 <=> Spaced(rows, c.row, Len(rows)))
    /\ InFile(c) /\ (Reads(c) \/ HasLine(c)) /\ c.line # <<>> =>
         ~Spaced(rows, c.row, LastRow(c, rows))

EscapesIn(row, e) ==
    \/ Len(row) > 1 /\ row[Len(row) - 1] = Backslash
    \/ e /\ row # <<>> /\ Last(row) = Backslash
GotStuck(c, rows, e) ==
    /\ c.rc = 1 - Len(rows)
    /\ InFile(c) => /\ Len(rows) \in c.row + 1..Len(rows) /\ Holds(c.kind, rows, Len(rows))
                    /\ c.copy \/ Skipped(c.kind, rows, c.row, Len(rows) - 1)
                    /\ Spaced(rows, c.row, Len(rows))
    /\ ~InFile(c) => EscapesIn(rows[Len(rows)], e)
Misformed(c, rows) ==
    \E n \in 1..Len(rows) :
      /\ c.rc = -n /\ Started(c.kind, rows, c.row, c.line, n) /\ ~WellFormed(c.kind, c.line)
      /\ n < Len(rows) => ~IsContinued(c.kind, rows[n])
NotCopied(c, rows) ==
    \E n \in c.row + 1..Len(rows) :
      c.rc = -n /\ Holds(c.kind, rows, n) /\ ~CanBeCopied(c.kind, rows[n])
Reasons(c, rows, e) ==
    c.at = "returned" /\ ~c.oom =>
      /\ c.rc > 0 => WellFormed(c.kind, c.line)
      /\ c.rc <= 0 =>
           \/ c.rc = 0 /\ e /\ (c.copy \/ Skipped(c.kind, rows, c.row, Len(rows)))
           \/ GotStuck(c, rows, e)
           \/ ~c.copy /\ Misformed(c, rows)
           \/ c.copy /\ NotCopied(c, rows)

ReasonInv == Counts(conf, Rows(text), ended) /\ Reasons(conf, Rows(text), ended)

(* A call that goes on gives no reason yet. *)
LEMMA NoReason ==
    ASSUME NEW d, NEW rows, NEW e, d.at # "returned" \/ d.oom
    PROVE  Reasons(d, rows, e)
BY DEF Reasons

(* A step that reads a character of a row. *)
LEMMA RowCounts ==
    ASSUME ConfTypes, RecordInv, ReasonInv, Reads(conf), NEW c \in ConfChar, c # Newline, Getc(c),
           NEW place \in {"reading", "comment"}, NEW line, NEW tofp,
           Became(place, conf.rc, line, conf.ns, tofp, conf.result, conf.oom),
           InFile(conf) /\ line # <<>> /\ conf.line = <<>> => conf.ns = 0,
           line = <<>> => conf.line = <<>>,
           c = Space => Rows(text)[Len(Rows(text))] # <<>>
    PROVE  ReasonInv'
<1> DEFINE rows == Rows(text)
           more == Rows(text')
           n == Len(rows)
           from == conf.row
<1>1. /\ GrownBy(rows, more, c) /\ ended = FALSE /\ ended' = FALSE /\ from \in Nat
      /\ Len(more) = n /\ n \in Nat \ {0} /\ conf.ns \in Nat
  BY ReadsOn
<1>2. Spaced(more, from, n) <=> Spaced(rows, from, n)
  BY <1>1, SpacedAdds
<1> HIDE DEF rows, more, n
<1>3. /\ conf'.kind = conf.kind /\ conf'.at = place /\ conf'.row = from
      /\ conf'.line = line /\ conf'.ns = conf.ns
  BY DEF Became
<1>4. Reads(conf') /\ (InFile(conf') <=> InFile(conf)) /\ conf'.at # "returned"
  BY <1>3 DEF Reads, InFile
<1>5. LastRow(conf, rows) = n /\ LastRow(conf', more) = n
  BY <1>1, <1>4 DEF LastRow, n
<1>6. /\ conf.ns > 0 => InFile(conf)
      /\ InFile(conf) /\ conf.line = <<>> => (conf.ns > 0 <=> Spaced(rows, from, n))
      /\ InFile(conf) /\ conf.line # <<>> => ~Spaced(rows, from, n)
  BY <1>1, <1>5 DEF ReasonInv, Counts, rows, n
<1>7. ~(0 > 0)
  OBVIOUS
<1>8. Counts(conf', more, ended')
  BY <1>1, <1>2, <1>3, <1>4, <1>5, <1>6, <1>7, Zenon DEF Counts
<1>9. Reasons(conf', more, ended')
  BY <1>4, NoReason
<1> QED BY <1>8, <1>9 DEF ReasonInv, more

LEMMA EndLineReasons == ASSUME ConfTypes, RecordInv, ReasonInv, EndLine PROVE ReasonInv'
<1> DEFINE rows == Rows(text)
           more == Rows(text')
           n == Len(rows)
           from == conf.row
<1>0. Reads(conf) /\ Getc(Newline) /\ Newline \in ConfChar /\ conf.at = "reading"
  BY Distinct DEF EndLine, Reads
<1>1. /\ GrownBy(rows, more, Newline) /\ ended = FALSE /\ ended' = FALSE /\ ConfIsRecord
      /\ LinesAre(conf, rows, FALSE) /\ conf.rc = n - 1 /\ from \in Nat /\ n \in Nat \ {0}
      /\ Len(more) = n + 1 /\ more[n] = rows[n] /\ more[n + 1] = <<>>
  BY <1>0, ReadsOn
<1>2. \A k \in 1..n : more[k] = rows[k]
  BY <1>1 DEF GrownBy
<1>3. /\ Spaced(more, from, n) <=> Spaced(rows, from, n)
      /\ Spaced(more, from, n + 1) => IsComment(rows[n])
  BY <1>1, <1>2, SpacedNext
<1>4. /\ conf.ns > 0 => InFile(conf)
      /\ InFile(conf) /\ conf.line # <<>> => ~Spaced(rows, from, n)
  <2>1. LastRow(conf, rows) = n
    BY <1>0 DEF LastRow
  <2> QED BY <1>0, <2>1 DEF ReasonInv, Counts
<1>5. conf.line = <<>> => ~IsComment(rows[n])
  BY <1>0, <1>1, CommentIs DEF LinesAre, Current
<1> HIDE DEF rows, more, n
<1>6. CASE conf.line # <<>>
  <2>1. Became("line", conf.rc + 1, conf.line, conf.ns, conf.tofp, conf.result, conf.oom)
    BY <1>1, <1>6 DEF EndLine, Became, ConfIsRecord
  <2>2. /\ conf'.kind = conf.kind /\ conf'.at = "line" /\ conf'.row = from /\ conf'.rc = n
        /\ conf'.line = conf.line /\ conf'.ns = conf.ns
    BY <1>1, <2>1 DEF Became
  <2>3. ~Reads(conf') /\ (InFile(conf') <=> InFile(conf))
    BY <2>2 DEF Reads, InFile
  <2>4. LastRow(conf', more) = n
    BY <2>2, <2>3 DEF LastRow
  <2>5. Counts(conf', more, ended')
    BY <1>3, <1>4, <1>6, <2>2, <2>3, <2>4, Zenon DEF Counts
  <2>6. Reasons(conf', more, ended')
    BY <2>2, NoReason
  <2> QED BY <2>5, <2>6 DEF ReasonInv, more
<1>7. CASE conf.line = <<>>
  <2> DEFINE tofp == Copied(<<Newline>>)
  <2>1. Became("reading", conf.rc + 1, conf.line, 0, tofp, conf.result, conf.oom)
    <3>1. conf' = [conf EXCEPT !.rc = @ + 1, !.ns = 0, !.tofp = tofp]
      BY <1>7 DEF EndLine
    <3> HIDE DEF tofp
    <3> QED BY <1>0, <1>1, <3>1 DEF Became, ConfIsRecord
  <2> HIDE DEF tofp
  <2>2. /\ conf'.kind = conf.kind /\ conf'.at = "reading" /\ conf'.row = from
        /\ conf'.line = <<>> /\ conf'.ns = 0
    BY <1>7, <2>1 DEF Became
  <2>3. ~Spaced(more, from, Len(more))
    BY <1>1, <1>3, <1>5, <1>7
  <2>4. Counts(conf', more, ended') /\ Reasons(conf', more, ended')
    BY <2>2, <2>3, NoReason DEF Counts
  <2> QED BY <2>4 DEF ReasonInv, more
<1> QED BY <1>6, <1>7

LEMMA LeadingSpaceReasons == ASSUME ConfTypes, RecordInv, ReasonInv, LeadingSpace PROVE ReasonInv'
<1> DEFINE rows == Rows(text)
           more == Rows(text')
           n == Len(rows)
           from == conf.row
           ns == IF Records THEN conf.ns + 1 ELSE conf.ns
<1>0. /\ Reads(conf) /\ conf.at = "reading" /\ conf.line = <<>> /\ Getc(Space)
      /\ Space \in ConfChar /\ Space # Newline
  BY Distinct DEF LeadingSpace, Reads
<1>1. /\ GrownBy(rows, more, Space) /\ ConfIsRecord /\ ended = FALSE
      /\ LinesAre(conf, rows, FALSE) /\ from \in Nat /\ from < n /\ n \in Nat \ {0}
      /\ conf.ns \in Nat /\ Len(more) = n /\ more[n] = Add(rows[n], Space) /\ IsText(rows[n])
      /\ IsText(more[n])
  <2>1. IsText(Add(Rows(text)[Len(Rows(text))], Space))
    BY <1>0, ReadsOn, Texts
  <2> QED BY <1>0, <2>1, ReadsOn
<1>2. Spaced(more, from, n)
  <2>1. ~HasInk(rows[n])
    BY <1>0, <1>1 DEF LinesAre, Current
  <2>2. ~HasInk(more[n]) /\ more[n] # <<>>
    BY <1>0, <1>1, <2>1, TrimGrows, Texts
  <2>3. Len(more[n]) \in Nat \ {0} /\ more[n] \in Seq(ConfChar)
    BY <1>1, <2>2, Texts DEF IsText
  <2>4. Inset(more[n])
    BY <2>2, <2>3 DEF HasInk, Ink, Inset
  <2> HIDE DEF rows, more, n
  <2>5. n \in from + 1..n /\ \A k \in n..n - 1 : IsComment(more[k])
    BY <1>1
  <2> QED BY <2>4, <2>5, Zenon DEF Spaced, Inset
<1> HIDE DEF rows, more, n
<1>3. Became(conf.at, conf.rc, conf.line, ns, conf.tofp, conf.result, conf.oom)
  <2>1. conf' = [conf EXCEPT !.ns = ns]
    BY DEF LeadingSpace
  <2> HIDE DEF ns
  <2> QED BY <1>1, <2>1 DEF Became, ConfIsRecord
<1>4. /\ conf'.kind = conf.kind /\ conf'.at = "reading" /\ conf'.row = from
      /\ conf'.line = <<>> /\ conf'.ns = ns
  <2> HIDE DEF ns
  <2> QED BY <1>0, <1>3 DEF Became
<1>5. (conf.ns > 0 => InFile(conf)) /\ (InFile(conf) => ns > 0) /\ (~InFile(conf) => ns = conf.ns)
  BY <1>1 DEF ReasonInv, Counts, InFile, Records
<1> HIDE DEF ns
<1>6. InFile(conf') <=> InFile(conf)
  BY <1>4 DEF InFile
<1>7. Counts(conf', more, ended') /\ Reasons(conf', more, ended')
  BY <1>1, <1>2, <1>4, <1>5, <1>6, NoReason DEF Counts
<1> QED BY <1>7 DEF ReasonInv, more

(* A configuration file has no blanks that count. *)
LEMMA OtherReasons ==
    ASSUME ConfTypes, RecordInv, ReasonInv, ~InFile(conf), conf'.kind = conf.kind,
           conf'.ns = conf.ns, conf'.at # "returned"
    PROVE  ReasonInv'
<1>1. ~InFile(conf') /\ ~(conf.ns > 0)
  BY DEF InFile, ReasonInv, Counts
<1>2. Counts(conf', Rows(text'), ended')
  BY <1>1 DEF Counts
<1>3. Reasons(conf', Rows(text'), ended')
  BY NoReason
<1> QED BY <1>2, <1>3 DEF ReasonInv

LEMMA ReadingReasons ==
    ASSUME ConfTypes, RecordInv, ReasonInv,
           StartComment \/ InComment \/ CopyChar \/ StartEscape \/ Continuation
    PROVE  ReasonInv'
<1> DEFINE rows == Rows(text)
           more == Rows(text')
           n == Len(rows)
           from == conf.row
<1>0. ConfIsRecord /\ conf.line \in Seq(LineChar) /\ LinesAre(conf, rows, ended)
      /\ ended \in BOOLEAN
  BY DEF ConfTypes, CallTypes, FileTypes, RecordInv
<1>c. ended => conf.at \notin {"comment", "escape"}
  BY <1>0 DEF LinesAre, RowsCounted, Reads
<1>1. CASE StartComment
  <2> DEFINE tofp == Copied([k \in 1..conf.ns |-> Space] \o <<Comment>>)
  <2>1. /\ Reads(conf) /\ Getc(Comment) /\ Comment \in ConfChar /\ Comment # Newline
        /\ Comment # Space /\ conf.line = <<>>
    BY <1>1, Distinct DEF StartComment, Reads
  <2>2. Became("comment", conf.rc, conf.line, conf.ns, tofp, conf.result, conf.oom)
    <3>1. conf' = [conf EXCEPT !.at = "comment", !.tofp = tofp]
      BY <1>1 DEF StartComment
    <3> HIDE DEF tofp
    <3> QED BY <1>0, <3>1 DEF Became, ConfIsRecord
  <2> HIDE DEF tofp
  <2> QED BY <2>1, <2>2, RowCounts
<1>2. CASE InComment
  <2>1. PICK c \in CharsOf(conf.kind) :
          /\ Getc(c)
          /\ conf' = [conf EXCEPT !.tofp = Copied(<<c>>),
                                  !.at = IF c = Newline THEN "reading" ELSE @,
                                  !.rc = IF c = Newline THEN @ + 1 ELSE @]
    BY <1>2, Zenon DEF InComment
  <2> DEFINE tofp == Copied(<<c>>)
  <2>2. c \in ConfChar /\ Reads(conf) /\ conf.at = "comment" /\ Getc(c) /\ Newline # Space
    BY <1>2, <2>1, Distinct DEF InComment, Reads
  <2>3. conf.line = <<>> /\ IsComment(rows[n])
    <3>1. ~ended
      BY <1>c, <2>2
    <3> QED BY <1>0, <2>2, <3>1 DEF LinesAre, Current
  <2>4. CASE c # Newline
    <3>1. Became("comment", conf.rc, conf.line, conf.ns, tofp, conf.result, conf.oom)
      <4>1. conf' = [conf EXCEPT !.tofp = tofp]
        BY <1>0, <2>1, <2>2, <2>4 DEF ConfIsRecord
      <4> HIDE DEF tofp
      <4> QED BY <1>0, <2>2, <4>1 DEF Became, ConfIsRecord
    <3>2. rows[n] # <<>>
      BY <2>3 DEF IsComment, Ink
    <3> HIDE DEF tofp
    <3> QED BY <2>2, <2>3, <2>4, <3>1, <3>2, RowCounts
  <2>5. CASE c = Newline
    <3>1. /\ GrownBy(rows, more, Newline) /\ ended = FALSE /\ ended' = FALSE /\ n \in Nat \ {0}
          /\ Len(more) = n + 1 /\ more[n + 1] = <<>> /\ from \in Nat
      BY <2>2, <2>5, ReadsOn
    <3>2. \A k \in 1..n : more[k] = rows[k]
      BY <3>1 DEF GrownBy
    <3>3. Spaced(more, from, n + 1) <=> Spaced(rows, from, n)
      BY <2>3, <3>1, <3>2, SpacedNext
    <3> HIDE DEF rows, more, n, tofp
    <3>4. /\ conf'.kind = conf.kind /\ conf'.at = "reading" /\ conf'.row = from
          /\ conf'.line = <<>> /\ conf'.ns = conf.ns
      BY <1>0, <2>1, <2>3, <2>5 DEF ConfIsRecord
    <3>5. Reads(conf') /\ (InFile(conf') <=> InFile(conf))
      BY <3>4 DEF Reads, InFile
    <3>6. /\ conf.ns > 0 => InFile(conf)
          /\ InFile(conf) => (conf.ns > 0 <=> Spaced(rows, from, n))
      BY <2>2, <2>3, <3>1 DEF ReasonInv, Counts, rows, n
    <3>7. Counts(conf', more, ended')
      BY <3>1, <3>3, <3>4, <3>5, <3>6 DEF Counts
    <3>8. Reasons(conf', more, ended')
      BY <3>4, NoReason
    <3> QED BY <3>7, <3>8 DEF ReasonInv, more
  <2> QED BY <2>4, <2>5
<1>3. CASE CopyChar
  <2>1. PICK c \in CharsOf(conf.kind) \cup Hex :
          Plain(c) /\ Getc(c) /\ conf' = [conf EXCEPT !.line = Append(@, c)]
    BY <1>3 DEF CopyChar
  <2> DEFINE line == Append(conf.line, c)
  <2>2. /\ c \in ConfChar /\ c # Newline /\ Reads(conf) /\ conf.at = "reading" /\ conf.ns = 0
        /\ conf.line = <<>> => c # Space
    BY <1>3, <2>1, Distinct DEF CopyChar, Plain, Reads
  <2>3. line # <<>>
    BY <1>0
  <2>4. Became("reading", conf.rc, line, conf.ns, conf.tofp, conf.result, conf.oom)
    <3>1. conf' = [conf EXCEPT !.line = line]
      BY <2>1
    <3> HIDE DEF line
    <3> QED BY <1>0, <2>2, <3>1 DEF Became, ConfIsRecord
  <2> HIDE DEF line
  <2>5. CASE InFile(conf)
    <3>1. c = Space => rows[n] # <<>>
      <4> SUFFICES ASSUME c = Space PROVE rows[n] # <<>>
        OBVIOUS
      <4>1. conf.line # <<>> /\ conf.line = rows[n]
        BY <2>1, <2>2, <2>5, ReadsOn
      <4> QED BY <4>1
    <3> QED BY <2>1, <2>2, <2>3, <2>4, <3>1, RowCounts
  <2>6. CASE ~InFile(conf)
    <3>1. conf'.kind = conf.kind /\ conf'.ns = conf.ns /\ conf'.at # "returned"
      BY <2>4 DEF Became
    <3> QED BY <2>6, <3>1, OtherReasons
  <2> QED BY <2>5, <2>6
<1>4. CASE StartEscape \/ Continuation
  <2>1. /\ conf'.kind = conf.kind /\ conf'.ns = conf.ns /\ conf'.at # "returned"
        /\ StartEscape => conf.kind = "conf"
        /\ Continuation => conf.at = "escape"
    BY <1>0, <1>4 DEF StartEscape, Continuation, ConfIsRecord
  <2>2. conf.at = "escape" => conf.kind = "conf"
    BY <1>0, <1>c DEF LinesAre, Current
  <2>3. ~InFile(conf)
    BY <1>4, <2>1, <2>2 DEF InFile
  <2> QED BY <2>1, <2>3, OtherReasons
<1> QED BY <1>1, <1>2, <1>3, <1>4

LEMMA IndentedReasons == ASSUME ConfTypes, RecordInv, ReasonInv, Indented PROVE ReasonInv'
<1> DEFINE rows == Rows(text)
           more == Rows(text')
           n == Len(rows)
           from == conf.row
           kind == conf.kind
<1>a. PICK c \in CharsOf(kind) : Plain(c) /\ Getc(c)
  BY DEF Indented
<1>0. /\ Reads(conf) /\ conf.at = "reading" /\ conf.ns > 0 /\ InFile(conf) /\ Getc(c)
      /\ c \in ConfChar /\ c # Newline
  BY <1>a, Distinct DEF Indented, Reads, Plain, ReasonInv, Counts
<1>1. /\ GrownBy(rows, more, c) /\ ended = FALSE /\ ConfIsRecord /\ LinesAre(conf, rows, FALSE)
      /\ conf.rc = n - 1 /\ from < n /\ from \in Nat /\ n \in Nat \ {0} /\ conf.ns \in Nat
      /\ conf.line = <<>> /\ ~conf.copy => Skipped(kind, rows, from, n - 1)
      /\ AreRows(more) /\ IsText(rows[n]) /\ Len(more) = n /\ more[n] = Add(rows[n], c)
  BY <1>0, ReadsOn
<1>2. conf.line = <<>>
  BY <1>0, <1>1 DEF LinesAre, Blanked
<1>3. c # Space /\ c # Comment /\ ~HasInk(rows[n])
  BY <1>a, <1>0, <1>1, <1>2 DEF Plain, LinesAre, Current
<1>4. Spaced(more, from, n)
  <2>1. Spaced(rows, from, n)
    BY <1>0, <1>1, <1>2 DEF ReasonInv, Counts
  <2> QED BY <1>0, <1>1, <1>3, <2>1, SpacedAdds
<1>5. Holds(kind, more, n)
  <2>1. HasInk(more[n]) /\ FirstInk(more[n]) = c
    BY <1>0, <1>1, <1>3, TrimGrows
  <2> QED BY <1>1, <1>3, <2>1, LastHolds
<1>6. ~conf.copy => Skipped(kind, more, from, n - 1)
  <2>1. n - 1 \in Int /\ n - 1 < Len(rows)
    BY <1>1
  <2> QED BY <1>1, <1>2, <2>1, SkippedGrows
<1> HIDE DEF rows, more, n
<1>7. Became("returned", -conf.rc, conf.line, conf.ns, conf.tofp, conf.result, conf.oom)
  BY <1>1 DEF Indented, ReturnRow, Became, ConfIsRecord
<1>8. /\ conf'.kind = kind /\ conf'.copy = conf.copy /\ conf'.at = "returned" /\ conf'.row = from
      /\ conf'.rc = 1 - n /\ conf'.line = <<>> /\ conf'.ns = conf.ns
  BY <1>1, <1>2, <1>7 DEF Became
<1>9. InFile(conf')
  BY <1>0, <1>8 DEF InFile
<1>10. GotStuck(conf', more, ended')
  <2>1. n \in from + 1..n
    BY <1>1
  <2> QED BY <1>1, <1>4, <1>5, <1>6, <1>8, <1>9, <2>1 DEF GotStuck
<1>11. Reasons(conf', more, ended')
  <2>1. ~(conf'.rc > 0)
    BY <1>1, <1>8
  <2> QED BY <1>10, <2>1, Zenon DEF Reasons
<1>12. Counts(conf', more, ended')
  BY <1>8, <1>9 DEF Counts, Reads
<1> QED BY <1>11, <1>12 DEF ReasonInv, more

LEMMA BadEscapeReasons == ASSUME ConfTypes, RecordInv, ReasonInv, BadEscape PROVE ReasonInv'
<1> DEFINE rows == Rows(text)
           more == Rows(text')
           n == Len(rows)
           row == rows[n]
<1>a. PICK c \in CharsOf("conf") \cup {EOF} : c # Newline /\ Getc(c)
  BY DEF BadEscape
<1>0. /\ Reads(conf) /\ conf.at = "escape" /\ (c \in ConfChar \/ c = EOF)
      /\ ended = FALSE /\ ConfIsRecord
  <2>1. Reads(conf) /\ conf.at = "escape" /\ (c \in ConfChar \/ c = EOF)
    BY <1>a, Distinct DEF BadEscape, Reads
  <2>2. ConfIsRecord /\ ended \in BOOLEAN /\ RowsCounted(conf, rows, ended)
    BY DEF ConfTypes, CallTypes, FileTypes, RecordInv, LinesAre
  <2>3. ~ended
    BY <2>1, <2>2 DEF RowsCounted
  <2> QED BY <2>1, <2>2, <2>3
<1>1. /\ LinesAre(conf, rows, FALSE) /\ conf.rc = n - 1 /\ n \in Nat \ {0} /\ IsText(row)
      /\ InFile(conf) => conf.kind # "conf"
  BY <1>0, AtReading
<1>2. conf.kind = "conf" /\ IsContinued(conf.kind, row) /\ ~InFile(conf)
  BY <1>0, <1>1 DEF LinesAre, Current
<1>3. row # <<>> /\ row[Len(row)] = Backslash /\ Len(row) \in Nat /\ Len(row) # 0
  BY <1>1, <1>2, Texts DEF IsContinued, Last
<1>4. Len(more) = n /\ EscapesIn(more[n], ended')
  <2>1. CASE c = EOF
    <3>1. more = rows /\ ended'
      BY <1>a, <2>1, NoMoreCharacters DEF RecordInv
    <3>2. EscapesIn(row, ended')
      BY <1>3, <3>1 DEF EscapesIn, Last
    <3>3. more[n] = row /\ Len(more) = n
      BY <3>1
    <3> QED BY <3>2, <3>3
  <2>2. CASE c \in ConfChar
    <3>1. Len(more) = n /\ more[n] = Add(row, c)
      BY <1>0, <1>a, <2>2, ReadsOn
    <3>2. /\ Len(Add(row, c)) = Len(row) + 1 /\ Len(row) \in 1..Len(row)
      BY <1>1, <1>3, <2>2, Texts
    <3>3. Add(row, c)[Len(row)] = Backslash
      BY <1>1, <1>3, <2>2, <3>2, Texts
    <3> HIDE DEF row
    <3>4. Len(Add(row, c)) > 1 /\ Len(Add(row, c)) - 1 = Len(row)
      BY <1>3, <3>2
    <3>5. EscapesIn(Add(row, c), ended')
      BY <3>3, <3>4, Zenon DEF EscapesIn
    <3> HIDE DEF more, n
    <3> QED BY <3>1, <3>5
  <2> QED BY <1>0, <2>1, <2>2
<1> HIDE DEF rows, more, n
<1>5. Became("returned", -conf.rc, conf.line, conf.ns, conf.tofp, conf.result, conf.oom)
  BY <1>0 DEF BadEscape, ReturnRow, Became, ConfIsRecord
<1>6. /\ conf'.kind = conf.kind /\ conf'.at = "returned" /\ conf'.rc = 1 - n
      /\ conf'.ns = conf.ns
  BY <1>1, <1>5 DEF Became
<1>7. ~InFile(conf')
  BY <1>2, <1>6 DEF InFile
<1>8. GotStuck(conf', more, ended')
  BY <1>4, <1>6, <1>7, Zenon DEF GotStuck
<1>9. Reasons(conf', more, ended')
  <2>1. ~(conf'.rc > 0)
    BY <1>1, <1>6
  <2> QED BY <1>8, <2>1, Zenon DEF Reasons
<1>10. Counts(conf', more, ended')
  BY <1>2, <1>6, <1>7 DEF Counts, ReasonInv
<1> QED BY <1>9, <1>10 DEF ReasonInv, more

LEMMA EndFileReasons == ASSUME ConfTypes, RecordInv, ReasonInv, EndFile PROVE ReasonInv'
<1> DEFINE rows == Rows(text)
           more == Rows(text')
           n == Len(rows)
           from == conf.row
           kind == conf.kind
<1>0. /\ Reads(conf) /\ conf.at \in {"reading", "comment"} /\ more = rows
      /\ ended' /\ ConfIsRecord /\ ended \in BOOLEAN
  <2>1. Reads(conf) /\ conf.at \in {"reading", "comment"} /\ Getc(EOF)
    BY DEF EndFile, Reads
  <2> QED BY <2>1, NoMoreCharacters DEF RecordInv, ConfTypes, CallTypes, FileTypes
<1>1. LinesAre(conf, rows, ended) /\ RecordInv' /\ AreRows(rows) /\ n \in Nat \ {0}
  <2>1. AreRows(rows) /\ RecordInv'
    BY RowsAre, EndFileKeeps DEF ConfTypes, FileTypes
  <2> QED BY <2>1, TextRows DEF RecordInv
<1>2. CASE conf.line = <<>>
  <2> HIDE DEF rows, more
  <2>1. Became("returned", 0, conf.line, conf.ns, conf.tofp, conf.result, conf.oom)
    BY <1>0, <1>2 DEF EndFile, ReturnRow, Became, ConfIsRecord
  <2>2. /\ conf'.kind = kind /\ conf'.copy = conf.copy /\ conf'.at = "returned"
        /\ conf'.row = from /\ conf'.rc = 0 /\ conf'.ns = conf.ns /\ conf'.line = <<>>
    BY <1>2, <2>1 DEF Became
  <2>3. ~conf.copy => Skipped(kind, rows, from, n)
    <3> SUFFICES ASSUME ~conf.copy PROVE Skipped(kind, rows, from, n)
      OBVIOUS
    <3>1. CASE ended
      <4>1. from = n
        BY <1>0, <1>1, <3>1 DEF LinesAre, RowsCounted, n
      <4>2. from + 1..n = {}
        BY <1>1, <4>1
      <4> QED BY <4>2 DEF Skipped
    <3>2. CASE ~ended
      <4>1. Skipped(kind, rows, from, n - 1) /\ from \in Nat
        BY <1>0, <1>2, <3>2, AtReading DEF rows
      <4>2. ~HasInk(rows[n]) \/ IsComment(rows[n])
        BY <1>0, <1>1, <1>2, <3>2 DEF LinesAre, Current
      <4>3. ~Holds(kind, rows, n)
        BY <4>2 DEF Holds, IsBlank, HasInk
      <4> QED BY <1>1, <4>1, <4>3, SkippedOne
    <3> QED BY <1>0, <3>1, <3>2
  <2>4. Reasons(conf', rows, ended')
    <3>1. ~(0 > 0)
      OBVIOUS
    <3> QED BY <1>0, <2>2, <2>3, <3>1, Zenon DEF Reasons
  <2>5. Counts(conf', rows, ended')
    BY <2>2 DEF Counts, ReasonInv, InFile, Reads
  <2> QED BY <1>0, <2>4, <2>5, Zenon DEF ReasonInv, more
<1>3. CASE conf.line # <<>>
  <2>1. ~ended
    BY <1>0, <1>1, <1>3 DEF LinesAre, RowsCounted
  <2>2. conf.rc = n - 1
    BY <1>0, <2>1, AtReading
  <2> HIDE DEF rows, more, n
  <2>3. Became("line", conf.rc + 1, conf.line, conf.ns, conf.tofp, conf.result, conf.oom)
    BY <1>0, <1>3 DEF EndFile, Became, ConfIsRecord
  <2>4. /\ conf'.kind = kind /\ conf'.at = "line" /\ conf'.row = from
        /\ conf'.rc = n /\ conf'.line = conf.line /\ conf'.ns = conf.ns
    BY <1>1, <2>2, <2>3 DEF Became
  <2>5. ~Reads(conf') /\ (InFile(conf') <=> InFile(conf))
    BY <2>4 DEF Reads, InFile
  <2>6. LastRow(conf, rows) = n /\ LastRow(conf', rows) = n
    BY <1>0, <2>4, <2>5 DEF LastRow, n
  <2>7. /\ conf.ns > 0 => InFile(conf)
        /\ InFile(conf) => ~Spaced(rows, from, n)
    BY <1>0, <1>3, <2>6 DEF ReasonInv, Counts, rows
  <2>8. Counts(conf', rows, ended')
    BY <2>4, <2>5, <2>6, <2>7, Zenon DEF Counts
  <2>9. Reasons(conf', rows, ended')
    BY <2>4, NoReason
  <2> QED BY <1>0, <2>8, <2>9, Zenon DEF ReasonInv, more
<1> QED BY <1>2, <1>3

LEMMA CallReasons == ASSUME ConfTypes, RecordInv, ReasonInv, CallParser PROVE ReasonInv'
<1> DEFINE more == Rows(text')
           m == Len(more)
<1>1. RecordInv' /\ AreRows(more)
  <2>1. text' \in Seq(ConfChar)
    <3>1. text' = <<>> \/ text' = text
      BY DEF CallParser
    <3>2. <<>> \in Seq(ConfChar)
      OBVIOUS
    <3> QED BY <3>1, <3>2 DEF ConfTypes, FileTypes
  <2> QED BY <2>1, CallParserKeeps, RowsAre
<1>2. PICK kind \in Kinds, copy \in BOOLEAN :
        conf' = [Idle EXCEPT !.kind = kind, !.copy = copy, !.at = "reading",
                             !.row = conf.rc, !.rc = conf.rc]
  BY Zenon DEF CallParser
<1>3. /\ conf'.at = "reading" /\ conf'.row = conf.rc /\ conf'.rc = conf.rc
      /\ conf'.line = <<>> /\ conf'.ns = 0
  BY <1>2 DEF Idle
<1>4. LinesAre(conf', more, ended') /\ conf.rc \in Int
  BY <1>1 DEF RecordInv, ConfTypes, CallTypes
<1>5. m \in Nat \ {0}
  BY <1>1, TextRows
<1>6. ~ended' => conf.rc = m - 1
  BY <1>3, <1>4 DEF LinesAre, RowsCounted, Reads
<1>7. Blanked(conf', more, ended')
  BY <1>4 DEF LinesAre
<1>8. ASSUME ~ended', InFile(conf') PROVE ~Spaced(more, conf.rc, m)
  <2>1. IsText(more[m])
    BY <1>1, <1>5, TextRows
  <2>2. 0 >= Len(more[m])
    BY <1>3, <1>7, <1>8 DEF Blanked, Reads
  <2>3. more[m] = <<>>
    BY <2>1, <2>2, Texts
  <2> HIDE DEF more, m
  <2>4. \A i \in conf.rc + 1..m : i = m
    BY <1>5, <1>6, <1>8
  <2> QED BY <2>3, <2>4 DEF Spaced
<1>9. Counts(conf', more, ended')
  BY <1>3, <1>8 DEF Counts
<1>10. Reasons(conf', more, ended')
  BY <1>3, NoReason
<1> QED BY <1>9, <1>10 DEF ReasonInv

-----------------------------------------------------------------------------
(*                    What is refused is not well-formed                   *)

LEMMA HasTokens ==
    ASSUME NEW line \in Seq(LineChar), line # <<>>, Head(line) # Space
    PROVE  Len(Tokens(line)) \in Nat \ {0}
<1> DEFINE starts == {k \in DOMAIN line : line[k] # Space /\ (k = 1 \/ line[k - 1] = Space)}
           size == Cardinality(starts)
           End(k) == Max({j \in k..Len(line) : \A i \in k..j : line[i] # Space})
<1>1. 1 \in starts
  BY DEF Range
<1>2. IsFiniteSet(starts)
  <2>1. starts \subseteq 1..Len(line) /\ Len(line) \in Nat
    OBVIOUS
  <2>2. IsFiniteSet(1..Len(line))
    BY <2>1, FS_Interval
  <2> HIDE DEF starts
  <2> QED BY <2>1, <2>2, FS_Subset
<1>3. size \in Nat /\ size # 0
  <2> HIDE DEF starts
  <2> QED BY <1>1, <1>2, FS_CardinalityType, FS_EmptySet
<1>4. Tokens(line) = [n \in 1..size |-> SubSeq(line, Nth(starts, n), End(Nth(starts, n)))]
  BY Zenon DEF Tokens
<1> HIDE DEF starts, size, End
<1>5. Len(Tokens(line)) = size
  BY <1>3, <1>4
<1> QED BY <1>3, <1>5

LEMMA Formed ==
    ASSUME NEW line \in Seq(LineChar), line # <<>>, Head(line) # Space
    PROVE  /\ WellFormed("conf", line) <=> VarOf(line) # <<>>
           /\ WellFormed("key", line) <=> KeyOf(line) # <<>>
           /\ WellFormed("pf", line) <=> PFOf(line) # <<>>
<1> DEFINE word == Tokens(line)
           remark(k) == k > Len(word) \/ ~Says(word[k])
           fits(k) == Len(word[k]) + 1 <= VarSize
           hex(k) == Range(word[k]) \subseteq Hex
<1>1. Len(word) \in Nat \ {0}
  BY HasTokens
<1>2. \A d : I2HexDecode(d) # <<>> <=> Range(d) \subseteq Hex
  BY DEF I2HexDecode
<1>3. /\ Len(word) > 1 <=> Len(word) >= 2
      /\ Len(word) = 1 <=> 2 > Len(word)
      /\ Len(word) > 2 <=> ~(3 > Len(word))
  <2> DEFINE size == Len(word)
  <2>1. size \in Nat \ {0}
    BY <1>1
  <2> HIDE DEF size
  <2>2. (size > 1 <=> size >= 2) /\ (size = 1 <=> 2 > size) /\ (size > 2 <=> ~(3 > size))
    BY <2>1
  <2> QED BY <2>2, Zenon DEF size
<1>4. \A a, b : <<a, b>> # <<>>
  OBVIOUS
<1>5. WellFormed("conf", line) <=> VarOf(line) # <<>>
  <2>1. WellFormed("conf", line) <=> fits(1) /\ (remark(2) \/ (fits(2) /\ remark(3)))
    BY DEF WellFormed
  <2>2. VarOf(line) = IF ~fits(1) THEN <<>>
                      ELSE IF Len(word) = 1 \/ ~Says(word[2]) THEN <<word[1], <<>>>>
                      ELSE IF fits(2) /\ (Len(word) > 2 => ~Says(word[3]))
                           THEN <<word[1], word[2]>> ELSE <<>>
    BY Zenon DEF VarOf
  <2> HIDE DEF word, fits
  <2> QED BY <1>3, <1>4, <2>1, <2>2
<1>6. WellFormed("key", line) <=> KeyOf(line) # <<>>
  <2>1. WellFormed("key", line) <=> /\ Len(word) >= 2 /\ Len(word[1]) <= MaxIdentity
                                    /\ hex(2) /\ Len(word[2]) = 2 * KeyLen /\ remark(3)
    BY DEF WellFormed
  <2>2. KeyOf(line) = IF /\ Len(word[1]) <= MaxIdentity
                         /\ Len(word) > 1 /\ Len(word[2]) = 2 * KeyLen
                         /\ Len(word) > 2 => ~Says(word[3])
                         /\ I2HexDecode(word[2]) # <<>>
                      THEN <<word[1], I2HexDecode(word[2])[1]>> ELSE <<>>
    BY Zenon DEF KeyOf
  <2> HIDE DEF word
  <2> QED BY <1>2, <1>3, <1>4, <2>1, <2>2, Zenon
<1>7. WellFormed("pf", line) <=> PFOf(line) # <<>>
  <2>1. WellFormed("pf", line) <=> Len(word) = 2 /\ hex(2) /\ Len(word[2]) % 2 = 0
    BY DEF WellFormed
  <2>2. PFOf(line) = IF Len(word) = 2 /\ Len(word[2]) % 2 = 0 /\ I2HexDecode(word[2]) # <<>>
                     THEN <<word[1], I2HexDecode(word[2])[1]>> ELSE <<>>
    BY Zenon DEF PFOf
  <2> HIDE DEF word
  <2> QED BY <1>2, <1>4, <2>1, <2>2, Zenon
<1> QED BY <1>5, <1>6, <1>7

(* What a call that has a line makes of it. *)
LEMMA LineReasons ==
    ASSUME ConfTypes, RecordInv, ReasonInv, conf.at = "line", Unread, NEW record,
           conf' = Result(record), record # <<>> <=> WellFormed(conf.kind, conf.line),
           conf.copy => record = <<>> /\ ~CanBeCopied(conf.kind, conf.line)
    PROVE  ReasonInv'
<1> DEFINE rows == Rows(text)
           n == Len(rows)
           from == conf.row
           kind == conf.kind
           rc == conf.rc
<1>1. /\ ConfIsRecord /\ AreRows(rows) /\ HasLine(conf) /\ from \in Nat /\ rc \in 1..n
      /\ rc \in Nat \ {0} /\ from < rc /\ ~conf.oom /\ n \in Nat
      /\ conf.copy => InFile(conf)
      /\ InFile(conf) => kind # "conf"
      /\ ~conf.copy => Started(kind, rows, from, conf.line, rc)
      /\ InFile(conf) => conf.line = rows[rc] /\ IsFirm(kind, rows[rc])
      /\ rc < n => ~IsContinued(kind, rows[rc])
  <2>1. HasLine(conf)
    BY DEF HasLine
  <2> QED BY <2>1, AtLine
<1>2. /\ conf.ns > 0 => InFile(conf)
      /\ InFile(conf) /\ conf.line # <<>> => ~Spaced(rows, from, rc)
  <2>1. LastRow(conf, rows) = rc
    BY DEF LastRow, Reads
  <2> QED BY <1>1, <2>1 DEF ReasonInv, Counts
<1>3. Rows(text') = rows /\ ended' = ended
  BY UnreadRows
<1> HIDE DEF rows, n
<1>4. CASE record # <<>>
  <2>1. Became("returned", rc, conf.line, conf.ns, conf.tofp, record, conf.oom)
    BY <1>1, <1>4 DEF Result, Became, ConfIsRecord
  <2>2. /\ conf'.kind = kind /\ conf'.at = "returned" /\ conf'.row = from /\ conf'.rc = rc
        /\ conf'.line = conf.line /\ conf'.ns = conf.ns
    BY <2>1 DEF Became
  <2>3. ~Reads(conf') /\ (InFile(conf') <=> InFile(conf)) /\ rc > 0 /\ ~(rc <= 0)
    BY <1>1, <2>2 DEF Reads, InFile
  <2>4. LastRow(conf', rows) = rc
    BY <2>2, <2>3 DEF LastRow
  <2>5. Counts(conf', rows, ended)
    BY <1>2, <2>2, <2>3, <2>4, Zenon DEF Counts
  <2>6. Reasons(conf', rows, ended)
    BY <1>4, <2>2, <2>3, Zenon DEF Reasons
  <2> QED BY <1>3, <2>5, <2>6, Zenon DEF ReasonInv
<1>5. CASE record = <<>>
  <2>1. Became("returned", -rc, conf.line, conf.ns, conf.tofp, conf.result, conf.oom)
    BY <1>1, <1>5 DEF Result, Became, ConfIsRecord
  <2>2. /\ conf'.kind = kind /\ conf'.copy = conf.copy /\ conf'.at = "returned"
        /\ conf'.row = from /\ conf'.rc = -rc /\ conf'.line = conf.line /\ conf'.ns = conf.ns
    BY <2>1 DEF Became
  <2>3. /\ ~Reads(conf') /\ (InFile(conf') <=> InFile(conf)) /\ ~(-rc > 0)
    BY <1>1, <2>2 DEF Reads, InFile
  <2>4. ~HasLine(conf')
    BY <2>2, <2>3 DEF HasLine
  <2>5. Counts(conf', rows, ended)
    BY <1>2, <2>2, <2>3, <2>4, Zenon DEF Counts
  <2>6. ~conf.copy => Misformed(conf', rows)
    <3> HIDE DEF rc
    <3> QED BY <1>1, <1>5, <2>2, Zenon DEF Misformed, n
  <2>7. conf.copy => NotCopied(conf', rows)
    <3> SUFFICES ASSUME conf.copy PROVE NotCopied(conf', rows)
      OBVIOUS
    <3>1. rc \in from + 1..n /\ conf.line = rows[rc]
      BY <1>1
    <3>2. Holds(kind, rows, rc)
      BY <1>1, HoldsIs DEF n
    <3> HIDE DEF rc
    <3> QED BY <2>2, <3>1, <3>2, Zenon DEF NotCopied, n
  <2>8. Reasons(conf', rows, ended)
    BY <2>2, <2>3, <2>6, <2>7, Zenon DEF Reasons
  <2> QED BY <1>3, <2>5, <2>8, Zenon DEF ReasonInv
<1> QED BY <1>4, <1>5

LEMMA CopyReasons ==
    ASSUME ConfTypes, RecordInv, ReasonInv, conf.at = "line", conf.copy, Unread, conf' = CopyLine
    PROVE  ReasonInv'
<1> DEFINE rows == Rows(text)
           n == Len(rows)
           rc == conf.rc
<1>1. /\ ConfIsRecord /\ conf.row = 0 /\ n \in Nat \ {0} /\ rc \in Nat \ {0}
      /\ ended \in BOOLEAN /\ (~ended => rc = n - 1 /\ rows[n] = <<>>)
      /\ InFile(conf) /\ IsFirm(conf.kind, rows[rc])
  <2>1. HasLine(conf)
    BY DEF HasLine
  <2> QED BY <2>1, AtLine
<1>2. ~IsComment(rows[rc])
  BY <1>1, CommentIs DEF IsFirm
<1> HIDE DEF rows, n
<1>3. /\ conf'.at = "reading" /\ conf'.row = 0 /\ conf'.line = <<>> /\ conf'.ns = 0
  BY <1>1 DEF CopyLine, ConfIsRecord
<1>4. ~ended => ~Spaced(rows, 0, n)
  <2> SUFFICES ASSUME ~ended, NEW i \in 0 + 1..n, rows[i] # <<>>,
                      \A k \in i..n - 1 : IsComment(rows[k])
               PROVE  FALSE
    BY Zenon DEF Spaced
  <2>1. i # n
    BY <1>1
  <2>2. rc \in i..n - 1
    BY <1>1, <2>1
  <2> QED BY <1>2, <2>2
<1>5. Counts(conf', rows, ended)
  BY <1>3, <1>4 DEF Counts, n
<1>6. Reasons(conf', rows, ended)
  BY <1>3, NoReason
<1>7. Rows(text') = rows /\ ended' = ended
  BY UnreadRows DEF rows
<1> QED BY <1>5, <1>6, <1>7, Zenon DEF ReasonInv

LEMMA ParseReasons ==
    ASSUME ConfTypes, RecordInv, ReasonInv, I2ReadConfVar \/ I2ParseKeyFile \/ I2ParsePFFile
    PROVE  ReasonInv'
<1>0. ConfIsRecord /\ conf.line \in Seq(LineChar) /\ (conf.line # <<>> => Head(conf.line) # Space)
  BY DEF ConfTypes, CallTypes
<1>1. conf.at = "line" /\ HasLine(conf) /\ Unread
  BY DEF I2ReadConfVar, I2ParseKeyFile, I2ParsePFFile, HasLine, Unread
<1>2. /\ conf.line # <<>> /\ (conf.copy => InFile(conf))
  BY <1>1, AtLine
<1>3. /\ WellFormed("conf", conf.line) <=> VarOf(conf.line) # <<>>
      /\ WellFormed("key", conf.line) <=> KeyOf(conf.line) # <<>>
      /\ WellFormed("pf", conf.line) <=> PFOf(conf.line) # <<>>
  BY <1>0, <1>2, Formed
<1>4. CASE I2ReadConfVar
  <2>1. conf' = Result(VarOf(conf.line)) /\ conf.kind = "conf" /\ ~conf.copy
    BY <1>2, <1>4 DEF I2ReadConfVar, InFile
  <2> QED BY <1>1, <1>3, <2>1, LineReasons
<1>5. CASE I2ParseKeyFile
  <2>1. /\ conf.kind = "key"
        /\ CanBeCopied("key", conf.line) <=> WellFormed("key", conf.line)
        /\ conf.copy /\ KeyOf(conf.line) # <<>> => conf' = CopyLine
        /\ ~(conf.copy /\ KeyOf(conf.line) # <<>>) => conf' = Result(KeyOf(conf.line))
    BY <1>5 DEF I2ParseKeyFile, CanBeCopied
  <2>2. CASE conf.copy /\ KeyOf(conf.line) # <<>>
    BY <1>1, <2>1, <2>2, CopyReasons
  <2>3. CASE ~(conf.copy /\ KeyOf(conf.line) # <<>>)
    BY <1>1, <1>3, <2>1, <2>3, LineReasons
  <2> QED BY <2>2, <2>3
<1>6. CASE I2ParsePFFile
  <2>1. /\ conf.kind = "pf"
        /\ CanBeCopied("pf", conf.line) <=> Space \in Range(conf.line)
        /\ conf.copy /\ Space \in Range(conf.line) => conf' = CopyLine
        /\ ~(conf.copy /\ Space \in Range(conf.line)) => conf' = Result(PFOf(conf.line))
    BY <1>6 DEF I2ParsePFFile, CanBeCopied
  <2>2. CASE conf.copy /\ Space \in Range(conf.line)
    BY <1>1, <2>1, <2>2, CopyReasons
  <2>3. CASE ~(conf.copy /\ Space \in Range(conf.line))
    <3>1. PFOf(conf.line) # <<>> => ~conf.copy
      BY <1>0, <2>3, PassPhraseHasSpace
    <3> QED BY <1>1, <1>3, <2>1, <2>3, <3>1, LineReasons
  <2> QED BY <2>2, <2>3
<1> QED BY <1>4, <1>5, <1>6

LEMMA MemoryReasons ==
    ASSUME ConfTypes, RecordInv, ReasonInv, OutOfLineMemory \/ OutOfResultMemory
    PROVE  ReasonInv'
<1> DEFINE more == Rows(text')
<1>1. /\ ConfIsRecord /\ (conf.at = "reading" => Reads(conf)) /\ (conf.at = "line" => HasLine(conf))
      /\ conf' = [conf EXCEPT !.at = "returned", !.rc = -@, !.line = <<>>, !.oom = TRUE]
      /\ conf.at \in {"reading", "line"} /\ conf.rc \in Int
  BY DEF OutOfLineMemory, OutOfResultMemory, ConfTypes, CallTypes, Reads, HasLine
<1>2. conf.at = "reading" => conf.rc >= 0
  <2>1. LinesAre(conf, Rows(text), ended) /\ AreRows(Rows(text)) /\ ended \in BOOLEAN
    BY RowsAre DEF RecordInv, ConfTypes, FileTypes
  <2>2. Len(Rows(text)) \in Nat \ {0}
    BY <2>1, TextRows
  <2>3. RowsCounted(conf, Rows(text), ended)
    BY <2>1 DEF LinesAre
  <2> DEFINE n == Len(Rows(text))
  <2>4. Reads(conf) => conf.rc = n - 1 \/ conf.rc = n
    BY <2>1, <2>3, Zenon DEF RowsCounted
  <2> HIDE DEF n
  <2>5. n \in Nat \ {0}
    BY <2>2 DEF n
  <2> QED BY <1>1, <2>4, <2>5
<1>3. conf.at = "line" => conf.rc > 0
  <2>1. HasLine(conf) => conf.rc \in Nat \ {0}
    BY AtLine
  <2> QED BY <1>1, <2>1
<1>4. /\ conf'.kind = conf.kind /\ conf'.at = "returned" /\ conf'.rc <= 0 /\ conf'.oom
      /\ conf'.ns = conf.ns /\ conf'.line = <<>>
  BY <1>1, <1>2, <1>3 DEF ConfIsRecord
<1>5. Counts(conf', more, ended')
  BY <1>4 DEF Counts, ReasonInv, InFile, Reads
<1>6. Reasons(conf', more, ended')
  BY <1>4, NoReason
<1> QED BY <1>5, <1>6 DEF ReasonInv, more

LEMMA ReasonStep == ConfTypes /\ RecordInv /\ ReasonInv /\ [ConfNext]_confVars => ReasonInv'
<1> SUFFICES ASSUME ConfTypes, RecordInv, ReasonInv, [ConfNext]_confVars PROVE ReasonInv'
  OBVIOUS
<1>1. CASE ReadStep
  BY <1>1, EndLineReasons, LeadingSpaceReasons, ReadingReasons, IndentedReasons,
     MemoryReasons, BadEscapeReasons, EndFileReasons DEF ReadStep
<1>2. CASE StrTo \/ WriteLine \/ UNCHANGED confVars
  <2>1. UNCHANGED <<conf, text, ended>>
    BY <1>2 DEF StrTo, WriteLine, confVars
  <2>2. Rows(text') = Rows(text) /\ conf' = conf /\ ended' = ended
    BY <2>1, Zenon
  <2> QED BY <2>2, Zenon DEF ReasonInv
<1> QED BY <1>1, <1>2, CallReasons, ParseReasons, MemoryReasons DEF ConfNext

LEMMA ReasonInit == ConfInit => ReasonInv
BY DEF ConfInit, Idle, ReasonInv, Counts, Reasons, InFile, Reads, HasLine

LEMMA FirstIs ==
    ASSUME NEW kind, NEW rows, AreRows(rows), NEW from \in Nat, NEW f \in from + 1..Len(rows),
           Holds(kind, rows, f), Skipped(kind, rows, from, f - 1)
    PROVE  Min({n \in DOMAIN rows : n > from /\ Holds(kind, rows, n)}) = f
<1> DEFINE held == {n \in DOMAIN rows : n > from /\ Holds(kind, rows, n)}
<1>1. DOMAIN rows = 1..Len(rows) /\ Len(rows) \in Nat
  BY DEF AreRows
<1>2. held \subseteq Nat /\ f \in held
  BY <1>1
<1>3. ASSUME NEW y \in held PROVE f <= y
  <2>1. y \in Nat /\ y > from /\ Holds(kind, rows, y)
    BY <1>1
  <2>2. y \notin from + 1..f - 1
    BY <2>1 DEF Skipped
  <2> QED BY <2>1, <2>2
<1> HIDE DEF held
<1>4. Min(held) = f
  BY <1>2, <1>3, LeastIs
<1> QED BY <1>4 DEF held

LEMMA LastIs ==
    ASSUME NEW kind, NEW rows, AreRows(rows), NEW f \in 1..Len(rows), NEW l \in f..Len(rows),
           \A k \in f..l - 1 : IsContinued(kind, rows[k]),
           l < Len(rows) => ~IsContinued(kind, rows[l])
    PROVE  Min({n \in f..Len(rows) : ~IsContinued(kind, rows[n]) \/ n = Len(rows)}) = l
<1> DEFINE ends == {n \in f..Len(rows) : ~IsContinued(kind, rows[n]) \/ n = Len(rows)}
<1>1. Len(rows) \in Nat
  BY DEF AreRows
<1>2. ends \subseteq Nat /\ l \in ends
  BY <1>1
<1>3. ASSUME NEW y \in ends PROVE l <= y
  <2>1. y \in f..Len(rows) /\ (y \in f..l - 1 => y = Len(rows))
    OBVIOUS
  <2> HIDE DEF ends
  <2> QED BY <1>1, <2>1
<1> HIDE DEF ends
<1>4. Min(ends) = l
  BY <1>2, <1>3, LeastIs
<1> QED BY <1>4 DEF ends

(* A line is that of the first row that holds one. *)
LEMMA TheLine ==
    ASSUME NEW kind, NEW rows, AreRows(rows), NEW from \in Nat, NEW line, NEW m \in 1..Len(rows),
           Started(kind, rows, from, line, m), m < Len(rows) => ~IsContinued(kind, rows[m])
    PROVE  LET held == {n \in DOMAIN rows : n > from /\ Holds(kind, rows, n)}
               first == Min(held)
               last == Min({n \in first..Len(rows) :
                              ~IsContinued(kind, rows[n]) \/ n = Len(rows)})
           IN  /\ held # {} /\ last = m /\ line = LineOf(kind, rows, first, last)
               /\ kind # "conf" => first = m
<1> DEFINE held == {n \in DOMAIN rows : n > from /\ Holds(kind, rows, n)}
           first == Min(held)
           last == Min({n \in first..Len(rows) : ~IsContinued(kind, rows[n]) \/ n = Len(rows)})
<1>1. PICK f : Starts(kind, rows, from, line, m, f)
  BY DEF Started
<1>2. /\ f \in from + 1..m /\ f \in 1..Len(rows) /\ f <= m /\ IsFirm(kind, rows[f])
      /\ Skipped(kind, rows, from, f - 1) /\ \A k \in f..m - 1 : IsContinued(kind, rows[k])
      /\ line = LineOf(kind, rows, f, m)
  <2>1. /\ f \in Nat \ {0} /\ f \in from + 1..m /\ f \in 1..Len(rows) /\ f <= m
        /\ Spans(rows, f, m)
        /\ IsFirm(kind, rows[f]) /\ HasInk(rows[f]) /\ Skipped(kind, rows, from, f - 1)
        /\ \A k \in f..m - 1 : IsContinued(kind, rows[k])
        /\ line = LineOf(kind, rows, f, m) /\ IsText(line)
    BY <1>1, StartsIs, Zenon
  <2> QED BY <2>1, Zenon
<1>3. Holds(kind, rows, f)
  BY <1>2, HoldsIs
<1>4. DOMAIN rows = 1..Len(rows) /\ Len(rows) \in Nat
  BY DEF AreRows
<1>5. f \in from + 1..Len(rows) /\ m \in f..Len(rows)
  BY <1>2, <1>4
<1>6. f \in held
  BY <1>3, <1>4, <1>5
<1>7. first = f
  BY <1>2, <1>3, <1>5, FirstIs
<1>8. Min({n \in f..Len(rows) : ~IsContinued(kind, rows[n]) \/ n = Len(rows)}) = m
  BY <1>2, <1>5, LastIs
<1>9. last = m
  BY <1>7, <1>8, Zenon
<1>10. kind # "conf" => f = m
  <2> SUFFICES ASSUME kind # "conf", f # m PROVE FALSE
    OBVIOUS
  <2>1. f \in f..m - 1 /\ ~IsContinued(kind, rows[f])
    BY <1>2 DEF IsContinued
  <2> QED BY <1>2, <2>1
<1> HIDE DEF held, first, last
<1>11. held # {} /\ last = m /\ line = LineOf(kind, rows, first, last) /\ (kind # "conf" => first = m)
  BY <1>2, <1>6, <1>7, <1>9, <1>10
<1> QED BY <1>11, Zenon DEF held, first, last

LEMMA RecordsFollow == ASSUME ConfTypes, RecordInv, ReasonInv PROVE RecordsAreTheLines
<1> DEFINE rows == Rows(text)
           N == Len(rows)
           kind == conf.kind
           from == conf.row
           rc == conf.rc
           held == {n \in DOMAIN rows : n > from /\ Holds(kind, rows, n)}
           first == Min(held)
           last == Min({n \in first..N : ~IsContinued(kind, rows[n]) \/ n = N})
           line == LineOf(kind, rows, first, last)
           kept == FlattenSeq([n \in DOMAIN rows |-> Kept(kind, rows, n)])
           stuck == IF Records
                    THEN /\ N \in held /\ (conf.copy \/ first = N) /\ Spaced(rows, from, N)
                    ELSE Escapes(rows[N])
<1> SUFFICES ASSUME conf.at = "returned", ~conf.oom
             PROVE  /\ rc > 0 => /\ held # {} /\ rc = last /\ ~conf.copy
                                 /\ conf.line = line /\ WellFormed(kind, line)
                                 /\ Records => ~Spaced(rows, from, first)
                    /\ rc < 0 => held # {}
                    /\ rc <= 0 =>
                         \/ rc = 0 /\ ended /\ (conf.copy \/ held = {})
                         \/ rc = 1 - N /\ stuck
                         \/ rc = -last /\ ~conf.copy /\ ~WellFormed(kind, line)
                         \/ conf.copy /\ \E n \in held : rc = -n /\ ~CanBeCopied(kind, rows[n])
                    /\ conf.copy /\ rc = 0 /\ ended =>
                         /\ Inked(conf.tofp) = Inked(kept)
                         /\ (\A n \in DOMAIN rows : IsComment(rows[n]) => ~IsIndented(rows[n]))
                              => conf.tofp = kept
  BY Zenon DEF RecordsAreTheLines
<1>1. /\ AreRows(rows) /\ LinesAre(conf, rows, ended) /\ from \in Nat /\ rc \in Int
      /\ DOMAIN rows = 1..N /\ N \in Nat \ {0}
  BY RowsAre DEF ConfTypes, FileTypes, CallTypes, RecordInv, AreRows
<1>2. /\ rc = 0 /\ conf.copy /\ ended => Same(Tidy(rows, 0), conf.tofp, KeptUpTo(kind, rows, N))
      /\ rc < 0 => \E f : Refused(conf, rows, f)
  BY <1>1 DEF LinesAre, AnswerIs
<1>3. ASSUME NEW f \in from + 1..N, Holds(kind, rows, f)
      PROVE  f \in held /\ (Skipped(kind, rows, from, f - 1) => first = f)
  <2>1. f \in held
    BY <1>1, <1>3
  <2> QED BY <1>1, <1>3, <2>1, FirstIs
<1>r. Records <=> InFile(conf)
  BY DEF Records, InFile
<1>4. ASSUME NEW m \in 1..N, Started(kind, rows, from, conf.line, m),
             m < N => ~IsContinued(kind, rows[m])
      PROVE  /\ held # {} /\ m = last /\ conf.line = line
             /\ kind # "conf" => first = m
  <2>1. LET h == {n \in DOMAIN rows : n > from /\ Holds(kind, rows, n)}
            f == Min(h)
            l == Min({n \in f..Len(rows) : ~IsContinued(kind, rows[n]) \/ n = Len(rows)})
        IN  h # {} /\ l = m /\ conf.line = LineOf(kind, rows, f, l) /\ (kind # "conf" => f = m)
    BY <1>1, <1>4, TheLine
  <2> QED BY <2>1, Zenon
<1>5. ASSUME rc > 0
      PROVE  /\ held # {} /\ rc = last /\ ~conf.copy
             /\ conf.line = line /\ WellFormed(kind, line)
             /\ Records => ~Spaced(rows, from, first)
  <2>1. HasLine(conf) /\ ~Reads(conf)
    BY <1>5 DEF HasLine, Reads
  <2>2. /\ rc \in 1..N /\ ~conf.copy /\ Started(kind, rows, from, conf.line, rc)
        /\ rc < N => ~IsContinued(kind, rows[rc])
        /\ conf.line # <<>>
    BY <2>1, AtLine
  <2> HIDE DEF rc
  <2>3. /\ held # {} /\ rc = last /\ conf.line = line
        /\ InFile(conf) => first = rc
    BY <1>4, <2>2 DEF InFile
  <2>4. LastRow(conf, rows) = rc
    BY <2>1 DEF LastRow, rc
  <2> HIDE DEF rows, held, first, last, line
  <2>5. InFile(conf) => ~Spaced(rows, from, rc)
    BY <2>1, <2>2, <2>4 DEF ReasonInv, Counts, rows
  <2>6. WellFormed(kind, conf.line)
    BY <1>5, Zenon DEF ReasonInv, Reasons, rc
  <2> QED BY <1>r, <2>2, <2>3, <2>5, <2>6, Zenon
<1>6. ASSUME rc <= 0
      PROVE  \/ rc = 0 /\ ended /\ (conf.copy \/ held = {})
             \/ rc = 1 - N /\ stuck
             \/ rc = -last /\ ~conf.copy /\ ~WellFormed(kind, line)
             \/ conf.copy /\ \E n \in held : rc = -n /\ ~CanBeCopied(kind, rows[n])
  <2>1. \/ rc = 0 /\ ended /\ (conf.copy \/ Skipped(kind, rows, from, N))
        \/ GotStuck(conf, rows, ended)
        \/ ~conf.copy /\ Misformed(conf, rows)
        \/ conf.copy /\ NotCopied(conf, rows)
    BY <1>6 DEF ReasonInv, Reasons
  <2>2. CASE rc = 0 /\ ended /\ (conf.copy \/ Skipped(kind, rows, from, N))
    <3>1. Skipped(kind, rows, from, N) => held = {}
      BY <1>1 DEF Skipped
    <3> QED BY <2>2, <3>1
  <2>3. CASE GotStuck(conf, rows, ended)
    <3>1. rc = 1 - N
      BY <2>3 DEF GotStuck
    <3>2. CASE InFile(conf)
      <4>1. /\ N \in from + 1..N /\ Holds(kind, rows, N)
            /\ conf.copy \/ Skipped(kind, rows, from, N - 1)
            /\ Spaced(rows, from, N)
        BY <2>3, <3>2 DEF GotStuck
      <4>2. N \in held /\ (conf.copy \/ first = N)
        BY <1>3, <4>1
      <4>3. stuck
        BY <1>r, <3>2, <4>1, <4>2, Zenon
      <4> QED BY <3>1, <4>3
    <3>3. CASE ~InFile(conf)
      <4>1. Escapes(rows[N])
        BY <2>3, <3>3 DEF GotStuck, EscapesIn, Escapes
      <4>2. stuck
        BY <1>r, <3>3, <4>1, Zenon
      <4> QED BY <3>1, <4>2
    <3> QED BY <3>2, <3>3
  <2>4. CASE ~conf.copy /\ Misformed(conf, rows)
    <3>1. PICK m \in 1..N : /\ rc = -m /\ Started(kind, rows, from, conf.line, m)
                            /\ ~WellFormed(kind, conf.line)
                            /\ m < N => ~IsContinued(kind, rows[m])
      BY <2>4, Zenon DEF Misformed
    <3>2. m = last /\ conf.line = line
      BY <1>4, <3>1
    <3> HIDE DEF last, line
    <3> QED BY <2>4, <3>1, <3>2
  <2>5. CASE conf.copy /\ NotCopied(conf, rows)
    <3>1. PICK m \in from + 1..N : /\ rc = -m /\ Holds(kind, rows, m)
                                   /\ ~CanBeCopied(kind, rows[m])
      BY <2>5, Zenon DEF NotCopied
    <3>2. m \in held
      BY <1>3, <3>1
    <3> HIDE DEF held
    <3> QED BY <2>5, <3>1, <3>2, Zenon
  <2> QED BY <2>1, <2>2, <2>3, <2>4, <2>5
<1>7. ASSUME rc < 0 PROVE held # {}
  <2>1. PICK f : Refused(conf, rows, f)
    BY <1>2, <1>7
  <2>2. f \in from + 1..N /\ Holds(kind, rows, f)
    BY <2>1, Zenon DEF Refused
  <2>3. f \in held
    BY <1>3, <2>2
  <2> QED BY <2>3
<1>8. ASSUME conf.copy, rc = 0, ended
      PROVE  /\ Inked(conf.tofp) = Inked(kept)
             /\ (\A n \in DOMAIN rows : IsComment(rows[n]) => ~IsIndented(rows[n]))
                  => conf.tofp = kept
  <2>1. Same(Tidy(rows, 0), conf.tofp, KeptUpTo(kind, rows, N))
    BY <1>2, <1>8
  <2>2. kept = KeptUpTo(kind, rows, N)
    BY <1>1, Zenon DEF KeptUpTo
  <2>3. (\A n \in DOMAIN rows : IsComment(rows[n]) => ~IsIndented(rows[n])) => Tidy(rows, 0)
    BY <1>1 DEF Tidy
  <2> HIDE DEF kept, rows
  <2> QED BY <2>1, <2>2, <2>3, Zenon DEF Same
<1> HIDE DEF rows, N, held, first, last, line, kept, stuck, from, kind, rc
<1> QED BY <1>5, <1>6, <1>7, <1>8, Zenon

(* A call gives the next record of the file and its row, and that is well-formed. *)
(* It gives none at the end of the file, when the record is malformed, or when it *)
(* is stuck at a bad escape or behind blanks; and a copy keeps every row.         *)
(* I2GetConfLine, parsefileline and their callers (conf.c), for texts of any      *)
(* length.                                                                        *)
THEOREM LinesAreRecords == ConfSpec => []RecordsAreTheLines
<1>1. ConfInit => ConfTypes /\ RecordInv /\ ReasonInv
  BY ConfTypesHold, RecordInit, ReasonInit
<1>2. ConfTypes /\ RecordInv /\ ReasonInv /\ [ConfNext]_confVars
        => (ConfTypes /\ RecordInv /\ ReasonInv)'
  BY ConfTypesStep, RecordStep, ReasonStep
<1>3. ConfTypes /\ RecordInv /\ ReasonInv => RecordsAreTheLines
  BY RecordsFollow
<1> QED BY <1>1, <1>2, <1>3, PTL DEF ConfSpec

-----------------------------------------------------------------------------
(*                   A line that was written is read back                  *)

LEMMA GreatestIs ==
    ASSUME NEW S, S \subseteq Nat, NEW x \in S, \A y \in S : y <= x
    PROVE  Max(S) = x
<1>1. \A y \in S : x >= y
  OBVIOUS
<1>2. \A z \in S : (\A y \in S : z >= y) => z = x
  OBVIOUS
<1> QED BY <1>1, <1>2 DEF Max

(* The digits of a byte give it back (hex.c). *)
LEMMA DecodesBack ==
    ASSUME NEW bytes \in PassPhrases
    PROVE  I2HexDecode(I2HexEncode(bytes)) = <<bytes>>
<1> DEFINE hex == I2HexEncode(bytes)
           n == Len(bytes)
<1>1. /\ n \in Nat /\ bytes \in Seq(0..Base * Base - 1)
      /\ hex \in Seq(Hex) /\ Len(hex) = 2 * n
      /\ \A k \in 1..n : /\ hex[2 * k - 1] = HexDigits[(bytes[k] \div Base) + 1]
                         /\ hex[2 * k] = HexDigits[(bytes[k] % Base) + 1]
  BY EncodedIs
<1> HIDE DEF hex
<1>2. Len(hex) \div 2 = n
  BY <1>1
<1>3. ASSUME NEW k \in 1..n
      PROVE  Base * Value(hex[2 * k - 1]) + Value(hex[2 * k]) = bytes[k]
  <2> DEFINE S == 0..Base * Base - 1
             b == bytes[k]
  <2>1. b \in S
    <3> HIDE DEF S
    <3>1. bytes \in Seq(S)
      BY <1>1 DEF S
    <3> QED BY <3>1
  <2>2. Base \in Nat \ {0}
    BY HexDigitsAre
  <2> HIDE DEF b
  <2>3. /\ b \div Base \in 0..Base - 1 /\ b % Base \in 0..Base - 1
        /\ Base * (b \div Base) + (b % Base) = b
    BY <2>1, <2>2, DigitsOf
  <2> DEFINE x == b \div Base
             y == b % Base
  <2>4. Value(HexDigits[x + 1]) = x /\ Value(HexDigits[y + 1]) = y
    BY <2>3, HexDigitsAre, Zenon
  <2>5. hex[2 * k - 1] = HexDigits[x + 1] /\ hex[2 * k] = HexDigits[y + 1]
    BY <1>1, Zenon DEF b
  <2> QED BY <2>3, <2>4, <2>5, Zenon DEF b
<1>4. HexDecoded(hex) = bytes
  <2>1. HexDecoded(hex) = [k \in 1..n |-> Base * Value(hex[2 * k - 1]) + Value(hex[2 * k])]
    BY <1>2, Zenon DEF HexDecoded
  <2>2. HexDecoded(hex) = [k \in 1..n |-> bytes[k]]
    BY <1>3, <2>1, Zenon
  <2>3. bytes = [k \in 1..n |-> bytes[k]]
    <3> DEFINE S == 0..Base * Base - 1
    <3> HIDE DEF S
    <3>1. bytes \in Seq(S)
      BY <1>1 DEF S
    <3> QED BY <3>1
  <2> QED BY <2>2, <2>3, Zenon
<1>5. Range(hex) \subseteq Hex
  BY <1>1 DEF Range
<1> QED BY <1>4, <1>5, Zenon DEF I2HexDecode, hex

WrittenLine(id, bytes) == id \o <<Space>> \o I2HexEncode(bytes)

(* The characters of a line: the name, a blank, the digits, and the newline. *)
LEMMA LineParts ==
    ASSUME NEW id \in Identities, NEW bytes \in PassPhrases
    PROVE  LET hex == I2HexEncode(bytes)
               a == Len(id)
               h == Len(hex)
               line == WrittenLine(id, bytes)
               T == Range(id) \cup Hex \cup {Space, Newline}
           IN
           /\ a \in Nat \ {0} /\ h \in Nat /\ id \in Seq(T) /\ hex \in Seq(T)
           /\ line \in Seq(T) /\ Len(line) = a + h + 1
           /\ \A k \in 1..a : line[k] = id[k] /\ id[k] \notin {Newline, Space, EOF}
           /\ line[a + 1] = Space
           /\ \A k \in 1..h : line[a + 1 + k] = hex[k] /\ hex[k] \notin {Newline, Space, EOF}
           /\ Line(id, bytes) = Append(line, Newline) /\ id[1] # Comment
<1> DEFINE hex == I2HexEncode(bytes)
           a == Len(id)
           h == Len(hex)
           line == WrittenLine(id, bytes)
           T == Range(id) \cup Hex \cup {Space, Newline}
<1>1. /\ id \in Seq(Range(id)) /\ id # <<>> /\ Head(id) # Comment
      /\ Range(id) \cap {Newline, Space, EOF} = {} /\ hex \in Seq(Hex)
      /\ Hex \cap {Newline, Space, EOF} = {}
  BY CharsAssumption, EncodedIs
<1> HIDE DEF hex
<1>2. /\ \A k \in 1..a : id[k] \notin {Newline, Space, EOF}
      /\ \A k \in 1..h : hex[k] \notin {Newline, Space, EOF}
      /\ a \in Nat \ {0} /\ h \in Nat /\ id[1] # Comment
  BY <1>1
<1>3. Hex \subseteq T /\ Range(id) \subseteq T /\ Space \in T /\ Newline \in T
  OBVIOUS
<1> HIDE DEF T
<1>4. id \in Seq(T) /\ hex \in Seq(T) /\ <<Space>> \in Seq(T) /\ <<Newline>> \in Seq(T)
  BY <1>1, <1>3
<1>5. line = id \o <<Space>> \o hex
  BY Zenon DEF WrittenLine, hex
<1> HIDE DEF line
<1>6. line \in Seq(T) /\ Len(line) = a + h + 1
  BY <1>4, <1>5
<1>7. \A k \in 1..a : line[k] = id[k]
  BY <1>4, <1>5
<1>8. line[a + 1] = Space
  BY <1>2, <1>4, <1>5
<1>9. \A k \in 1..h : line[a + 1 + k] = hex[k]
  BY <1>2, <1>4, <1>5
<1>10. Line(id, bytes) = Append(line, Newline)
  <2>1. Line(id, bytes) = line \o <<Newline>>
    BY Zenon DEF Line, WrittenLine, line
  <2>2. line \o <<Newline>> = Append(line, Newline)
    BY <1>3, <1>6
  <2> QED BY <2>1, <2>2, Zenon
<1> QED BY <1>2, <1>4, <1>6, <1>7, <1>8, <1>9, <1>10 DEF hex, line, T

(* Two words that a blank separates. *)
TwoWords(line, a, h) ==
    /\ a \in Nat \ {0} /\ h \in Nat \ {0} /\ Len(line) = a + h + 1
    /\ DOMAIN line = 1..a + h + 1
    /\ \A k \in 1..a : line[k] # Space
    /\ line[a + 1] = Space /\ \A k \in 1..h : line[a + 1 + k] # Space

LEMMA TokensAre ==
    ASSUME NEW line, NEW a, NEW h, TwoWords(line, a, h)
    PROVE  /\ Len(Tokens(line)) = 2
           /\ Tokens(line)[1] = SubSeq(line, 1, a)
           /\ Tokens(line)[2] = SubSeq(line, a + 2, a + h + 1)
<1> DEFINE starts == {k \in DOMAIN line : line[k] # Space /\ (k = 1 \/ line[k - 1] = Space)}
           Letters(k) == {j \in k..Len(line) : \A i \in k..j : line[i] # Space}
           End(k) == Max(Letters(k))
           b == a + 2
           l == a + h + 1
<1>1. /\ a \in Nat \ {0} /\ h \in Nat \ {0} /\ Len(line) = l /\ DOMAIN line = 1..l
      /\ \A k \in 1..a : line[k] # Space
      /\ line[a + 1] = Space /\ \A k \in 1..h : line[a + 1 + k] # Space
  BY DEF TwoWords
<1>2. \A k \in b..l : line[k] # Space
  <2> TAKE k \in b..l
  <2> DEFINE i == k - (a + 1)
  <2>1. i \in 1..h /\ a + 1 + i = k
    BY <1>1
  <2> HIDE DEF i
  <2> QED BY <1>1, <2>1
<1>3. starts = {1, b}
  <2>1. 1 \in starts
    BY <1>1
  <2>2. b \in starts
    <3>1. b \in 1..l /\ b \in b..l /\ b - 1 = a + 1
      BY <1>1
    <3> HIDE DEF b
    <3> QED BY <1>1, <1>2, <3>1
  <2>3. ASSUME NEW k \in starts, k # 1, k # b PROVE FALSE
    <3>1. k \in 1..l /\ line[k] # Space /\ line[k - 1] = Space
      BY <1>1, <2>3
    <3>2. k - 1 \in 1..l
      BY <1>1, <2>3, <3>1
    <3>3. k - 1 \notin 1..a /\ k - 1 \notin b..l
      BY <1>1, <1>2, <3>1
    <3>4. k - 1 = a + 1
      BY <1>1, <3>2, <3>3
    <3> QED BY <1>1, <2>3, <3>1, <3>4
  <2> HIDE DEF starts, b
  <2> QED BY <2>1, <2>2, <2>3
<1>4. Cardinality(starts) = 2 /\ Nth(starts, 1) = 1 /\ Nth(starts, 2) = b
  <2> DEFINE S == {1}
  <2>1. Cardinality(S) = 1 /\ Nth(S, 1) = 1
    BY NthOfOne
  <2>2. IsMore(starts, S, b, 1)
    <3>1. Within(S, 1)
      BY DEF Within
    <3>2. starts = S \cup {b}
      BY <1>3
    <3> QED BY <1>1, <3>1, <3>2 DEF IsMore
  <2> HIDE DEF S, starts, b
  <2>3. /\ Cardinality(starts) = Cardinality(S) + 1
        /\ \A n \in 1..Cardinality(S) : Nth(starts, n) = Nth(S, n)
        /\ Nth(starts, Cardinality(S) + 1) = b
    BY <2>2, NthOfMore
  <2>4. Cardinality(starts) = 2 /\ 1 \in 1..Cardinality(S) /\ Cardinality(S) + 1 = 2
    BY <2>1, <2>3
  <2> QED BY <2>1, <2>3, <2>4, Zenon
<1>5. End(1) = a
  <2> DEFINE S == Letters(1)
  <2>1. S \subseteq Nat /\ a \in S
    BY <1>1
  <2>2. ASSUME NEW y \in S PROVE y <= a
    <3>1. y \in 1..l /\ (a + 1 \in 1..y => line[a + 1] # Space)
      BY <1>1
    <3> HIDE DEF S
    <3> QED BY <1>1, <3>1
  <2> HIDE DEF S
  <2>3. Max(S) = a
    BY <2>1, <2>2, GreatestIs
  <2> QED BY <2>3, Zenon DEF S
<1>6. End(b) = l
  <2> DEFINE S == Letters(b)
  <2>1. l \in b..l
    BY <1>1
  <2>2. S \subseteq Nat /\ l \in S
    BY <1>1, <1>2, <2>1
  <2>3. ASSUME NEW y \in S PROVE y <= l
    BY <1>1
  <2> HIDE DEF S
  <2>4. Max(S) = l
    BY <2>2, <2>3, GreatestIs
  <2> QED BY <2>4, Zenon DEF S
<1>7. Tokens(line) = [n \in 1..Cardinality(starts) |->
                        SubSeq(line, Nth(starts, n), End(Nth(starts, n)))]
  BY Zenon DEF Tokens
<1> HIDE DEF starts, End
<1>8. Tokens(line) = [n \in 1..2 |-> SubSeq(line, Nth(starts, n), End(Nth(starts, n)))]
  BY <1>4, <1>7, Zenon
<1>9. Len(Tokens(line)) = 2
  BY <1>8
<1>10. /\ Tokens(line)[1] = SubSeq(line, Nth(starts, 1), End(Nth(starts, 1)))
       /\ Tokens(line)[2] = SubSeq(line, Nth(starts, 2), End(Nth(starts, 2)))
  <2>1. 1 \in 1..2 /\ 2 \in 1..2
    OBVIOUS
  <2> QED BY <1>8, <2>1, Zenon
<1>11. Tokens(line)[1] = SubSeq(line, 1, a) /\ Tokens(line)[2] = SubSeq(line, b, l)
  BY <1>4, <1>5, <1>6, <1>10, Zenon
<1> QED BY <1>9, <1>11, Zenon DEF b, l

LEMMA WordIs ==
    ASSUME NEW T, NEW line \in Seq(T), NEW word \in Seq(T),
           NEW i \in Nat, i + Len(word) <= Len(line),
           NEW j, j = i + Len(word),
           \A k \in 1..Len(word) : line[i + k] = word[k]
    PROVE  SubSeq(line, i + 1, j) = word
<1> DEFINE n == Len(word)
           part == SubSeq(line, i + 1, j)
<1>1. n \in Nat /\ Len(line) \in Nat /\ j \in Nat /\ j - (i + 1) + 1 = n
  OBVIOUS
<1>2. part = [k \in 1..n |-> line[(i + 1) + k - 1]]
  BY <1>1
<1>3. \A k \in 1..n : part[k] = word[k]
  <2> HIDE DEF part
  <2> TAKE k \in 1..n
  <2>1. (i + 1) + k - 1 = i + k
    OBVIOUS
  <2> QED BY <1>2, <2>1
<1>4. DOMAIN part = 1..n /\ DOMAIN word = 1..n /\ word = [k \in 1..n |-> word[k]]
  BY <1>2
<1>5. part = [k \in 1..n |-> part[k]]
  BY <1>2, Zenon
<1> HIDE DEF part, n
<1>6. part = word
  BY <1>3, <1>4, <1>5, Zenon
<1> QED BY <1>6 DEF part

LEMMA TokensOfWritten ==
    ASSUME NEW id \in Identities, NEW bytes \in PassPhrases, bytes # <<>>
    PROVE  LET t == Tokens(WrittenLine(id, bytes)) IN
           Len(t) = 2 /\ t[1] = id /\ t[2] = I2HexEncode(bytes)
<1> DEFINE hex == I2HexEncode(bytes)
           a == Len(id)
           h == Len(hex)
           line == WrittenLine(id, bytes)
           T == Range(id) \cup Hex \cup {Space, Newline}
<1>1. /\ a \in Nat \ {0} /\ h \in Nat /\ id \in Seq(T) /\ hex \in Seq(T)
      /\ line \in Seq(T) /\ Len(line) = a + h + 1
      /\ \A k \in 1..a : line[k] = id[k] /\ id[k] \notin {Newline, Space, EOF}
      /\ line[a + 1] = Space
      /\ \A k \in 1..h : line[a + 1 + k] = hex[k] /\ hex[k] \notin {Newline, Space, EOF}
  BY LineParts
<1>2. h # 0
  <2>1. Len(bytes) \in Nat /\ h = 2 * Len(bytes) /\ bytes \in Seq(0..Base * Base - 1)
    BY EncodedIs
  <2>2. Len(bytes) # 0
    <3> DEFINE S == 0..Base * Base - 1
    <3> HIDE DEF S
    <3>1. bytes \in Seq(S)
      BY <2>1 DEF S
    <3> QED BY <3>1
  <2> HIDE DEF h
  <2> QED BY <2>1, <2>2
<1> HIDE DEF T, line, hex
<1>3. TwoWords(line, a, h)
  <2>1. DOMAIN line = 1..a + h + 1
    BY <1>1
  <2> QED BY <1>1, <1>2, <2>1 DEF TwoWords
<1>4. /\ Len(Tokens(line)) = 2
      /\ Tokens(line)[1] = SubSeq(line, 1, a)
      /\ Tokens(line)[2] = SubSeq(line, a + 2, a + h + 1)
  BY <1>3, TokensAre
<1>5. SubSeq(line, 1, a) = id
  <2>1. \A k \in 1..Len(id) : line[0 + k] = id[k]
    BY <1>1
  <2>2. SubSeq(line, 0 + 1, a) = id
    BY <1>1, <2>1, WordIs
  <2> QED BY <2>2
<1>6. SubSeq(line, a + 2, a + h + 1) = hex
  <2>1. \A k \in 1..Len(hex) : line[(a + 1) + k] = hex[k]
    BY <1>1
  <2> DEFINE i == a + 1
             j == a + h + 1
  <2>2. i \in Nat /\ j = i + Len(hex) /\ j <= Len(line) /\ i + 1 = a + 2
    BY <1>1
  <2> HIDE DEF i, j
  <2>3. \A k \in 1..Len(hex) : line[i + k] = hex[k]
    BY <2>1, Zenon DEF i
  <2>4. SubSeq(line, i + 1, j) = hex
    BY <1>1, <2>2, <2>3, WordIs
  <2> QED BY <2>2, <2>4, Zenon DEF j
<1> QED BY <1>4, <1>5, <1>6, Zenon DEF line, hex

LEMMA WrittenParses ==
    ASSUME NEW id \in Identities, NEW bytes \in PassPhrases, bytes # <<>>
    PROVE  LET line == WrittenLine(id, bytes) IN
           /\ PFOf(line) = <<id, bytes>>
           /\ Len(bytes) = KeyLen /\ Len(id) <= MaxIdentity => KeyOf(line) = <<id, bytes>>
<1> DEFINE t == Tokens(WrittenLine(id, bytes))
           hex == I2HexEncode(bytes)
<1>1. Len(t) = 2 /\ t[1] = id /\ t[2] = hex
  BY TokensOfWritten
<1>2. Len(hex) = 2 * Len(bytes) /\ Len(bytes) \in Nat
  BY EncodedIs
<1>3. I2HexDecode(hex) = <<bytes>> /\ I2HexDecode(hex) # <<>> /\ I2HexDecode(hex)[1] = bytes
  <2>1. I2HexDecode(hex) = <<bytes>>
    BY DecodesBack
  <2> HIDE DEF hex
  <2> QED BY <2>1
<1>4. /\ 2 > 1 /\ ~(2 > 2) /\ (2 * Len(bytes)) % 2 = 0
      /\ Len(bytes) = KeyLen => Len(hex) = 2 * KeyLen
  BY <1>2
<1> HIDE DEF t, hex
<1>5. I2HexDecode(t[2]) # <<>> /\ I2HexDecode(t[2])[1] = bytes /\ Len(t[2]) = 2 * Len(bytes)
  BY <1>1, <1>2, <1>3, Zenon
<1>6. PFOf(WrittenLine(id, bytes)) = <<t[1], I2HexDecode(t[2])[1]>>
  <2>1. Len(t) = 2 /\ Len(t[2]) % 2 = 0 /\ I2HexDecode(t[2]) # <<>>
    BY <1>1, <1>4, <1>5, Zenon
  <2> QED BY <2>1, Zenon DEF PFOf, t
<1>7. ASSUME Len(bytes) = KeyLen, Len(id) <= MaxIdentity
      PROVE  KeyOf(WrittenLine(id, bytes)) = <<t[1], I2HexDecode(t[2])[1]>>
  <2>1. Len(t[1]) <= MaxIdentity /\ Len(t) > 1 /\ Len(t[2]) = 2 * KeyLen /\ ~(Len(t) > 2)
        /\ I2HexDecode(t[2]) # <<>>
    BY <1>1, <1>4, <1>5, <1>7, Zenon
  <2> QED BY <2>1, Zenon DEF KeyOf, t
<1> QED BY <1>1, <1>5, <1>6, <1>7, Zenon

CharsWritten(id) == Range(id) \cup Hex \cup {Space, Newline}
LEMMA LineAt ==
    ASSUME NEW id \in Identities, NEW bytes \in PassPhrases
    PROVE  LET all == Line(id, bytes)
               line == WrittenLine(id, bytes)
               n == Len(line)
           IN
           /\ n \in Nat \ {0} /\ line \in Seq(CharsWritten(id)) /\ all \in Seq(CharsWritten(id))
           /\ Len(all) = n + 1 /\ all[n + 1] = Newline
           /\ \A k \in 1..n : all[k] = line[k] /\ line[k] \notin {Newline, EOF}
           /\ line[1] \notin {Comment, Space}
<1> DEFINE hex == I2HexEncode(bytes)
           a == Len(id)
           h == Len(hex)
           line == WrittenLine(id, bytes)
           all == Line(id, bytes)
           n == Len(line)
           T == CharsWritten(id)
<1>1. /\ a \in Nat \ {0} /\ h \in Nat
      /\ line \in Seq(T) /\ n = a + h + 1
      /\ \A k \in 1..a : line[k] = id[k] /\ id[k] \notin {Newline, Space, EOF}
      /\ line[a + 1] = Space
      /\ \A k \in 1..h : line[a + 1 + k] = hex[k] /\ hex[k] \notin {Newline, Space, EOF}
      /\ all = Append(line, Newline) /\ id[1] # Comment
  BY LineParts DEF CharsWritten
<1>2. Newline \in T
  BY DEF CharsWritten
<1> HIDE DEF hex, line, all, T
<1>3. all \in Seq(T) /\ Len(all) = n + 1 /\ all[n + 1] = Newline /\ \A k \in 1..n : all[k] = line[k]
  BY <1>1, <1>2
<1>4. ASSUME NEW k \in 1..n PROVE line[k] \notin {Newline, EOF}
  <2>1. CASE k \in 1..a
    BY <1>1, <2>1
  <2>2. CASE k = a + 1
    BY <1>1, <2>2, Distinct
  <2>3. CASE k \notin 1..a /\ k # a + 1
    <3> DEFINE i == k - (a + 1)
    <3>1. i \in 1..h /\ a + 1 + i = k
      BY <1>1, <2>3
    <3> HIDE DEF i
    <3> QED BY <1>1, <3>1
  <2> QED BY <2>1, <2>2, <2>3
<1>5. n \in Nat \ {0} /\ line[1] \notin {Comment, Space}
  BY <1>1
<1> QED BY <1>1, <1>3, <1>4, <1>5 DEF line, all, T

(* How far a line was read. *)
AtPlace(s, rest, id, bytes) ==
    LET all == Line(id, bytes) IN
    /\ rest \in Seq(CharsWritten(id)) /\ Len(s) < Len(all) /\ Len(rest) = Len(all) - Len(s)
    /\ \A k \in 1..Len(s) : s[k] = all[k]
    /\ \A k \in 1..Len(rest) : rest[k] = all[Len(s) + k]

LEMMA PlaceStarts ==
    ASSUME NEW id \in Identities, NEW bytes \in PassPhrases
    PROVE  AtPlace(<<>>, Line(id, bytes), id, bytes)
<1> DEFINE all == Line(id, bytes)
<1>1. all \in Seq(CharsWritten(id)) /\ Len(all) \in Nat \ {0}
  BY LineAt
<1> HIDE DEF all
<1>2. /\ Len(<<>>) = 0 /\ 0 < Len(all) /\ Len(all) = Len(all) - 0
      /\ \A k \in 1..0 : <<>>[k] = all[k]
      /\ \A k \in 1..Len(all) : all[k] = all[0 + k]
  BY <1>1
<1> QED BY <1>1, <1>2 DEF AtPlace, all

LEMMA PlaceNext ==
    ASSUME NEW id \in Identities, NEW bytes \in PassPhrases, NEW s \in Seq(LineChar), NEW rest,
           AtPlace(s, rest, id, bytes), NEW c, rest # <<>> => c = Head(rest)
    PROVE  /\ rest # <<>> /\ c # EOF
           /\ c = Newline => s = WrittenLine(id, bytes) /\ s # <<>>
           /\ c # Newline /\ c \in LineChar => AtPlace(Append(s, c), Tail(rest), id, bytes)
           /\ s = <<>> => c \notin {Comment, Space, Newline}
<1> DEFINE all == Line(id, bytes)
           line == WrittenLine(id, bytes)
           n == Len(line)
           T == CharsWritten(id)
           m == Len(s)
<1>1. /\ n \in Nat \ {0} /\ line \in Seq(T) /\ all \in Seq(T)
      /\ Len(all) = n + 1 /\ all[n + 1] = Newline
      /\ \A k \in 1..n : all[k] = line[k] /\ line[k] \notin {Newline, EOF}
      /\ line[1] \notin {Comment, Space}
  BY LineAt
<1>2. /\ rest \in Seq(T) /\ m < Len(all) /\ Len(rest) = Len(all) - m
      /\ \A k \in 1..m : s[k] = all[k]
      /\ \A k \in 1..Len(rest) : rest[k] = all[m + k]
  BY DEF AtPlace
<1> HIDE DEF all, line, T
<1>3. m \in Nat /\ m <= n /\ Len(rest) \in Nat \ {0}
  BY <1>1, <1>2
<1>4. rest # <<>> /\ c = all[m + 1]
  <2>1. rest # <<>> /\ Head(rest) = rest[1] /\ 1 \in 1..Len(rest)
    BY <1>2, <1>3
  <2> QED BY <1>2, <2>1
<1>5. m < n => c = line[m + 1] /\ c \notin {Newline, EOF}
  <2>1. m < n => m + 1 \in 1..n
    BY <1>1, <1>3
  <2> HIDE DEF m, n
  <2> QED BY <1>1, <1>4, <2>1
<1>6. m = n => c = Newline
  BY <1>1, <1>4
<1>7. c # EOF
  BY <1>1, <1>3, <1>5, <1>6, Distinct
<1>8. ASSUME c = Newline PROVE s = line /\ s # <<>>
  <2>1. m = n
    BY <1>1, <1>3, <1>5, <1>8
  <2>2. DOMAIN s = 1..n /\ DOMAIN line = 1..n /\ s = [k \in 1..n |-> s[k]]
        /\ line = [k \in 1..n |-> line[k]]
    BY <1>1, <2>1
  <2>3. \A k \in 1..n : s[k] = line[k]
    <3> HIDE DEF m, n
    <3> QED BY <1>1, <1>2, <2>1
  <2> HIDE DEF m, n
  <2>4. s = line
    BY <2>2, <2>3, Zenon
  <2>5. s # <<>>
    BY <1>1, <2>1 DEF m
  <2> QED BY <2>4, <2>5
<1>9. ASSUME c # Newline, c \in LineChar PROVE AtPlace(Append(s, c), Tail(rest), id, bytes)
  <2> DEFINE u == Append(s, c)
             v == Tail(rest)
  <2>1. m < n
    BY <1>1, <1>3, <1>6, <1>9
  <2>2. Len(u) = m + 1 /\ u[m + 1] = c /\ \A k \in 1..m : u[k] = s[k]
    BY <1>9
  <2>3. v \in Seq(T) /\ Len(v) = Len(rest) - 1 /\ \A k \in 1..Len(rest) - 1 : v[k] = rest[k + 1]
    BY <1>2, <1>4
  <2> HIDE DEF u, v
  <2>4. Len(u) < Len(all) /\ Len(v) = Len(all) - Len(u)
    BY <1>1, <1>2, <1>3, <2>1, <2>2, <2>3
  <2>5. \A k \in 1..Len(u) : u[k] = all[k]
    <3> TAKE k \in 1..Len(u)
    <3>1. k \in 1..m \/ k = m + 1
      BY <1>3, <2>2
    <3> HIDE DEF m
    <3> QED BY <1>2, <1>4, <2>2, <3>1
  <2>6. \A k \in 1..Len(v) : v[k] = all[Len(u) + k]
    <3> TAKE k \in 1..Len(v)
    <3>1. k \in 1..Len(rest) - 1 /\ k + 1 \in 1..Len(rest) /\ m + (k + 1) = Len(u) + k
      BY <1>3, <2>2, <2>3
    <3> HIDE DEF m
    <3>2. v[k] = rest[k + 1] /\ rest[k + 1] = all[m + (k + 1)]
      BY <1>2, <2>3, <3>1
    <3> QED BY <3>1, <3>2, Zenon
  <2> QED BY <2>3, <2>4, <2>5, <2>6, Zenon DEF AtPlace, u, v, all, T
<1>10. ASSUME s = <<>> PROVE c \notin {Comment, Space, Newline}
  <2>1. m = 0
    BY <1>10
  <2>2. c = line[1] /\ c # Newline
    BY <1>1, <1>5, <2>1
  <2> QED BY <1>1, <2>2
<1> QED BY <1>4, <1>7, <1>8, <1>9, <1>10 DEF line

(* The first call on a file that was written. *)
FirstCall(c, rest, id, bytes) ==
    /\ c.kind \in {"key", "pf"} /\ ~c.copy /\ c.at \in {"reading", "line", "returned"}
    /\ c.kind = "key" => Len(bytes) = KeyLen
    /\ c.at = "reading" => AtPlace(c.line, rest, id, bytes) /\ c.rc = 0 /\ c.ns = 0
    /\ c.at = "line" => c.line = WrittenLine(id, bytes) /\ c.rc = 1
    /\ c.at = "returned" /\ ~c.oom /\ bytes # <<>> /\ (c.kind = "key" => Len(id) <= MaxIdentity) =>
         c.rc = 1 /\ c.result = <<id, bytes>>
ReadBack(c, rest, id, bytes) ==
    /\ c.at = "idle" => c = Idle /\ rest = Line(id, bytes)
    /\ c.at # "idle" /\ c.row = 0 => FirstCall(c, rest, id, bytes)
WrittenInv ==
    ahead.is => /\ ahead.id \in Identities /\ ahead.bytes \in PassPhrases
                /\ ReadBack(conf, ahead.text, ahead.id, ahead.bytes)

LEMMA WrittenFollows == ASSUME WrittenInv PROVE WrittenIsRead
<1> SUFFICES ASSUME ahead.is, conf.at = "returned", ~conf.oom, conf.row = 0, ahead.bytes # <<>>,
                    conf.kind = "key" => Len(ahead.id) <= MaxIdentity
             PROVE  conf.rc = 1 /\ conf.result = <<ahead.id, ahead.bytes>>
  BY DEF WrittenIsRead
<1>1. FirstCall(conf, ahead.text, ahead.id, ahead.bytes)
  BY DEF WrittenInv, ReadBack
<1> QED BY <1>1, Zenon DEF FirstCall

LEMMA WrittenInit == ConfInit => WrittenInv
BY DEF ConfInit, NotWritten, WrittenInv

LEMMA AheadGoesOn ==
    ASSUME FileTypes, ahead.is, NEW c, Getc(c)
    PROVE  /\ ahead'.is /\ ahead'.id = ahead.id /\ ahead'.bytes = ahead.bytes
           /\ ahead.text # <<>> => c = Head(ahead.text)
           /\ ahead.text # <<>> /\ c # EOF => ahead'.text = Tail(ahead.text)
BY DEF FileTypes, Getc

(* What a step keeps of a call. *)
LEMMA SameCall ==
    ASSUME ConfIsRecord,
           ReadStep \/ I2ReadConfVar \/ I2ParseKeyFile \/ I2ParsePFFile \/ OutOfResultMemory
    PROVE  /\ conf'.row = conf.row /\ conf'.kind = conf.kind /\ conf'.copy = conf.copy
           /\ conf.at # "idle" /\ conf'.at # "idle"
           /\ (\E c : Getc(c)) \/ ahead' = ahead
<1>1. CASE ReadStep
  <2>1. \E c : Getc(c)
    BY <1>1, Zenon
       DEF ReadStep, EndLine, StartComment, InComment, LeadingSpace, Indented, CopyChar,
           OutOfLineMemory, StartEscape, Continuation, BadEscape, EndFile
  <2>2. conf.at # "idle"
    BY <1>1
       DEF ReadStep, EndLine, StartComment, InComment, LeadingSpace, Indented, CopyChar,
           OutOfLineMemory, StartEscape, Continuation, BadEscape, EndFile
  <2>3. \E place, rc, line, ns, tofp, failed :
          place # "idle" /\ Became(place, rc, line, ns, tofp, conf.result, failed)
    <3>1. CASE EndLine
      <4>1. CASE conf.line # <<>>
        <5>1. Became("line", conf.rc + 1, conf.line, conf.ns, conf.tofp, conf.result, conf.oom)
          BY <3>1, <4>1 DEF EndLine, Became, ConfIsRecord
        <5> QED BY <5>1
      <4>2. CASE conf.line = <<>>
        <5> DEFINE tofp == Copied(<<Newline>>)
        <5>1. conf' = [conf EXCEPT !.rc = conf.rc + 1, !.ns = 0, !.tofp = tofp]
          BY <3>1, <4>2 DEF EndLine
        <5> HIDE DEF tofp
        <5>2. Became(conf.at, conf.rc + 1, conf.line, 0, tofp, conf.result, conf.oom)
          BY <5>1 DEF Became, ConfIsRecord
        <5> QED BY <2>2, <5>2
      <4> QED BY <4>1, <4>2
    <3>2. CASE StartComment
      <4>1. \E tofp : conf' = [conf EXCEPT !.at = "comment", !.tofp = tofp]
        BY <3>2 DEF StartComment
      <4>2. PICK tofp : conf' = [conf EXCEPT !.at = "comment", !.tofp = tofp]
        BY <4>1
      <4>3. Became("comment", conf.rc, conf.line, conf.ns, tofp, conf.result, conf.oom)
        BY <4>2 DEF Became, ConfIsRecord
      <4> QED BY <4>3
    <3>3. CASE InComment
      <4>1. \E tofp, place, rc : /\ place # "idle"
                                 /\ conf' = [conf EXCEPT !.tofp = tofp, !.at = place, !.rc = rc]
        BY <2>2, <3>3 DEF InComment
      <4>2. PICK tofp, place, rc : /\ place # "idle"
                                   /\ conf' = [conf EXCEPT !.tofp = tofp, !.at = place, !.rc = rc]
        BY <4>1
      <4>3. Became(place, rc, conf.line, conf.ns, tofp, conf.result, conf.oom)
        BY <4>2 DEF Became, ConfIsRecord
      <4> QED BY <4>2, <4>3
    <3>4. CASE LeadingSpace
      <4>1. \E ns : conf' = [conf EXCEPT !.ns = ns]
        BY <3>4 DEF LeadingSpace
      <4>2. PICK ns : conf' = [conf EXCEPT !.ns = ns]
        BY <4>1
      <4>3. Became(conf.at, conf.rc, conf.line, ns, conf.tofp, conf.result, conf.oom)
        BY <4>2 DEF Became, ConfIsRecord
      <4> QED BY <2>2, <4>3
    <3>5. CASE CopyChar
      <4>1. \E line : conf' = [conf EXCEPT !.line = line]
        BY <3>5 DEF CopyChar
      <4>2. PICK line : conf' = [conf EXCEPT !.line = line]
        BY <4>1
      <4>3. Became(conf.at, conf.rc, line, conf.ns, conf.tofp, conf.result, conf.oom)
        BY <4>2 DEF Became, ConfIsRecord
      <4> QED BY <2>2, <4>3
    <3>6. CASE Indented \/ BadEscape \/ (EndFile /\ conf.line = <<>>)
      <4>1. \E rc : conf' = [conf EXCEPT !.at = "returned", !.rc = rc]
        BY <3>6 DEF Indented, BadEscape, EndFile, ReturnRow
      <4>2. PICK rc : conf' = [conf EXCEPT !.at = "returned", !.rc = rc]
        BY <4>1
      <4>3. Became("returned", rc, conf.line, conf.ns, conf.tofp, conf.result, conf.oom)
        BY <4>2 DEF Became, ConfIsRecord
      <4> QED BY <4>3
    <3>7. CASE OutOfLineMemory
      <4>1. Became("returned", -conf.rc, <<>>, conf.ns, conf.tofp, conf.result, TRUE)
        BY <3>7 DEF OutOfLineMemory, Became, ConfIsRecord
      <4> QED BY <4>1
    <3>8. CASE StartEscape
      <4>1. Became("escape", conf.rc, conf.line, conf.ns, conf.tofp, conf.result, conf.oom)
        BY <3>8 DEF StartEscape, Became, ConfIsRecord
      <4> QED BY <4>1
    <3>9. CASE Continuation
      <4>1. Became("reading", conf.rc + 1, conf.line, conf.ns, conf.tofp, conf.result, conf.oom)
        BY <3>9 DEF Continuation, Became, ConfIsRecord
      <4> QED BY <4>1
    <3>10. CASE EndFile /\ conf.line # <<>>
      <4>1. Became("line", conf.rc + 1, conf.line, conf.ns, conf.tofp, conf.result, conf.oom)
        BY <3>10 DEF EndFile, Became, ConfIsRecord
      <4> QED BY <4>1
    <3> QED BY <1>1, <3>1, <3>2, <3>3, <3>4, <3>5, <3>6, <3>7, <3>8, <3>9, <3>10 DEF ReadStep
  <2>4. PICK place, rc, line, ns, tofp, failed :
          place # "idle" /\ Became(place, rc, line, ns, tofp, conf.result, failed)
    BY <2>3
  <2>5. /\ conf'.row = conf.row /\ conf'.kind = conf.kind /\ conf'.copy = conf.copy
        /\ conf'.at = place
    BY <2>4 DEF Became
  <2> QED BY <2>1, <2>2, <2>4, <2>5
<1>2. CASE I2ReadConfVar \/ I2ParseKeyFile \/ I2ParsePFFile \/ OutOfResultMemory
  <2>1. conf.at = "line" /\ ahead' = ahead
    BY <1>2 DEF I2ReadConfVar, I2ParseKeyFile, I2ParsePFFile, OutOfResultMemory
  <2>2. \/ \E record : conf' = Result(record)
        \/ conf' = CopyLine
        \/ OutOfResultMemory
    BY <1>2 DEF I2ReadConfVar, I2ParseKeyFile, I2ParsePFFile
  <2>3. /\ conf'.row = conf.row /\ conf'.kind = conf.kind /\ conf'.copy = conf.copy
        /\ conf'.at \in {"returned", "reading"}
    <3>1. CASE \E record : conf' = Result(record)
      BY <3>1 DEF Result, ConfIsRecord
    <3>2. CASE conf' = CopyLine
      <4>1. \E tofp : conf' = [conf EXCEPT !.at = "reading", !.line = <<>>, !.ns = 0, !.tofp = tofp]
        BY <3>2 DEF CopyLine
      <4> QED BY <4>1 DEF ConfIsRecord
    <3>3. CASE OutOfResultMemory
      BY <3>3 DEF OutOfResultMemory, ConfIsRecord
    <3> QED BY <2>2, <3>1, <3>2, <3>3
  <2> QED BY <2>1, <2>3
<1> QED BY <1>1, <1>2

LEMMA StaysWritten ==
    ASSUME ahead'.is, ahead'.id = ahead.id, ahead'.bytes = ahead.bytes,
           ahead.id \in Identities, ahead.bytes \in PassPhrases, conf'.at # "idle",
           conf'.row = 0 => FirstCall(conf', ahead'.text, ahead.id, ahead.bytes)
    PROVE  WrittenInv'
<1>1. ReadBack(conf', ahead'.text, ahead.id, ahead.bytes)
  BY DEF ReadBack
<1>2. ReadBack(conf', ahead'.text, ahead'.id, ahead'.bytes)
  BY <1>1, Zenon
<1> QED BY <1>2 DEF WrittenInv

LEMMA ReadingKeepsPlace ==
    ASSUME ConfTypes, WrittenInv, ahead.is, ReadStep
    PROVE  WrittenInv'
<1> DEFINE id == ahead.id
           bytes == ahead.bytes
           rest == ahead.text
<1>0. /\ ConfIsRecord /\ FileTypes /\ conf.line \in Seq(LineChar)
      /\ id \in Identities /\ bytes \in PassPhrases
      /\ ReadBack(conf, rest, id, bytes)
  BY DEF ConfTypes, CallTypes, WrittenInv
<1>1. /\ conf'.row = conf.row /\ conf'.kind = conf.kind /\ conf'.copy = conf.copy
      /\ conf.at # "idle" /\ conf'.at # "idle"
  BY <1>0, SameCall
<1>2. ASSUME NEW c, Getc(c)
      PROVE  /\ ahead'.is /\ ahead'.id = id /\ ahead'.bytes = bytes
             /\ rest # <<>> => c = Head(rest)
             /\ rest # <<>> /\ c # EOF => ahead'.text = Tail(rest)
  BY <1>0, <1>2, AheadGoesOn
<1>3. PICK d : Getc(d)
  BY Zenon
     DEF ReadStep, EndLine, StartComment, InComment, LeadingSpace, Indented, CopyChar,
         OutOfLineMemory, StartEscape, Continuation, BadEscape, EndFile
<1>4. ahead'.is /\ ahead'.id = id /\ ahead'.bytes = bytes
  BY <1>2, <1>3
<1>5. ASSUME conf.row = 0 PROVE FirstCall(conf', ahead'.text, id, bytes)
  <2>1. FirstCall(conf, rest, id, bytes)
    BY <1>0, <1>1, <1>5 DEF ReadBack
  <2>2. conf.at = "reading"
    BY <2>1 DEF FirstCall, ReadStep, EndLine, StartComment, InComment, LeadingSpace, Indented,
                CopyChar, OutOfLineMemory, StartEscape, Continuation, BadEscape, EndFile
  <2>3. /\ conf.kind \in {"key", "pf"} /\ ~conf.copy /\ (conf.kind = "key" => Len(bytes) = KeyLen)
        /\ AtPlace(conf.line, rest, id, bytes) /\ conf.rc = 0 /\ conf.ns = 0
    BY <2>1, <2>2 DEF FirstCall
  <2>4. conf'.kind = conf.kind /\ conf'.copy = conf.copy
    BY <1>1
  <2> HIDE DEF id, bytes, rest
  <2>5. ASSUME NEW c, Getc(c)
        PROVE  /\ c # EOF /\ ahead'.text = Tail(rest)
               /\ c = Newline => conf.line = WrittenLine(id, bytes) /\ conf.line # <<>>
               /\ c # Newline /\ c \in LineChar =>
                    AtPlace(Append(conf.line, c), Tail(rest), id, bytes)
               /\ conf.line = <<>> => c \notin {Comment, Space, Newline}
    <3>1. rest # <<>> => c = Head(rest)
      BY <1>2, <2>5
    <3>2. /\ rest # <<>> /\ c # EOF
          /\ c = Newline => conf.line = WrittenLine(id, bytes) /\ conf.line # <<>>
          /\ c # Newline /\ c \in LineChar => AtPlace(Append(conf.line, c), Tail(rest), id, bytes)
          /\ conf.line = <<>> => c \notin {Comment, Space, Newline}
      BY <1>0, <2>3, <3>1, PlaceNext
    <3>3. ahead'.text = Tail(rest)
      BY <1>2, <2>5, <3>2
    <3> QED BY <3>2, <3>3
  <2>6. CASE EndLine
    <3>1. Getc(Newline)
      BY <2>6 DEF EndLine
    <3>2. conf.line = WrittenLine(id, bytes) /\ conf.line # <<>>
      BY <2>5, <3>1
    <3>3. conf' = [conf EXCEPT !.rc = conf.rc + 1, !.at = "line"]
      BY <2>6, <3>2 DEF EndLine
    <3>4. conf'.at = "line" /\ conf'.rc = 1 /\ conf'.line = conf.line
      BY <1>0, <2>3, <3>3 DEF ConfIsRecord
    <3> QED BY <2>3, <2>4, <3>2, <3>4 DEF FirstCall
  <2>7. CASE CopyChar
    <3>1. PICK c \in CharsOf(conf.kind) \cup Hex :
             Plain(c) /\ Getc(c) /\ conf' = [conf EXCEPT !.line = Append(conf.line, c)]
      BY <2>7 DEF CopyChar
    <3>2. c # Newline /\ c \in LineChar
      BY <3>1, Distinct DEF Plain, LineChar
    <3> DEFINE longer == Append(conf.line, c)
    <3>3. AtPlace(longer, ahead'.text, id, bytes)
      BY <2>5, <3>1, <3>2
    <3>4. conf' = [conf EXCEPT !.line = longer]
      BY <3>1
    <3> HIDE DEF longer
    <3>5. conf'.at = "reading" /\ conf'.rc = 0 /\ conf'.ns = 0 /\ conf'.line = longer
      BY <1>0, <2>2, <2>3, <3>4 DEF ConfIsRecord
    <3> QED BY <2>3, <2>4, <3>3, <3>5 DEF FirstCall
  <2>8. CASE OutOfLineMemory
    <3>1. conf'.at = "returned" /\ conf'.oom
      BY <1>0, <2>8 DEF OutOfLineMemory, ConfIsRecord
    <3> QED BY <2>3, <2>4, <3>1 DEF FirstCall
  <2>9. ~StartComment /\ ~LeadingSpace
    BY <2>5 DEF StartComment, LeadingSpace
  <2>10. ~InComment /\ ~Continuation /\ ~BadEscape /\ ~StartEscape /\ ~Indented
    BY <2>2, <2>3 DEF InComment, Continuation, BadEscape, StartEscape, Indented
  <2>11. ~EndFile
    BY <2>5 DEF EndFile
  <2> QED BY <2>6, <2>7, <2>8, <2>9, <2>10, <2>11 DEF ReadStep
<1> QED BY <1>0, <1>1, <1>4, <1>5, StaysWritten

LEMMA ParsingReadsBack ==
    ASSUME ConfTypes, WrittenInv, ahead.is,
           I2ReadConfVar \/ I2ParseKeyFile \/ I2ParsePFFile \/ OutOfResultMemory
    PROVE  WrittenInv'
<1> DEFINE id == ahead.id
           bytes == ahead.bytes
           line == WrittenLine(id, bytes)
<1>0. /\ ConfIsRecord /\ id \in Identities /\ bytes \in PassPhrases
      /\ ReadBack(conf, ahead.text, id, bytes)
  BY DEF ConfTypes, CallTypes, WrittenInv
<1>1. /\ conf'.row = conf.row /\ conf'.kind = conf.kind /\ conf'.copy = conf.copy
      /\ conf.at # "idle" /\ conf'.at # "idle"
  BY <1>0, SameCall
<1>2. ahead' = ahead /\ conf.at = "line"
  BY DEF I2ReadConfVar, I2ParseKeyFile, I2ParsePFFile, OutOfResultMemory
<1>3. ASSUME conf.row = 0 PROVE FirstCall(conf', ahead'.text, id, bytes)
  <2>1. FirstCall(conf, ahead.text, id, bytes)
    BY <1>0, <1>1, <1>3 DEF ReadBack
  <2> HIDE DEF id, bytes
  <2>2. /\ conf.kind \in {"key", "pf"} /\ ~conf.copy /\ (conf.kind = "key" => Len(bytes) = KeyLen)
        /\ conf.line = line /\ conf.rc = 1
    BY <1>2, <2>1 DEF FirstCall
  <2>3. bytes # <<>> => /\ PFOf(line) = <<id, bytes>>
                        /\ Len(bytes) = KeyLen /\ Len(id) <= MaxIdentity =>
                             KeyOf(line) = <<id, bytes>>
    BY <1>0, WrittenParses
  <2> HIDE DEF line
  <2>4. ASSUME NEW record, conf' = Result(record)
        PROVE  /\ conf'.at = "returned"
               /\ record # <<>> => conf'.rc = 1 /\ conf'.result = record
    BY <1>0, <2>2, <2>4 DEF Result, ConfIsRecord
  <2>5. <<id, bytes>> # <<>>
    OBVIOUS
  <2>6. CASE I2ReadConfVar
    BY <2>2, <2>6 DEF I2ReadConfVar
  <2>7. CASE I2ParseKeyFile
    <3>1. conf' = Result(KeyOf(line)) /\ conf.kind = "key"
      BY <2>2, <2>7 DEF I2ParseKeyFile
    <3>2. conf'.at = "returned"
      BY <2>4, <3>1
    <3>3. bytes # <<>> /\ Len(id) <= MaxIdentity => conf'.rc = 1 /\ conf'.result = <<id, bytes>>
      <4> SUFFICES ASSUME bytes # <<>>, Len(id) <= MaxIdentity
                   PROVE  conf'.rc = 1 /\ conf'.result = <<id, bytes>>
        OBVIOUS
      <4>1. KeyOf(line) = <<id, bytes>>
        BY <2>2, <2>3, <3>1
      <4> QED BY <2>4, <2>5, <3>1, <4>1, Zenon
    <3> QED BY <1>1, <2>2, <3>1, <3>2, <3>3, Zenon DEF FirstCall
  <2>8. CASE I2ParsePFFile
    <3>1. conf' = Result(PFOf(line)) /\ conf.kind = "pf"
      BY <2>2, <2>8 DEF I2ParsePFFile
    <3>2. conf'.at = "returned"
      BY <2>4, <3>1
    <3>3. bytes # <<>> => conf'.rc = 1 /\ conf'.result = <<id, bytes>>
      <4> SUFFICES ASSUME bytes # <<>> PROVE conf'.rc = 1 /\ conf'.result = <<id, bytes>>
        OBVIOUS
      <4>1. PFOf(line) = <<id, bytes>>
        BY <2>3
      <4> QED BY <2>4, <2>5, <3>1, <4>1, Zenon
    <3> QED BY <1>1, <2>2, <3>1, <3>2, <3>3, Zenon DEF FirstCall
  <2>9. CASE OutOfResultMemory
    <3>1. conf'.at = "returned" /\ conf'.oom
      BY <1>0, <2>9 DEF OutOfResultMemory, ConfIsRecord
    <3> QED BY <1>1, <2>2, <3>1 DEF FirstCall
  <2> QED BY <2>6, <2>7, <2>8, <2>9
<1> QED BY <1>0, <1>1, <1>2, <1>3, StaysWritten

LEMMA CallStartsPlace ==
    ASSUME ConfTypes, WrittenInv, ahead.is, CallParser
    PROVE  WrittenInv'
<1> DEFINE id == ahead.id
           bytes == ahead.bytes
<1>0. /\ ConfIsRecord /\ id \in Identities /\ bytes \in PassPhrases
      /\ ReadBack(conf, ahead.text, id, bytes)
  BY DEF ConfTypes, CallTypes, WrittenInv
<1>1. PICK kind \in Kinds, copy \in BOOLEAN :
        /\ conf = Idle => kind # "conf"
        /\ conf # Idle => copy = conf.copy
        /\ ~copy /\ (kind = "key" => Len(bytes) = KeyLen)
        /\ conf' = [Idle EXCEPT !.kind = kind, !.copy = copy, !.at = "reading",
                                !.row = conf.rc, !.rc = conf.rc]
  BY Zenon DEF CallParser
<1>a. /\ ahead' = ahead
      /\ conf = Idle \/ conf.rc > 0 \/ (conf # Idle /\ conf.copy)
  BY DEF CallParser, Idle
<1>2. /\ conf'.kind = kind /\ conf'.copy = copy /\ conf'.at = "reading" /\ conf'.row = conf.rc
      /\ conf'.rc = conf.rc /\ conf'.line = <<>> /\ conf'.ns = 0
  BY <1>0, <1>1 DEF Idle
<1>3. ASSUME conf'.row = 0 PROVE FirstCall(conf', ahead'.text, id, bytes)
  <2>1. conf = Idle /\ kind \in {"key", "pf"}
    BY <1>1, <1>a, <1>2, <1>3 DEF Kinds
  <2>2. ahead.text = Line(id, bytes)
    BY <1>0, <2>1 DEF ReadBack, Idle
  <2> HIDE DEF id, bytes
  <2>3. AtPlace(conf'.line, ahead'.text, id, bytes)
    BY <1>0, <1>1, <1>a, <1>2, <2>2, PlaceStarts, Zenon
  <2> QED BY <1>1, <1>2, <1>3, <2>1, <2>3 DEF FirstCall
<1> QED BY <1>0, <1>1, <1>a, <1>2, <1>3, StaysWritten

LEMMA WrittenStep == ConfTypes /\ WrittenInv /\ [ConfNext]_confVars => WrittenInv'
<1> SUFFICES ASSUME ConfTypes, WrittenInv, [ConfNext]_confVars PROVE WrittenInv'
  OBVIOUS
<1>1. CASE WriteLine
  <2>1. PICK id \in Identities, bytes \in PassPhrases :
          ahead' = [is |-> TRUE, text |-> Line(id, bytes), id |-> id, bytes |-> bytes]
    BY <1>1 DEF WriteLine
  <2>2. ahead'.is /\ ahead'.id = id /\ ahead'.bytes = bytes /\ ahead'.text = Line(id, bytes)
    BY <2>1
  <2>3. conf' = Idle
    BY <1>1 DEF WriteLine
  <2>4. ReadBack(conf', ahead'.text, ahead'.id, ahead'.bytes)
    BY <2>2, <2>3 DEF ReadBack, Idle
  <2> QED BY <2>2, <2>4 DEF WrittenInv
<1>2. CASE StrTo \/ UNCHANGED confVars
  <2>1. conf' = conf /\ ahead' = ahead
    BY <1>2 DEF StrTo, confVars
  <2> QED BY <2>1 DEF WrittenInv
<1>3. CASE ~ahead.is /\ ~WriteLine
  <2>1. ASSUME NEW c, Getc(c) PROVE ahead' = ahead
    BY <1>3, <2>1 DEF Getc
  <2>2. ahead' = ahead
    <3>1. CASE ReadStep
      BY <2>1, <3>1, Zenon
         DEF ReadStep, EndLine, StartComment, InComment, LeadingSpace, Indented, CopyChar,
             OutOfLineMemory, StartEscape, Continuation, BadEscape, EndFile
    <3>2. CASE \/ CallParser \/ I2ReadConfVar \/ I2ParseKeyFile \/ I2ParsePFFile
               \/ OutOfResultMemory \/ StrTo \/ UNCHANGED confVars
      BY <3>2, Zenon
         DEF CallParser, I2ReadConfVar, I2ParseKeyFile, I2ParsePFFile, OutOfResultMemory,
             StrTo, confVars
    <3> QED BY <1>3, <3>1, <3>2 DEF ConfNext
  <2> QED BY <1>3, <2>2 DEF WrittenInv
<1> QED BY <1>1, <1>2, <1>3, ReadingKeepsPlace, ParsingReadsBack, CallStartsPlace DEF ConfNext

(* A key or pass-phrase that I2WriteKeyLine or I2WritePFLine wrote is what          *)
(* I2ParseKeyFile or I2ParsePFFile gives back (conf.c, hex.c), for names and bytes *)
(* of any length that the formats allow.                                          *)
THEOREM WritingIsRead == ConfSpec => []WrittenIsRead
<1>1. ConfInit => ConfTypes /\ WrittenInv
  BY ConfTypesHold, WrittenInit
<1>2. ConfTypes /\ WrittenInv /\ [ConfNext]_confVars => (ConfTypes /\ WrittenInv)'
  BY ConfTypesStep, WrittenStep
<1>3. ConfTypes /\ WrittenInv => WrittenIsRead
  BY WrittenFollows
<1> QED BY <1>1, <1>2, <1>3, PTL DEF ConfSpec

-----------------------------------------------------------------------------
(*                          The parts together                             *)

LEMMA StepOfParts ==
    ASSUME [LibNext]_libVars
    PROVE  /\ [IONext]_ioVars /\ [PromptNext]_promptVars
           /\ [DigestNext]_digestVars /\ [ConfNext]_confVars
<1>1. CASE IOOnly /\ IONext
  BY <1>1 DEF IOOnly
<1>2. CASE PromptOnly /\ PromptNext
  BY <1>2 DEF PromptOnly
<1>3. CASE DigestOnly /\ DigestNext
  BY <1>3 DEF DigestOnly
<1>4. CASE ConfOnly /\ ConfNext
  BY <1>4 DEF ConfOnly
<1>5. CASE UNCHANGED libVars
  BY <1>5 DEF libVars
<1> QED BY <1>1, <1>2, <1>3, <1>4, <1>5 DEF LibNext

(* The library implements each of its parts alone: no part reads or writes  *)
(* what another keeps.                                                      *)
THEOREM PartsAlone == LibSpec => IOSpec /\ PromptSpec /\ DigestSpec /\ ConfSpec
<1>1. LibInit => IOInit /\ PromptInit /\ DigestInit /\ ConfInit
  BY DEF LibInit
<1>2. [LibNext]_libVars => /\ [IONext]_ioVars /\ [PromptNext]_promptVars
                           /\ [DigestNext]_digestVars /\ [ConfNext]_confVars
  BY StepOfParts
<1> QED BY <1>1, <1>2, PTL DEF LibSpec, IOSpec, PromptSpec, DigestSpec, ConfSpec

(* The variables of all parts keep their types, whichever part is used.     *)
THEOREM LibTyped == LibSpec => []LibTypeOK
<1> DEFINE InUse == inUse \in {"io", "prompt", "digest", "conf"}
<1>1. LibInit => InUse
  BY DEF LibInit
<1>2. InUse /\ [LibNext]_libVars => InUse'
  BY DEF LibNext, libVars, IOOnly, PromptOnly, DigestOnly, ConfOnly
<1>3. InUse /\ IOTypeOK /\ PromptTypeOK /\ DigestTypeOK /\ ConfTypeOK => LibTypeOK
  BY DEF LibTypeOK
<1> HIDE DEF InUse
<1> QED BY <1>1, <1>2, <1>3, PartsAlone, TransfersTyped, PromptTyped, DigestTyped, ParsersTyped, PTL
        DEF LibSpec
=============================================================================

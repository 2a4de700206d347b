------------------------------- MODULE Format -------------------------------
(***************************************************************************)
(* The formatting of one message (spdlog/fmt/bundled/format.h): a format   *)
(* string with replacement fields is parsed from left to right and each    *)
(* field writes one argument.                                              *)
(*                                                                         *)
(* A string is a sequence of one-character strings.  An argument is a      *)
(* record of its type and value; the value of a string is the sequence of  *)
(* its characters, that of a C string may also be Null.  Floating-point    *)
(* numbers, pointers, named arguments and arguments of user types, none of *)
(* which the program logs, are left out.                                   *)
(***************************************************************************)
EXTENDS Integers, SequencesExt

CONSTANTS
  MaxInt,     \* numeric_limits<int>::max()
  Separator   \* the thousands separator of the locale

ASSUME FormatAssumption == MaxInt \in Nat /\ MaxInt >= 9

End == ""     \* the zero byte after the last character
Null == <<"null pointer">>
Hole == "?"   \* a place of the buffer that is not written yet

DigitOf == [c \in {"0", "1", "2", "3", "4", "5", "6", "7", "8", "9"} |->
              CHOOSE d \in 0..9 : c = ToString(d)]
Letters ==
  {"a", "b", "c", "d", "e", "f", "g", "h", "i", "j", "k", "l", "m", "n", "o", "p", "q", "r", "s",
   "t", "u", "v", "w", "x", "y", "z", "B", "X", "_"}  \* and the other capitals
IsDigit(c) == c \in DOMAIN DigitOf
IsNameStart(c) == c \in Letters

IntTypes == {"INT", "UINT", "LONG_LONG", "ULONG_LONG"}
IsInteger(a) == a.type \in IntTypes \cup {"BOOL", "CHAR"}
IsNumeric(a) == IsInteger(a)  \* and the floating-point types
IsUnsigned(a) == a.type \in {"UINT", "ULONG_LONG"}

Copies(c, n) == [i \in 1..n |-> c]
-----------------------------------------------------------------------------
(* The parser.  p.at is the next character, p.next the next argument (-1     *)
(* after a field that names one), p.got the argument that was got last,      *)
(* p.error that an exception is thrown.                                      *)

NoArg == [type |-> "NONE", value |-> Null]

DefaultSpec ==
  [align |-> "default", fill |-> " ", flags |-> {}, width |-> 0, precision |-> -1,
   type |-> End]

Parser(fmt, args) ==
  [fmt |-> fmt, args |-> args, at |-> 1, next |-> 0, got |-> NoArg,
   spec |-> DefaultSpec, error |-> FALSE]

CharAt(p, i) == IF i <= Len(p.fmt) THEN p.fmt[i] ELSE End
Char(p) == CharAt(p, p.at)
Skip(p, n) == [p EXCEPT !.at = @ + n]
Fail(p) == [p EXCEPT !.error = TRUE]
Unless(failure, p) == IF failure THEN Fail(p) ELSE p

\* The digits from p.at on.
DigitsFrom(p) ==
  SubSeq(p.fmt, p.at,
         CHOOSE n \in (p.at - 1)..Len(p.fmt) :
           /\ ~IsDigit(CharAt(p, n + 1))
           /\ \A i \in p.at..n : IsDigit(p.fmt[i]))

\* parse_nonnegative_int(): MaxInt + 1 stands for anything too big.
NonnegativeInt(digits) ==
  LET value[n \in 0..Len(digits)] ==
        IF n = 0 THEN 0
        ELSE IF value[n - 1] > MaxInt \div 10 THEN MaxInt + 1
        ELSE value[n - 1] * 10 + DigitOf[digits[n]]
  IN  value[Len(digits)]

\* do_get_arg()
DoGetArg(p, i) ==
  IF i < Len(p.args) THEN [p EXCEPT !.got = p.args[i + 1]] ELSE Fail(p)

NextArg(p) ==
  IF p.next >= 0 THEN [DoGetArg(p, p.next) EXCEPT !.next = @ + 1] ELSE Fail(p)

GetArg(p, i) ==
  IF p.next > 0 THEN Fail(p) ELSE [DoGetArg(p, i) EXCEPT !.next = -1]

\* parse_arg_index(): no index is the next one.
ParseArgIndex(p) ==
  IF ~IsDigit(Char(p)) THEN NextArg(p)
  ELSE LET digits == DigitsFrom(p)
           i == NonnegativeInt(digits)
       IN  IF i > MaxInt THEN Fail(p) ELSE GetArg(Skip(p, Len(digits)), i)

\* parse_arg_name(): no argument has a name.
ParseArgName(p) == Fail(p)

ParseArg(p) == IF IsNameStart(Char(p)) THEN ParseArgName(p) ELSE ParseArgIndex(p)

\* "width" or "precision": a number, or a field of its own that gives it.
ParseCount(p, part) ==
  IF IsDigit(Char(p))
  THEN LET digits == DigitsFrom(p)
           n == NonnegativeInt(digits)
       IN  Unless(n > MaxInt, Skip([p EXCEPT !.spec[part] = n], Len(digits)))
  ELSE LET q == ParseArg(Skip(p, 1))
       IN  IF q.error \/ Char(q) # "}" \/ q.got.type \notin IntTypes THEN Fail(q)
           ELSE IF q.got.value \notin 0..MaxInt THEN Fail(q)
           ELSE Skip([q EXCEPT !.spec[part] = q.got.value, !.got = p.got], 1)
-----------------------------------------------------------------------------
(* The parts of a format specification, in their order.  p.got is the        *)
(* argument that will be written.                                            *)

AlignOf ==
  [c \in {"<", ">", "=", "^"} |-> CASE c = "<" -> "left" [] c = ">" -> "right"
                                    [] c = "=" -> "numeric" [] c = "^" -> "center"]

\* A fill is a character that an alignment follows; of "}" only the alignment
\* is kept.
ParseAlign(p) ==
  LET c == Char(p)
      Aligned(q, sign) ==
        Unless(sign = "=" /\ ~IsNumeric(p.got), [q EXCEPT !.spec.align = AlignOf[sign]])
  IN  IF c # End /\ CharAt(p, p.at + 1) \in DOMAIN AlignOf
      THEN LET sign == CharAt(p, p.at + 1)
           IN  IF c = "}" THEN [p EXCEPT !.spec.align = AlignOf[sign]]
               ELSE IF c = "{" THEN Fail(p)
               ELSE Aligned([Skip(p, 2) EXCEPT !.spec.fill = c], sign)
      ELSE IF c \in DOMAIN AlignOf THEN Aligned(Skip(p, 1), c)
      ELSE p

FlagsOf ==
  [c \in {"+", "-", " "} |-> CASE c = "+" -> {"sign", "plus"} [] c = "-" -> {"minus"}
                               [] c = " " -> {"sign"}]

ParseSign(p) ==
  IF Char(p) \notin DOMAIN FlagsOf THEN p
  ELSE Unless(~IsNumeric(p.got) \/ IsUnsigned(p.got),
              Skip([p EXCEPT !.spec.flags = FlagsOf[Char(p)]], 1))

ParseHash(p) ==
  IF Char(p) # "#" THEN p
  ELSE Unless(~IsNumeric(p.got), Skip([p EXCEPT !.spec.flags = @ \cup {"hash"}], 1))

\* Mutation: the zeros are filled in before the sign.
ParseZero_Fills(p) ==
  IF Char(p) # "0" THEN p
  ELSE Unless(~IsNumeric(p.got), Skip([p EXCEPT !.spec.fill = "0"], 1))

ParseZero(p) ==
  IF Char(p) # "0" THEN p
  ELSE Unless(~IsNumeric(p.got),
              Skip([p EXCEPT !.spec.align = "numeric", !.spec.fill = "0"], 1))

ParseWidth(p) ==
  IF ~IsDigit(Char(p)) /\ Char(p) # "{" THEN p
  ELSE ParseCount(p, "width")

ParsePrecision(p) ==
  IF Char(p) # "." THEN p
  ELSE IF ~IsDigit(CharAt(p, p.at + 1)) /\ CharAt(p, p.at + 1) # "{" THEN Fail(p)
  ELSE Unless(IsInteger(p.got), ParseCount(Skip(p, 1), "precision"))

ParseType(p) ==
  IF Char(p) \in {"}", End} THEN p ELSE Skip([p EXCEPT !.spec.type = Char(p)], 1)

\* What follows the argument of a field, up to its closing brace.  An error stays:
\* what is made of the parts behind it does not show.
ParseParts(p) ==
  ParseType(ParsePrecision(ParseWidth(ParseZero(ParseHash(ParseSign(ParseAlign(p)))))))

AtBrace(q) == IF q.error \/ Char(q) # "}" THEN Fail(q) ELSE Skip(q, 1)

ParseSpec(p) ==
  LET fresh == [p EXCEPT !.spec = DefaultSpec]
  IN  AtBrace(IF Char(p) # ":" THEN fresh ELSE ParseParts(Skip(fresh, 1)))
-----------------------------------------------------------------------------
(* The writer: what a field adds to the text.  Refused is an exception.      *)

Refused == <<"refused">>

Fill(spec, n) == Copies(spec.fill, n)

\* fill_padding(): the smaller half is on the left.
Centered(spec, text) ==
  LET padding == spec.width - Len(text)
      left == padding \div 2
  IN  Fill(spec, left) \o text \o Fill(spec, padding - left)

\* write_str(), and the character of visit_char()
WriteStr(text, spec) ==
  LET padding == spec.width - Len(text)
  IN  CASE padding <= 0 -> text
        [] padding > 0 /\ spec.align = "right" -> Fill(spec, padding) \o text
        [] padding > 0 /\ spec.align = "center" -> Centered(spec, text)
        [] OTHER -> text \o Fill(spec, padding)

\* write_str() of an argument: cut to the precision.
WriteString(text, spec) ==
  IF spec.type \notin {End, "s"} THEN Refused
  ELSE WriteStr(IF spec.precision \in 0..(Len(text) - 1)
                THEN SubSeq(text, 1, spec.precision) ELSE text, spec)

\* count_digits(): the power of ten is guessed from the length in bits.
BitLength(n) ==
  LET bits[k \in Nat] == IF k < 2 THEN 1 ELSE bits[k \div 2] + 1
  IN  bits[n]

\* The table POWERS_OF_10_64, which begins with 0 and not with 1.
PowerOf10(t) ==
  LET powers[k \in Nat] == IF k = 0 THEN 0 ELSE IF k = 1 THEN 10 ELSE 10 * powers[k - 1]
  IN  powers[t]

CountDigits(n) ==
  LET t == (BitLength(IF n % 2 = 0 THEN n + 1 ELSE n) * 1233) \div 4096
  IN  t - (IF n < PowerOf10(t) THEN 1 ELSE 0) + 1

\* The loops that count and write the digits of a base that is a power of two.
LengthIn(base, n) ==
  LET length[k \in Nat] == IF n \div base^k = 0 THEN k ELSE length[k + 1]
  IN  length[1]

\* prepare_int_buffer(): the number goes to the places up to "last".
PrepareIntBuffer(numDigits, spec, prefix) ==
  LET number == prefix \o Copies(Hole, numDigits)
      padding == spec.width - Len(number)
  IN  CASE padding <= 0 ->
             [text |-> number, last |-> Len(number)]
        [] padding > 0 /\ spec.align = "left" ->
             [text |-> number \o Fill(spec, padding), last |-> Len(number)]
        [] padding > 0 /\ spec.align = "center" ->
             [text |-> Centered(spec, number), last |-> padding \div 2 + Len(number)]
        [] padding > 0 /\ spec.align = "numeric" ->
             [text |-> prefix \o Fill(spec, padding) \o Copies(Hole, numDigits),
              last |-> spec.width]
        [] OTHER ->
             [text |-> Fill(spec, padding) \o number, last |-> spec.width]

\* The digits are stored one by one, from the last place backwards.
StoreBack(buffer, chars) ==
  [i \in DOMAIN buffer.text |->
     IF i > buffer.last - Len(chars) /\ i <= buffer.last
     THEN chars[buffer.last + 1 - i] ELSE buffer.text[i]]

\* The characters of n in the order in which they are stored.
LowDigits(n, base, digits) ==
  [k \in 1..LengthIn(base, n) |-> digits[((n \div base^(k - 1)) % base) + 1]]

LowerCase == <<"0", "1", "2", "3", "4", "5", "6", "7", "8", "9", "a", "b", "c", "d", "e", "f">>
UpperCase == <<"0", "1", "2", "3", "4", "5", "6", "7", "8", "9", "A", "B", "C", "D", "E", "F">>

\* The digits that format_decimal() stores, two at a time.
DecimalDigits(n) ==
  LET Digit(v) == LowerCase[(v % 10) + 1]
      low[v \in Nat] ==
        CASE v >= 100 -> <<Digit(v), Digit(v \div 10)>> \o low[v \div 100]
          [] v < 10 -> <<Digit(v)>>
          [] OTHER -> <<Digit(v), Digit(v \div 10)>>
  IN  low[n]

\* A separator follows every third digit, but not the last.
FormatDecimal(n, separator) ==
  LET digits == DecimalDigits(n)
  IN  FlattenSeq([i \in 1..Len(digits) |->
        <<digits[i]>> \o IF i % 3 = 0 /\ i < Len(digits) THEN separator ELSE <<>>])

WriteInt(value, spec) ==
  LET n == IF value < 0 THEN -value ELSE value
      sign == IF value < 0 THEN <<"-">>
              ELSE IF "sign" \in spec.flags
              THEN IF "plus" \in spec.flags THEN <<"+">> ELSE <<" ">>
              ELSE <<>>
      base == IF "hash" \in spec.flags THEN <<"0", spec.type>> ELSE <<>>
      zero == IF "hash" \in spec.flags THEN <<"0">> ELSE <<>>
      separated == CountDigits(n) + Len(Separator) * ((CountDigits(n) - 1) \div 3)
      In(b, prefix, digits) ==
        StoreBack(PrepareIntBuffer(LengthIn(b, n), spec, sign \o prefix),
                  LowDigits(n, b, digits))
  IN  CASE spec.type \in {End, "d"} ->
             StoreBack(PrepareIntBuffer(CountDigits(n), spec, sign), FormatDecimal(n, <<>>))
        [] spec.type = "x" -> In(16, base, LowerCase)
        [] spec.type = "X" -> In(16, base, UpperCase)
        [] spec.type \in {"b", "B"} -> In(2, base, LowerCase)
        [] spec.type = "o" -> In(8, zero, LowerCase)
        [] spec.type = "n" ->
             StoreBack(PrepareIntBuffer(separated, spec, sign), FormatDecimal(n, Separator))
        [] OTHER -> Refused

True == <<"t", "r", "u", "e">>
False == <<"f", "a", "l", "s", "e">>

VisitBool(value, spec) ==
  IF spec.type # End THEN WriteInt(IF value THEN 1 ELSE 0, spec)
  ELSE WriteString(IF value THEN True ELSE False, spec)

\* A character is a record of its code and what it looks like.
VisitChar(value, spec) ==
  IF spec.type \notin {End, "c"} THEN WriteInt(value.code, spec)
  ELSE IF spec.align = "numeric" \/ spec.flags # {} THEN Refused
  ELSE WriteStr(<<value.char>>, spec)

Visit(arg, spec) ==
  CASE arg.type \in IntTypes -> WriteInt(arg.value, spec)
    [] arg.type = "BOOL" -> VisitBool(arg.value, spec)
    [] arg.type = "CHAR" -> VisitChar(arg.value, spec)
    [] arg.type = "CSTRING" ->
         IF arg.value = Null THEN Refused ELSE WriteString(arg.value, spec)
    [] arg.type = "STRING" -> WriteString(arg.value, spec)
-----------------------------------------------------------------------------
(* BasicFormatter::format() *)

Thrown == [thrown |-> TRUE, text |-> <<>>]

\* The text so far and the parser behind it.
Wrote(s, p, chars) == [s EXCEPT !.parser = p, !.text = @ \o chars]
Threw(s) == [s EXCEPT !.thrown = TRUE]

\* What follows the brace of a field.
ParseBehind(arg) == IF arg.error THEN arg ELSE ParseSpec(arg)
ParseField(p) == ParseBehind(ParseArg(p))

\* The argument of the field that ends at q is written, or cannot be.
WroteShown(s, q, shown) == IF shown = Refused THEN Threw(s) ELSE Wrote(s, q, shown)
WroteField(s, q) == IF q.error THEN Threw(s) ELSE WroteShown(s, q, Visit(q.got, q.spec))

\* A character, a pair of braces or a field more.
FormatStep(s) ==
  LET p == s.parser
      c == Char(p)
      twice == CharAt(p, p.at + 1) = c
  IN  CASE s.thrown \/ c = End -> s
        [] ~s.thrown /\ c \notin {"{", "}", End} -> Wrote(s, Skip(p, 1), <<c>>)
        [] ~s.thrown /\ c \in {"{", "}"} /\ twice -> Wrote(s, Skip(p, 2), <<c>>)
        [] ~s.thrown /\ c = "}" /\ ~twice -> Threw(s)
        [] OTHER -> WroteField(s, ParseField(Skip(p, 1)))

Outcome(last) == IF last.thrown THEN Thrown ELSE [thrown |-> FALSE, text |-> last.text]

\* Every step reads one character or more.
Formatted(fmt, args) ==
  LET after[n \in 0..Len(fmt)] ==
        IF n = 0 THEN [parser |-> Parser(fmt, args), text |-> <<>>, thrown |-> FALSE]
        ELSE FormatStep(after[n - 1])
  IN  Outcome(after[Len(fmt)])
=============================================================================

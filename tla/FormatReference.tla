-------------------------- MODULE FormatReference --------------------------
(***************************************************************************)
(* What a format string means, read off its parts instead of its           *)
(* characters: a format is a sequence of parts, each a text or a field,    *)
(* Spelled as the program would write it; or a mistake, which is not the   *)
(* spelling of anything.                                                   *)
(***************************************************************************)
EXTENDS Format

TextPart(chars) == [kind |-> "text", chars |-> chars]
Mistake(chars) == [kind |-> "mistake", chars |-> chars]

\* index = -1: the next argument; width = -1, precision = -1, "" or FALSE: not
\* given; nested: the width is an argument.
Plain ==
  [kind |-> "field", index |-> -1, fill |-> "", align |-> "", sign |-> "", hash |-> FALSE,
   zero |-> FALSE, width |-> -1, nested |-> FALSE, precision |-> -1, type |-> ""]

Given(c) == IF c = "" THEN <<>> ELSE <<c>>
If(condition, chars) == IF condition THEN chars ELSE <<>>
Number(n) == IF n < 0 THEN <<>> ELSE FormatDecimal(n, <<>>)

\* The characters of a number are stored from the last one on.
Spelled(part) ==
  CASE part.kind = "mistake" -> part.chars
    [] part.kind = "text" ->
       FlattenSeq([i \in DOMAIN part.chars |->
         IF part.chars[i] \in {"{", "}"} THEN <<part.chars[i], part.chars[i]>>
         ELSE <<part.chars[i]>>])
    [] part.kind = "field" ->
       LET spec == Given(part.fill) \o Given(part.align) \o Given(part.sign)
                   \o If(part.hash, <<"#">>) \o If(part.zero, <<"0">>)
                   \o Reverse(Number(part.width)) \o If(part.nested, <<"{", "}">>)
                   \o If(part.precision >= 0, <<".">>) \o Reverse(Number(part.precision))
                   \o Given(part.type)
       IN  <<"{">> \o Reverse(Number(part.index)) \o If(spec # <<>>, <<":">> \o spec) \o <<"}">>

AllSpelled(parts) == FlattenSeq([i \in DOMAIN parts |-> Spelled(parts[i])])
-----------------------------------------------------------------------------
\* n in a base, most significant digit first.
Numeral(n, base, digits) ==
  LET numeral[k \in Nat] ==
        IF k < base THEN <<digits[k + 1]>>
        ELSE Append(numeral[k \div base], digits[(k % base) + 1])
  IN  numeral[n]

Grouped(s) ==
  FlattenSeq([i \in DOMAIN s |->
    IF i > 1 /\ (Len(s) + 1 - i) % 3 = 0 THEN Separator \o <<s[i]>> ELSE <<s[i]>>])

IntegerCodes == {"d", "x", "X", "b", "B", "o", "n"}

ShownAsNumber(f, a) == a.type \in IntTypes \/ (a.type \in {"BOOL", "CHAR"} /\ f.type \in IntegerCodes)

\* Whether a field can show an argument.
Shows(f, a) ==
  LET numeric == f.align = "=" \/ f.sign # "" \/ f.hash \/ f.zero
  IN  /\ numeric => IsInteger(a)
      /\ f.sign # "" => ~IsUnsigned(a)
      /\ f.precision >= 0 => ~IsInteger(a)
      /\ CASE a.type \in IntTypes -> f.type \in IntegerCodes \cup {""}
           [] a.type = "BOOL" -> f.type \in IntegerCodes \cup {""}
           [] a.type = "CHAR" -> f.type \in IntegerCodes \/ (f.type \in {"", "c"} /\ ~numeric)
           [] a.type \in {"STRING", "CSTRING"} -> f.type \in {"", "s"} /\ a.value # Null

Lead(f, v) ==
  (IF v < 0 THEN <<"-">> ELSE If(f.sign \in {"+", " "}, <<f.sign>>))
  \o If(f.hash /\ f.type \in {"x", "X", "b", "B"}, <<"0", f.type>>)
  \o If(f.hash /\ f.type = "o", <<"0">>)

\* What the field shows, before it is padded: what stays on the left, the rest.
Parts(f, a) ==
  LET v == CASE a.type = "BOOL" -> IF a.value THEN 1 ELSE 0
             [] a.type = "CHAR" -> a.value.code
             [] OTHER -> a.value
      n == IF v < 0 THEN -v ELSE v
      base == CASE f.type \in {"x", "X"} -> 16
                [] f.type \in {"b", "B"} -> 2
                [] f.type = "o" -> 8
                [] OTHER -> 10
      number == Numeral(n, base, IF f.type = "X" THEN UpperCase ELSE LowerCase)
      text == CASE a.type = "BOOL" -> IF a.value THEN True ELSE False
                [] a.type = "CHAR" -> <<a.value.char>>
                [] OTHER -> IF f.precision \in 0..Len(a.value)
                            THEN SubSeq(a.value, 1, f.precision) ELSE a.value
  IN  IF ShownAsNumber(f, a)
      THEN [lead |-> Lead(f, v), rest |-> IF f.type = "n" THEN Grouped(number) ELSE number]
      ELSE [lead |-> <<>>, rest |-> text]

\* Padded to the width; numbers stand right and texts left unless asked otherwise,
\* and zero means to fill between sign and digits, whatever else is asked for.
Shown(f, a, width) ==
  LET parts == Parts(f, a)
      all == parts.lead \o parts.rest
      missing == IF width > Len(all) THEN width - Len(all) ELSE 0
      fill == IF f.zero THEN "0" ELSE IF f.fill = "" THEN " " ELSE f.fill
      align == CASE ~ShownAsNumber(f, a) /\ (f.zero \/ f.align \in {"", "="}) -> "<"
                 [] ShownAsNumber(f, a) /\ f.zero -> "="
                 [] ShownAsNumber(f, a) /\ ~f.zero /\ f.align = "" -> ">"
                 [] OTHER -> f.align
      Pad(n) == Copies(fill, n)
  IN  CASE align = "<" -> all \o Pad(missing)
        [] align = ">" -> Pad(missing) \o all
        [] align = "^" -> Pad(missing \div 2) \o all \o Pad(missing - missing \div 2)
        [] align = "=" -> parts.lead \o Pad(missing) \o parts.rest

\* The arguments that a part takes, given that "used" have been taken before.
Taken(f, used) ==
  IF f.index >= 0 THEN <<f.index>>
  ELSE IF f.nested THEN <<used, used + 1>> ELSE <<used>>

Fields(parts) == {parts[i] : i \in {j \in DOMAIN parts : parts[j].kind = "field"}}

\* The fields either all name their argument or none does (and a width that is
\* an argument has no name here).
Consistent(parts) ==
  \/ \A f \in Fields(parts) : f.index = -1
  \/ \A f \in Fields(parts) : f.index >= 0 /\ ~f.nested

Meaning(parts, args) ==
  LET taken[i \in 0..Len(parts)] ==   \* how many arguments the first i parts take
        IF i = 0 THEN 0
        ELSE taken[i - 1] + IF parts[i].kind # "field" THEN 0
                            ELSE Len(Taken(parts[i], taken[i - 1]))
      Arg(i, k) == args[Taken(parts[i], taken[i - 1])[k] + 1]
      Good(i) ==
        LET f == parts[i]
        IN  /\ parts[i].kind # "mistake"
            /\ parts[i].kind = "field" =>
              /\ \A k \in DOMAIN Taken(f, taken[i - 1]) : Taken(f, taken[i - 1])[k] < Len(args)
              /\ Shows(f, Arg(i, 1))
              /\ f.width <= MaxInt /\ f.precision <= MaxInt
              /\ f.nested => Arg(i, 2).type \in IntTypes /\ Arg(i, 2).value \in 0..MaxInt
      Width(i) == IF parts[i].nested THEN Arg(i, 2).value
                  ELSE IF parts[i].width < 0 THEN 0 ELSE parts[i].width
  IN  IF Consistent(parts) /\ \A i \in DOMAIN parts : Good(i)
      THEN [thrown |-> FALSE,
            text |-> FlattenSeq([i \in DOMAIN parts |->
              IF parts[i].kind = "text" THEN parts[i].chars
              ELSE Shown(parts[i], Arg(i, 1), Width(i))])]
      ELSE Thrown
=============================================================================

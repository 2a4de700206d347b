----------------------------- MODULE MCLogging -----------------------------
(***************************************************************************)
(* Logging: the asynchronous logger, and the loggers of the program that   *)
(* write to the console themselves.  The two share nothing, so a behaviour *)
(* is one of either.                                                       *)
(***************************************************************************)
EXTENDS AsyncLog, Loggers

CONSTANTS
  Solo  \* the thread that logs when nobody else does

VARIABLE subject  \* "async", "threads", "formats" or "patterns"

MCvars == <<vars, lvars, subject>>

Comma == <<",">>

Int32(v) == [type |-> "INT", value |-> v]
Uint64(v) == [type |-> "ULONG_LONG", value |-> v]
String(chars) == [type |-> "STRING", value |-> chars]
CString(chars) == [type |-> "CSTRING", value |-> chars]
Character == [type |-> "CHAR", value |-> [code |-> 97, char |-> "a"]]
BooleanArg == [type |-> "BOOL", value |-> TRUE]

Shape(fill, align, sign, hash, zero) ==
  [Plain EXCEPT !.fill = fill, !.align = align, !.sign = sign, !.hash = hash, !.zero = zero]

\* One field, of every shape.
Shapes ==
  {Shape(f[1], f[2], s, h, z) :
     f \in {<<"", "">>, <<"", "<">>, <<"*", ">">>, <<"*", "=">>, <<"", "^">>},
     s \in {"", "+", "-", " "}, h \in BOOLEAN, z \in BOOLEAN}

Codes == {"", "d", "x", "o", "n", "s", "c"}

OneArg ==
  {Int32(-5), Int32(1234), Uint64(9), BooleanArg, Character, String(<<"a", "b", "c">>), CString(Null)}

FieldCalls ==
  {[parts |-> <<[f EXCEPT !.width = w, !.type = t]>>, args |-> <<a>>] :
     f \in Shapes, w \in {-1, 6}, t \in Codes, a \in OneArg}

PrecisionCalls ==
  {[parts |-> <<[f EXCEPT !.precision = n, !.type = t]>>, args |-> <<a>>] :
     f \in {Plain, [Plain EXCEPT !.width = 6, !.align = "^"]}, n \in {0, 2, 5, 130},
     t \in {"", "s", "d"}, a \in {Int32(7), String(<<"a", "b", "c">>), CString(<<>>)}}

\* Numbers around the powers of ten and of two.
NumberCalls ==
  {[parts |-> <<[Plain EXCEPT !.type = t]>>, args |-> <<Int32(v)>>] :
     t \in {"", "X", "b", "o", "n"},
     v \in {0, 1, 7, 8, 9, 10, 15, 16, 99, 100, 101, 255, 256, 999, 1000, 1023, 1024, 4095,
            4096, 9999, 10000, 99999, 100000, 999999, 1000000, -1000}}

\* Several parts: texts, fields that take the next argument or name theirs, a
\* width that is an argument, and numbers that are too big.
SomeParts ==
  {TextPart(<<"a">>), TextPart(<<"{">>), TextPart(<<"}">>), Plain,
   [Plain EXCEPT !.index = 1], [Plain EXCEPT !.index = 5],
   [Plain EXCEPT !.nested = TRUE, !.type = "d"], [Plain EXCEPT !.index = 0, !.nested = TRUE],
   [Plain EXCEPT !.width = 130], [Plain EXCEPT !.index = 1300]}

PartsCalls ==
  {[parts |-> p, args |-> a] :
     p \in UNION {[1..n -> SomeParts] : n \in 1..3},
     a \in {<<Int32(8), Uint64(4), Int32(3)>>, <<Int32(8), Int32(-4)>>}}

\* Braces that do not match, what no field may hold, a fill that is a brace.
Mistakes ==
  {<<"}">>, <<"{">>, <<"a", "}", "b">>, <<"{", "x", "}">>, <<"{", "!", "}">>, <<"{", ":">>,
   <<"{", ":", "d">>, <<"{", ":", ".", "}">>, <<"{", "0", ":", "d", "d", "}">>,
   <<"{", ":", "{", "<", "5", "}">>, <<"{", ":", "}", "<", "5", "}">>,
   <<"{", ":", "{", "x", "}", "}">>, <<"{", ":", "{", ":", "}", "}">>, <<"{", "1", "2", "8", "}">>}

MistakeCalls == {[parts |-> <<Mistake(m)>>, args |-> <<Int32(8), Int32(3)>>] : m \in Mistakes}

Greeting == [parts |-> <<TextPart(<<"i", "d">>), Plain>>, args |-> <<Int32(1)>>]
WrongType == [parts |-> <<[Plain EXCEPT !.type = "d"]>>, args |-> <<String(<<"x">>)>>]

Flag(c) == [shows |-> c, chars |-> <<>>]
Chars(chars) == [shows |-> "chars", chars |-> chars]
DefaultPattern == <<Flag("+")>>

SomePatterns ==
  UNION {[1..n -> {Flag("n"), Flag("v"), Flag("X"), Flag("%"), Flag("q"), Chars(<<"[">>), Chars(<<"v">>)}] :
           n \in 0..4}
-----------------------------------------------------------------------------
Case(subj, users, made, some, c, patterns, colours) ==
  /\ subject = subj
  /\ creations = made /\ menu = some /\ calls = c
  /\ pattern \in patterns /\ colored \in colours
  /\ LoggersInit(users, CHOOSE name \in Name : TRUE)

MCInit ==
  /\ Init
  /\ \/ Case("async", {}, 0, {}, 0, {DefaultPattern}, {FALSE})
     \/ /\ policy = "block_retry"
        /\ \/ Case("threads", User, 1, {Greeting, WrongType}, 3, {DefaultPattern}, BOOLEAN)
           \/ Case("patterns", {Solo}, 0, {Greeting}, 1, SomePatterns, {FALSE})
           \/ \E c \in FieldCalls \cup PrecisionCalls \cup NumberCalls \cup PartsCalls \cup MistakeCalls :
                Case("formats", {Solo}, 0, {c}, 1, {DefaultPattern}, {FALSE})

MCNext ==
  \/ subject = "async" /\ Next /\ UNCHANGED <<lvars, subject>>
  \/ subject # "async" /\ LoggersNext /\ UNCHANGED <<vars, subject>>

MCSpec == MCInit /\ [][MCNext]_MCvars
=============================================================================

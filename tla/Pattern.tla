------------------------------ MODULE Pattern ------------------------------
(***************************************************************************)
(* The layout of a line (spdlog/details/pattern_formatter_impl.h): a       *)
(* pattern is compiled into formatters, which then show a message one      *)
(* after the other.                                                        *)
(*                                                                         *)
(* A message is a record of the logger's name, the level and the text.     *)
(* What a formatter of the time, the thread or the process shows is one    *)
(* mark that names it.                                                     *)
(***************************************************************************)
EXTENDS SequencesExt

Flags ==
  {"n", "l", "L", "t", "v", "a", "A", "b", "h", "B", "c", "C", "Y", "D", "x", "m", "d", "H", "I",
   "M", "S", "e", "f", "F", "E", "p", "r", "R", "T", "X", "z", "+", "P", "i"}

FlagFormatter(flag) == [shows |-> flag, chars |-> <<>>]
CharsFormatter(chars) == [shows |-> "chars", chars |-> chars]

\* handle_flag(): three flags are other names, an unknown one appears as it is.
HandleFlag(flag) ==
  CASE flag = "h" -> <<FlagFormatter("b")>>
    [] flag = "x" -> <<FlagFormatter("D")>>
    [] flag = "X" -> <<FlagFormatter("T")>>
    [] flag \in Flags \ {"h", "x", "X"} -> <<FlagFormatter(flag)>>
    [] OTHER -> <<CharsFormatter(<<"%">>), CharsFormatter(<<flag>>)>>

\* What was read before a flag: s.made are the formatters, s.chars the characters
\* since the last flag, s.flag that the next character is one.
WithChars(s) == IF s.chars = <<>> THEN s.made ELSE Append(s.made, CharsFormatter(s.chars))

CompileStep(s, c) ==
  CASE s.flag -> [s EXCEPT !.made = @ \o HandleFlag(c), !.flag = FALSE]
    [] ~s.flag /\ c = "%" -> [made |-> WithChars(s), chars |-> <<>>, flag |-> TRUE]
    [] OTHER -> [s EXCEPT !.chars = Append(@, c)]

Compiling(pattern) ==
  LET state[i \in 0..Len(pattern)] ==
        IF i = 0 THEN [made |-> <<>>, chars |-> <<>>, flag |-> FALSE]
        ELSE CompileStep(state[i - 1], pattern[i])
  IN  state[Len(pattern)]

\* compile_pattern(); a "%" at the end is dropped.
CompilePattern(pattern) == WithChars(Compiling(pattern))

\* Who logs, and how urgent it is.
OriginPiece(f, msg) == IF f.shows = "n" THEN <<msg.name>> ELSE <<msg.level>>

\* The layout of a logger that was given no other.
FullPiece(msg) == <<"time", msg.name, msg.level>> \o msg.text

\* What one formatter adds to the line.
Piece(f, msg) ==
  CASE f.shows = "chars" -> f.chars
    [] f.shows \in {"n", "l", "L"} -> OriginPiece(f, msg)
    [] f.shows = "v" -> msg.text
    [] f.shows = "+" -> FullPiece(msg)
    [] OTHER -> <<f.shows>>

EndOfLine == <<"eol">>

PiecesOf(formatters, msg) == [i \in DOMAIN formatters |-> Piece(formatters[i], msg)]

FormatLine(formatters, msg) == FlattenSeq(PiecesOf(formatters, msg)) \o EndOfLine
=============================================================================

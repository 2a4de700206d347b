----------------------------- MODULE Helloworld -----------------------------
(***************************************************************************)
(* The protobuf sample (google/protobuf): write.cc writes a message to a   *)
(* file that reader.cc parses, two programs with nothing between them but  *)
(* the file.  The class is of proto2: a field that is not set is None, and *)
(* a message without id and name is refused.                               *)
(***************************************************************************)
EXTENDS RaftPb

CONSTANTS
  StreamSize,  \* how much a stream writes at once
  HelloName    \* the name that write.cc sets

ASSUME StreamAssumption == StreamSize \in Nat
ASSUME NameAssumption ==
  /\ HelloName \in Seq(Byte) /\ VarintSize(Len(HelloName)) <= VarintLimit
  /\ HelloName # None

VARIABLES
  log,      \* the file
  pending,  \* what is still in the stream of write.cc
  got,      \* what reader.cc has read of the file, None while it does not run
  read,     \* what its last run made of that: None before, and when it was refused
  runs      \* runs left (a bound)

helloVars == <<log, pending, got, read, runs>>

helloworldClass ==
  [id : Nat \cup {None}, name : Seq(Byte) \cup {None}, email : Seq(Byte) \cup {None},
   unknown : Seq(Byte)]

Newhelloworld == [id |-> None, name |-> None, email |-> None, unknown |-> <<>>]

Readhelloworld(m, f) ==
  CASE f.key = <<1, VARINT>> -> Good([m EXCEPT !.id = f.value])
    [] f.key = <<2, LENGTH>> -> Good([m EXCEPT !.name = f.bytes])
    [] f.key = <<3, LENGTH>> -> Good([m EXCEPT !.email = f.bytes])
    [] OTHER -> Unknown(m, f)

\* Unlike in proto3, a zero and an empty string are written when they are set.
Serializehelloworld(m) ==
  (IF m.id = None THEN <<>> ELSE Tag(1, VARINT) \o Varint(m.id))
    \o (IF m.name = None THEN <<>> ELSE Delimited(2, m.name))
    \o (IF m.email = None THEN <<>> ELSE Delimited(3, m.email))
    \o m.unknown

SizeOfhelloworld(m) ==
  (IF m.id = None THEN 0 ELSE 1 + VarintSize(m.id))
    + (IF m.name = None THEN 0 ELSE DelimitedSize(Len(m.name)))
    + (IF m.email = None THEN 0 ELSE DelimitedSize(Len(m.email)))
    + Len(m.unknown)

\* Mutation: no field is required.
IsInitialized_Always(m) == TRUE
IsInitialized(m) == m.id # None /\ m.name # None

helloworldEdits(m) ==
  {[m EXCEPT !.id = v] : v \in Number \cup {0, None}}
    \cup {[m EXCEPT !.name = s] : s \in String \cup {<<>>, None}}
    \cup {[m EXCEPT !.email = s] : s \in String \cup {<<>>, None}}
-----------------------------------------------------------------------------
\* The message of every run of write.cc.
Hello == [Newhelloworld EXCEPT !.id = 1, !.name = HelloName]

HelloInit(n) ==
  /\ log = <<>>
  /\ pending = <<>>
  /\ got = None
  /\ read = None
  /\ runs = n

\* write.cc sets the two required fields and opens the file, which empties it,
\* whether or not somebody reads it.  Bound: one write.cc at a time.
WriteMain ==
  /\ runs > 0
  /\ pending = <<>>
  /\ runs' = runs - 1
  /\ pending' = Serializehelloworld(Hello)
  /\ log' = <<>>
  /\ UNCHANGED <<got, read>>

\* Its stream writes what fits into one piece.
WritePiece ==
  /\ pending # <<>>
  /\ LET piece == Content(StreamSize, pending)
     IN  /\ log' = log \o piece.bytes
         /\ pending' = piece.rest
  /\ UNCHANGED <<got, read, runs>>

\* reader.cc opens the file at any time.
ReadMain ==
  /\ runs > 0
  /\ got = None
  /\ runs' = runs - 1
  /\ got' = <<>>
  /\ UNCHANGED <<log, pending, read>>

\* Its stream takes what there is behind what it has, or a part of it.  In
\* between the file may be emptied and written again.
ReadPiece ==
  /\ got # None
  /\ \E k \in Len(got) + 1..Len(log) : got' = got \o SubSeq(log, Len(got) + 1, k)
  /\ UNCHANGED <<log, pending, read, runs>>

\* With nothing behind that it ends; the whole stream has to be a message.
ReadEnd ==
  /\ got # None /\ Len(log) <= Len(got)
  /\ LET p == Merged(Readhelloworld, Newhelloworld, got)
     IN  read' = IF p.ok /\ IsInitialized(p.msg) THEN p.msg ELSE None
  /\ got' = None
  /\ UNCHANGED <<log, pending, runs>>

HelloNext == WriteMain \/ WritePiece \/ ReadMain \/ ReadPiece \/ ReadEnd
-----------------------------------------------------------------------------
\* The reader takes no message for good that is cut off, nor one that is put
\* together from two runs of write.cc: they write the same bytes, and the last
\* required field is also the last that they set, so what is not all of them
\* lacks it or breaks off within it (reader.cc:14).
ReaderTakesWhole == [][ReadEnd /\ read' # None => read' = Hello]_helloVars
=============================================================================

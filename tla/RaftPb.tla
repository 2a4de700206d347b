------------------------------- MODULE RaftPb -------------------------------
(***************************************************************************)
(* The message classes of raft/raftpb/raftpb.pb.cc and raftpb.pb.h: what   *)
(* they hold, the bytes they write and read, how they merge, and what the  *)
(* accessors change.  A sub-message that is not there is None, a string a  *)
(* sequence of bytes, and `unknown' the fields that the class read and     *)
(* does not know (_internal_metadata_).                                    *)
(***************************************************************************)
EXTENDS Protobuf

CONSTANTS
  None,    \* a null pointer
  Number,  \* the numbers that setters are called with ...
  String   \* ... and the strings

ASSUME RaftPbAssumption ==
  /\ Number \subseteq Nat \ {0}
  /\ \A n \in Number : VarintSize(n) <= VarintLimit  \* of at most 64 bits
  /\ String \subseteq Seq(Byte)
  /\ \A s \in String : VarintSize(Len(s)) <= VarintLimit
  /\ None \notin Nat

-----------------------------------------------------------------------------
(* What the generated functions do with a field of each kind *)

\* Mutation: a scalar is always written.
UInt_Always(number, v) == Tag(number, VARINT) \o Varint(v)

\* A scalar is written unless it is 0 ...
UInt(number, v) == IF v = 0 THEN <<>> ELSE Tag(number, VARINT) \o Varint(v)

\* Mutation: every number is counted as one byte.
UIntSize_OneByte(v) == IF v = 0 THEN 0 ELSE 2
UIntSize(v) == IF v = 0 THEN 0 ELSE 1 + VarintSize(v)

\* ... a string unless it is empty ...
Str(number, s) == IF s = <<>> THEN <<>> ELSE Delimited(number, s)
StrSize(s) == IF s = <<>> THEN 0 ELSE DelimitedSize(Len(s))

\* ... and a sub-message when there is one.
Sub(number, Serialize(_), m) ==
  IF m = None THEN <<>> ELSE Delimited(number, Serialize(m))
SubSize(Size(_), m) == IF m = None THEN 0 ELSE DelimitedSize(Size(m))

\* total_size += ..., one element after the other.
Total(ns) ==
  LET total[s \in Seq(Nat)] == IF s = <<>> THEN 0 ELSE total[Front(s)] + Last(s)
  IN  total[ns]

\* Every element of a repeated message.
Each(number, Serialize(_), ms) ==
  FlattenSeq([i \in 1..Len(ms) |-> Delimited(number, Serialize(ms[i]))])
EachSize(Size(_), ms) == Total([i \in 1..Len(ms) |-> DelimitedSize(Size(ms[i]))])

\* A repeated number is packed into one field.
Packed(ns) == FlattenSeq([i \in 1..Len(ns) |-> Varint(ns[i])])
PackedSize(ns) == Total([i \in 1..Len(ns) |-> VarintSize(ns[i])])

\* Mutation: a default overwrites as well.
Over_Always(old, new, default) == new

\* MergeFrom: what is at its default does not overwrite.
Over(old, new, default) == IF new = default THEN old ELSE new

\* mutable_x() makes the sub-message when it is not there, x() reads a default
\* one instead.
Mutable(m, new) == IF m = None THEN new ELSE m
OverSub(Merge(_, _), old, new, default) ==
  IF new = None THEN old ELSE Merge(Mutable(old, default), new)

Good(msg) == [msg |-> msg, ok |-> TRUE]

\* A sub-message is parsed into its field, an entry behind the others.
Filled(m, name, sub) == [msg |-> [m EXCEPT ![name] = sub.msg], ok |-> sub.ok]
Extended(m, e) == [msg |-> [m EXCEPT !.entries = Append(@, e.msg)], ok |-> e.ok]

\* Mutation: the rule of proto3 before libprotobuf 3.5.
Unknown_Dropped(m, f) == Good(m)

\* SkipField: a field that the class does not know is kept, as far as it goes.
Unknown(m, f) ==
  Good([m EXCEPT !.unknown =
          @ \o (IF f.key[2] = LENGTH THEN Delimited(f.key[1], f.bytes) ELSE f.raw)])
-----------------------------------------------------------------------------
(* ConfState *)

ConfStateClass == [nodes : Seq(Nat), learners : Seq(Nat), unknown : Seq(Byte)]

NewConfState == [nodes |-> <<>>, learners |-> <<>>, unknown |-> <<>>]

\* What there is of a broken packed field is kept.
ReadConfState(m, f) ==
  CASE f.key = <<1, LENGTH>> ->
         [msg |-> [m EXCEPT !.nodes = @ \o ReadPacked(f.bytes)], ok |-> IsPacked(f.bytes)]
    [] f.key = <<1, VARINT>> -> Good([m EXCEPT !.nodes = Append(@, f.value)])
    [] f.key = <<2, LENGTH>> ->
         [msg |-> [m EXCEPT !.learners = @ \o ReadPacked(f.bytes)], ok |-> IsPacked(f.bytes)]
    [] f.key = <<2, VARINT>> -> Good([m EXCEPT !.learners = Append(@, f.value)])
    [] OTHER -> Unknown(m, f)

ParseConfState(m, s) == Merged(ReadConfState, m, s)

SerializeConfState(m) ==
  Str(1, Packed(m.nodes)) \o Str(2, Packed(m.learners)) \o m.unknown

SizeOfConfState(m) ==
  LET Size(ns) == IF ns = <<>> THEN 0 ELSE DelimitedSize(PackedSize(ns))
  IN  Size(m.nodes) + Size(m.learners) + Len(m.unknown)

MergeConfState(m, from) ==
  [nodes |-> m.nodes \o from.nodes, learners |-> m.learners \o from.learners,
   unknown |-> m.unknown \o from.unknown]

\* add_x(), set_x() at one of the places, clear_x(); a 0 is a number like others.
NumbersEdits(ns) ==
  {Append(ns, v) : v \in Number \cup {0}}
    \cup {[ns EXCEPT ![i] = v] : i \in 1..Len(ns), v \in Number \cup {0}}
    \cup {<<>>}

ConfStateEdits(m) ==
  {[m EXCEPT !.nodes = ns] : ns \in NumbersEdits(m.nodes)}
    \cup {[m EXCEPT !.learners = ns] : ns \in NumbersEdits(m.learners)}
-----------------------------------------------------------------------------
(* Entry *)

EntryClass ==
  [type : Nat, term : Nat, index : Nat, data : Seq(Byte), unknown : Seq(Byte)]

NewEntry ==
  [type |-> 0, term |-> 0, index |-> 0, data |-> <<>>, unknown |-> <<>>]

ReadEntry(m, f) ==
  CASE f.key = <<1, VARINT>> -> Good([m EXCEPT !.type = f.value])
    [] f.key = <<2, VARINT>> -> Good([m EXCEPT !.term = f.value])
    [] f.key = <<3, VARINT>> -> Good([m EXCEPT !.index = f.value])
    [] f.key = <<4, LENGTH>> -> Good([m EXCEPT !.data = f.bytes])
    [] OTHER -> Unknown(m, f)

ParseEntry(m, s) == Merged(ReadEntry, m, s)

SerializeEntry(m) ==
  UInt(1, m.type) \o UInt(2, m.term) \o UInt(3, m.index) \o Str(4, m.data)
    \o m.unknown

SizeOfEntry(m) ==
  StrSize(m.data) + UIntSize(m.term) + UIntSize(m.index) + UIntSize(m.type)
    + Len(m.unknown)

MergeEntry(m, from) ==
  [type |-> Over(m.type, from.type, 0), term |-> Over(m.term, from.term, 0),
   index |-> Over(m.index, from.index, 0), data |-> Over(m.data, from.data, <<>>),
   unknown |-> m.unknown \o from.unknown]

\* A repeated message is merged element by element into new ones.
MergeEntries(ms, from) ==
  ms \o [i \in 1..Len(from) |-> MergeEntry(NewEntry, from[i])]

EntryEdits(m) ==
  {[m EXCEPT !.data = s] : s \in String \cup {<<>>}}
    \cup UNION {{[m EXCEPT !.type = v], [m EXCEPT !.term = v], [m EXCEPT !.index = v]} :
                  v \in Number \cup {0}}
-----------------------------------------------------------------------------
(* SnapshotMetadata *)

SnapshotMetadataClass ==
  [conf_state : ConfStateClass \cup {None}, index : Nat, term : Nat, unknown : Seq(Byte)]

NewSnapshotMetadata ==
  [conf_state |-> None, index |-> 0, term |-> 0, unknown |-> <<>>]

ReadSnapshotMetadata(m, f) ==
  CASE f.key = <<1, LENGTH>> ->
         Filled(m, "conf_state", ParseConfState(Mutable(m.conf_state, NewConfState), f.bytes))
    [] f.key = <<2, VARINT>> -> Good([m EXCEPT !.index = f.value])
    [] f.key = <<3, VARINT>> -> Good([m EXCEPT !.term = f.value])
    [] OTHER -> Unknown(m, f)

ParseSnapshotMetadata(m, s) == Merged(ReadSnapshotMetadata, m, s)

SerializeSnapshotMetadata(m) ==
  Sub(1, SerializeConfState, m.conf_state) \o UInt(2, m.index) \o UInt(3, m.term)
    \o m.unknown

SizeOfSnapshotMetadata(m) ==
  SubSize(SizeOfConfState, m.conf_state) + UIntSize(m.index) + UIntSize(m.term)
    + Len(m.unknown)

MergeSnapshotMetadata(m, from) ==
  [conf_state |-> OverSub(MergeConfState, m.conf_state, from.conf_state, NewConfState),
   index |-> Over(m.index, from.index, 0), term |-> Over(m.term, from.term, 0),
   unknown |-> m.unknown \o from.unknown]

SnapshotMetadataEdits(m) ==
  {[m EXCEPT !.conf_state = c] : c \in ConfStateEdits(Mutable(m.conf_state, NewConfState))}
    \cup {[m EXCEPT !.conf_state = None]}
    \cup UNION {{[m EXCEPT !.index = v], [m EXCEPT !.term = v]} : v \in Number \cup {0}}
-----------------------------------------------------------------------------
(* Snapshot *)

SnapshotClass ==
  [data : Seq(Byte), metadata : SnapshotMetadataClass \cup {None}, unknown : Seq(Byte)]

NewSnapshot == [data |-> <<>>, metadata |-> None, unknown |-> <<>>]

ReadSnapshot(m, f) ==
  CASE f.key = <<1, LENGTH>> -> Good([m EXCEPT !.data = f.bytes])
    [] f.key = <<2, LENGTH>> ->
         Filled(m, "metadata",
                ParseSnapshotMetadata(Mutable(m.metadata, NewSnapshotMetadata), f.bytes))
    [] OTHER -> Unknown(m, f)

ParseSnapshot(m, s) == Merged(ReadSnapshot, m, s)

SerializeSnapshot(m) ==
  Str(1, m.data) \o Sub(2, SerializeSnapshotMetadata, m.metadata) \o m.unknown

SizeOfSnapshot(m) ==
  StrSize(m.data) + SubSize(SizeOfSnapshotMetadata, m.metadata) + Len(m.unknown)

MergeSnapshot(m, from) ==
  [data |-> Over(m.data, from.data, <<>>),
   metadata |-> OverSub(MergeSnapshotMetadata, m.metadata, from.metadata, NewSnapshotMetadata),
   unknown |-> m.unknown \o from.unknown]

SnapshotEdits(m) ==
  {[m EXCEPT !.data = s] : s \in String \cup {<<>>}}
    \cup {[m EXCEPT !.metadata = d] :
            d \in SnapshotMetadataEdits(Mutable(m.metadata, NewSnapshotMetadata))}
    \cup {[m EXCEPT !.metadata = None]}
-----------------------------------------------------------------------------
(* HardState *)

HardStateClass == [term : Nat, vote : Nat, commit : Nat, unknown : Seq(Byte)]

NewHardState == [term |-> 0, vote |-> 0, commit |-> 0, unknown |-> <<>>]

ReadHardState(m, f) ==
  CASE f.key = <<1, VARINT>> -> Good([m EXCEPT !.term = f.value])
    [] f.key = <<2, VARINT>> -> Good([m EXCEPT !.vote = f.value])
    [] f.key = <<3, VARINT>> -> Good([m EXCEPT !.commit = f.value])
    [] OTHER -> Unknown(m, f)

ParseHardState(m, s) == Merged(ReadHardState, m, s)

SerializeHardState(m) ==
  UInt(1, m.term) \o UInt(2, m.vote) \o UInt(3, m.commit) \o m.unknown

SizeOfHardState(m) ==
  UIntSize(m.term) + UIntSize(m.vote) + UIntSize(m.commit) + Len(m.unknown)

MergeHardState(m, from) ==
  [term |-> Over(m.term, from.term, 0), vote |-> Over(m.vote, from.vote, 0),
   commit |-> Over(m.commit, from.commit, 0), unknown |-> m.unknown \o from.unknown]

HardStateEdits(m) ==
  UNION {{[m EXCEPT !.term = v], [m EXCEPT !.vote = v], [m EXCEPT !.commit = v]} :
           v \in Number \cup {0}}
-----------------------------------------------------------------------------
(* Storage *)

StorageClass ==
  [offset : Nat, snap : SnapshotClass \cup {None}, entries : Seq(EntryClass),
   hardstate : HardStateClass \cup {None}, unknown : Seq(Byte)]

NewStorage ==
  [offset |-> 0, snap |-> None, entries |-> <<>>, hardstate |-> None, unknown |-> <<>>]

ReadStorage(m, f) ==
  CASE f.key = <<1, VARINT>> -> Good([m EXCEPT !.offset = f.value])
    [] f.key = <<2, LENGTH>> ->
         Filled(m, "snap", ParseSnapshot(Mutable(m.snap, NewSnapshot), f.bytes))
    [] f.key = <<3, LENGTH>> -> Extended(m, ParseEntry(NewEntry, f.bytes))
    [] f.key = <<4, LENGTH>> ->
         Filled(m, "hardstate", ParseHardState(Mutable(m.hardstate, NewHardState), f.bytes))
    [] OTHER -> Unknown(m, f)

ParseStorage(m, s) == Merged(ReadStorage, m, s)

SerializeStorage(m) ==
  UInt(1, m.offset) \o Sub(2, SerializeSnapshot, m.snap)
    \o Each(3, SerializeEntry, m.entries) \o Sub(4, SerializeHardState, m.hardstate)
    \o m.unknown

SizeOfStorage(m) ==
  EachSize(SizeOfEntry, m.entries) + SubSize(SizeOfSnapshot, m.snap)
    + SubSize(SizeOfHardState, m.hardstate) + UIntSize(m.offset) + Len(m.unknown)

MergeStorage(m, from) ==
  [offset |-> Over(m.offset, from.offset, 0),
   snap |-> OverSub(MergeSnapshot, m.snap, from.snap, NewSnapshot),
   entries |-> MergeEntries(m.entries, from.entries),
   hardstate |-> OverSub(MergeHardState, m.hardstate, from.hardstate, NewHardState),
   unknown |-> m.unknown \o from.unknown]

\* snap(), and mutable_snap() before a change.
SnapOf(m) == Mutable(m.snap, NewSnapshot)

\* add_entries() for each.
AddEntries(m, es) == [m EXCEPT !.entries = @ \o es]
-----------------------------------------------------------------------------
(* Message *)

MessageClass ==
  [type : Nat, to : Nat, from : Nat, term : Nat, logterm : Nat, index : Nat,
   entries : Seq(EntryClass), commit : Nat, snapshot : SnapshotClass \cup {None},
   reject : {0, 1}, rejecthint : Nat, context : Seq(Byte), unknown : Seq(Byte)]

NewMessage ==
  [type |-> 0, to |-> 0, from |-> 0, term |-> 0, logterm |-> 0, index |-> 0,
   entries |-> <<>>, commit |-> 0, snapshot |-> None, reject |-> 0,
   rejecthint |-> 0, context |-> <<>>, unknown |-> <<>>]

ReadMessage(m, f) ==
  CASE f.key = <<1, VARINT>> -> Good([m EXCEPT !.type = f.value])
    [] f.key = <<2, VARINT>> -> Good([m EXCEPT !.to = f.value])
    [] f.key = <<3, VARINT>> -> Good([m EXCEPT !.from = f.value])
    [] f.key = <<4, VARINT>> -> Good([m EXCEPT !.term = f.value])
    [] f.key = <<5, VARINT>> -> Good([m EXCEPT !.logterm = f.value])
    [] f.key = <<6, VARINT>> -> Good([m EXCEPT !.index = f.value])
    [] f.key = <<7, LENGTH>> -> Extended(m, ParseEntry(NewEntry, f.bytes))
    [] f.key = <<8, VARINT>> -> Good([m EXCEPT !.commit = f.value])
    [] f.key = <<9, LENGTH>> ->
         Filled(m, "snapshot", ParseSnapshot(Mutable(m.snapshot, NewSnapshot), f.bytes))
    [] f.key = <<10, VARINT>> -> Good([m EXCEPT !.reject = IF f.value = 0 THEN 0 ELSE 1])
    [] f.key = <<11, VARINT>> -> Good([m EXCEPT !.rejecthint = f.value])
    [] f.key = <<12, LENGTH>> -> Good([m EXCEPT !.context = f.bytes])
    [] OTHER -> Unknown(m, f)

ParseMessage(m, s) == Merged(ReadMessage, m, s)

SerializeMessage(m) ==
  UInt(1, m.type) \o UInt(2, m.to) \o UInt(3, m.from) \o UInt(4, m.term)
    \o UInt(5, m.logterm) \o UInt(6, m.index) \o Each(7, SerializeEntry, m.entries)
    \o UInt(8, m.commit) \o Sub(9, SerializeSnapshot, m.snapshot)
    \o UInt(10, m.reject) \o UInt(11, m.rejecthint) \o Str(12, m.context)
    \o m.unknown

SizeOfMessage(m) ==
  EachSize(SizeOfEntry, m.entries) + StrSize(m.context)
    + SubSize(SizeOfSnapshot, m.snapshot) + UIntSize(m.to) + UIntSize(m.from)
    + UIntSize(m.term) + UIntSize(m.logterm) + UIntSize(m.type)
    + 2 * m.reject + UIntSize(m.index) + UIntSize(m.commit)
    + UIntSize(m.rejecthint) + Len(m.unknown)

MergeMessage(m, from) ==
  [type |-> Over(m.type, from.type, 0), to |-> Over(m.to, from.to, 0),
   from |-> Over(m.from, from.from, 0), term |-> Over(m.term, from.term, 0),
   logterm |-> Over(m.logterm, from.logterm, 0), index |-> Over(m.index, from.index, 0),
   entries |-> MergeEntries(m.entries, from.entries), commit |-> Over(m.commit, from.commit, 0),
   snapshot |-> OverSub(MergeSnapshot, m.snapshot, from.snapshot, NewSnapshot),
   reject |-> Over(m.reject, from.reject, 0),
   rejecthint |-> Over(m.rejecthint, from.rejecthint, 0),
   context |-> Over(m.context, from.context, <<>>), unknown |-> m.unknown \o from.unknown]

\* Swap(): a move swaps with a new object.
Swap(m, other) == [this |-> other, other |-> m]

\* What the accessors make of the numbers of a message, of its entries, of its
\* snapshot and of the rest.
NumberEdits(m) ==
  UNION {{[m EXCEPT !.type = v], [m EXCEPT !.to = v], [m EXCEPT !.from = v],
          [m EXCEPT !.term = v], [m EXCEPT !.logterm = v], [m EXCEPT !.index = v]} :
           v \in Number \cup {0}}

EntriesEdits(m) ==
  {[m EXCEPT !.entries = Append(@, NewEntry)], [m EXCEPT !.entries = <<>>]}
    \cup UNION {{[m EXCEPT !.entries[i] = e] : e \in EntryEdits(m.entries[i])} :
                  i \in 1..Len(m.entries)}

SnapEdits(m) ==
  {[m EXCEPT !.snapshot = s] : s \in SnapshotEdits(Mutable(m.snapshot, NewSnapshot))}
    \cup {[m EXCEPT !.snapshot = None]}

TailEdits(m) ==
  {[m EXCEPT !.reject = b] : b \in {0, 1}}
    \cup {[m EXCEPT !.context = s] : s \in String \cup {<<>>}}
    \cup UNION {{[m EXCEPT !.commit = v], [m EXCEPT !.rejecthint = v]} :
                  v \in Number \cup {0}}

MessageEdits(m) == NumberEdits(m) \cup EntriesEdits(m) \cup SnapEdits(m) \cup TailEdits(m)
-----------------------------------------------------------------------------
\* A null pointer is no object.
ASSUME NoneAssumption ==
  None \notin ConfStateClass \cup SnapshotMetadataClass \cup SnapshotClass \cup HardStateClass
=============================================================================

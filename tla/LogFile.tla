------------------------------ MODULE LogFile -------------------------------
(***************************************************************************)
(* Class Storage (raft/storage.cc): a file with one raftpb::Storage.       *)
(* Every reader reads BufferSize bytes into an array on its stack that is  *)
(* never initialised, and takes what is there up to the first NUL: behind  *)
(* a shorter file come the bytes that were on the stack before.  A writer  *)
(* reads the file first and then replaces it.                              *)
(***************************************************************************)
EXTENDS RaftPb

CONSTANTS
  BufferSize,  \* 1024
  Leftover,    \* what may be found on the stack, up to a NUL
  Logs,        \* the entries that Append() is called with ...
  Snaps        \* ... and the snapshots of ApplySnapshot()

ASSUME LogFileAssumption ==
  /\ BufferSize \in Nat /\ VarintSize(BufferSize) <= VarintLimit
  /\ Leftover \subseteq Seq(Byte \ {0})
  /\ Logs \subseteq Seq(EntryClass)
  /\ \A ents \in Logs : \A i \in 1..Len(ents) :
       \A n \in {ents[i].type, ents[i].term, ents[i].index} : VarintSize(n) <= VarintLimit
  /\ Snaps \subseteq SnapshotClass

VARIABLES
  file,      \* the bytes in the file, None when there is no file
  appended,  \* what the last Append() copied of its entries
  whole,     \* since then every writer saw all of the file
  calls      \* calls left (a bound)

fileVars == <<file, appended, whole, calls>>

FileInit(budget) ==
  /\ file = None
  /\ appended = <<>>
  /\ whole = TRUE
  /\ calls = budget
-----------------------------------------------------------------------------
(* Reading *)

\* The characters of s before the first NUL.
CString(s) ==
  LET nul == SelectInSeq(s, LAMBDA b : b = 0)
  IN  IF nul = 0 THEN s ELSE SubSeq(s, 1, nul - 1)

\* The file is read to the end and as it was written.
Fits ==
  /\ Len(file) <= BufferSize
  /\ CString(file) = file

\* std::string(rdata) with `left' behind what was read.
Rdata(left) ==
  CString(Content(BufferSize, file).bytes \o left)

\* Storage::deserializeData() and hdeserializeData() of that.
Stored(left) ==
  IF file = None THEN NewStorage ELSE ParseStorage(NewStorage, Rdata(left)).msg
StoredHard(left) ==
  IF file = None THEN NewHardState ELSE ParseHardState(NewHardState, Rdata(left)).msg

Entries(left) == Stored(left).entries

\* x() on a sub-message that is not there reads a default one.
SnapIndex(m) ==
  Mutable(SnapOf(m).metadata, NewSnapshotMetadata).index

LastIndex(m) ==
  IF m.entries # <<>> THEN m.offset + Len(m.entries) - 1 ELSE SnapIndex(m)

\* Term() of an index that is not in the snapshot.  It reads the file twice: m is
\* what it got first, last the last index of what it got then.
TermOfEntry(index, m, last) ==
  IF index < m.offset \/ last = 0 \/ index > last THEN 0
  ELSE m.entries[index - m.offset + 1].term
-----------------------------------------------------------------------------
(* Writing *)

\* Append() copies the fields that it knows of each entry, and opens the file in a
\* mode that empties it.
Copies(ents) == [i \in 1..Len(ents) |-> [ents[i] EXCEPT !.unknown = <<>>]]
AppendBytes(ents) == SerializeStorage(AddEntries(NewStorage, Copies(ents)))

FileAppend ==
  \E ents \in Logs :
    /\ file' = AppendBytes(ents)
    /\ appended' = Copies(ents)
    /\ whole' = TRUE

\* The node ids of the snapshot go behind those that are there, and for each of
\* them a learner, though there may be fewer learners: then `stray' is what is
\* behind them in memory.
WithConfState(c, from, stray) ==
  [c EXCEPT !.nodes = @ \o from.nodes,
            !.learners = @ \o [i \in 1..Len(from.nodes) |->
                                 IF i <= Len(from.learners) THEN from.learners[i]
                                 ELSE stray]]

WithSnapshot(snap, from, stray) ==
  LET d == Mutable(snap.metadata, NewSnapshotMetadata)
      fd == Mutable(from.metadata, NewSnapshotMetadata)
      fc == Mutable(fd.conf_state, NewConfState)
  IN  [snap EXCEPT
        !.data = from.data,
        !.metadata = [d EXCEPT
          !.index = fd.index, !.term = fd.term,
          !.conf_state = IF fc.nodes = <<>> THEN @
                         ELSE WithConfState(Mutable(@, NewConfState), fc, stray)]]

ApplySnapshot ==
  \E from \in Snaps, left \in Leftover, stray \in Number :
    /\ file' = SerializeStorage([Stored(left) EXCEPT
                 !.snap = WithSnapshot(Mutable(@, NewSnapshot), from, stray)])
    /\ whole' = (whole /\ (file = None \/ Fits))
    /\ UNCHANGED appended

\* SetHardState() takes the file for a HardState, and sets the term three times:
\* to the term, to the vote and to the commit index.
SetHardState ==
  \E h \in HardStateEdits(NewHardState), left \in Leftover :
    /\ file' = SerializeHardState([StoredHard(left) EXCEPT !.term = h.commit])
    /\ whole' = (whole /\ (file = None \/ Fits))
    /\ UNCHANGED appended

FileNext ==
  /\ calls > 0
  /\ calls' = calls - 1
  /\ FileAppend \/ ApplySnapshot \/ SetHardState
-----------------------------------------------------------------------------
\* As long as the file fits into the array and no NUL is in it, the entries of
\* the last Append() come back in front of whatever the stack adds, also after
\* a snapshot or a hard state was stored behind them (storage.cc:195: a hard
\* state written over the log keeps the entries as fields it does not know; where
\* the stack ends in a field that is cut off, storing that again may lose them);
\* what the stack adds is merged as a Storage of its own; and right after the
\* Append() Term() finds the term of each entry.
EntriesReadBack ==
  file # None /\ whole /\ Fits =>
    /\ \A left \in Leftover :
         /\ Stored(left) \in StorageClass
         /\ IsPrefix(appended, Entries(left))
         /\ Stored(left) = MergeStorage(Stored(<<>>), ParseStorage(NewStorage, left).msg)
    /\ file = AppendBytes(appended) =>
         \A i \in 1..Len(appended) - 1 :
           TermOfEntry(i, Stored(<<>>), LastIndex(Stored(<<>>))) = appended[i + 1].term
=============================================================================

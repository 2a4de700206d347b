------------------------------- MODULE MCWire -------------------------------
(* The users of the generated classes for TLC: messages on a connection, the *)
(* log file and the sample programs; each behaviour is of one of them.       *)
EXTENDS Wire, LogFile, Helloworld

CONSTANTS MaxBudget, MaxCalls, MaxRuns

E(type, term, index, data) ==
  [NewEntry EXCEPT !.type = type, !.term = term, !.index = index, !.data = data]

\* A byte that is printed and a NUL.
MCString == {<<65>>, <<66, 0, 67>>}

MCLogs == {<<E(0, 1, 1, <<65>>)>>, <<E(1, 1, 1, <<>>), E(1, 2, 200, <<65, 66>>)>>,
           <<E(0, 2, 1, <<66, 0>>), NewEntry>>}

MCSnaps ==
  {NewSnapshot,
   [NewSnapshot EXCEPT !.data = <<65>>, !.metadata =
     [NewSnapshotMetadata EXCEPT !.index = 3, !.term = 2, !.conf_state =
       [NewConfState EXCEPT !.nodes = <<5, 6>>, !.learners = <<7>>]]]}

\* "cdcupt"
MCHelloName == <<99, 100, 99, 117, 112, 116>>

\* Nothing, part of an entry, a hard state, and a number that is no field.
MCLeftover == {<<>>, <<26, 4, 16, 9>>, <<34, 2, 8, 1>>, <<255>>}

vars == <<wireVars, fileVars, helloVars>>

Init ==
  \/ WireInit(MaxBudget) /\ FileInit(0) /\ HelloInit(0)
  \/ WireInit(0) /\ FileInit(MaxCalls) /\ HelloInit(0)
  \/ WireInit(0) /\ FileInit(0) /\ HelloInit(MaxRuns)

Next ==
  \/ WireNext /\ UNCHANGED <<fileVars, helloVars>>
  \/ FileNext /\ UNCHANGED <<wireVars, helloVars>>
  \/ HelloNext /\ UNCHANGED <<wireVars, fileVars>>

Spec == Init /\ [][Next]_vars
-----------------------------------------------------------------------------
StorageFits(m) == SizeOfStorage(m) = Len(SerializeStorage(m))
HardStateFits(h) == SizeOfHardState(h) = Len(SerializeHardState(h))

\* ByteSizeLong() is exactly what the serializers write: a buffer is allocated
\* from the one and filled without a check by the other.
SizeIsLength ==
  /\ SizeOfMessage(msg) = Len(SerializeMessage(msg))
  /\ got # None => \A m \in helloworldEdits(Hello) :
                     SizeOfhelloworld(m) = Len(Serializehelloworld(m))
  /\ file # None =>
       \A left \in Leftover : StorageFits(Stored(left)) /\ HardStateFits(StoredHard(left))
=============================================================================

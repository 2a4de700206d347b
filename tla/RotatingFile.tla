---------------------------- MODULE RotatingFile ----------------------------
(***************************************************************************)
(* The rotating log file of spdlog (sinks/file_sinks.h,                    *)
(* details/file_helper.h): messages go to file 0; when it would grow past  *)
(* its size the files are renamed, i to i+1, the last one is dropped and   *)
(* file 0 is begun again.                                                  *)
(*                                                                         *)
(* Calls come one at a time (base_sink locks its mutex).  A message counts *)
(* one towards the size.  Removing, renaming and opening may fail, which   *)
(* throws out of the call and leaves the rest of it undone.                *)
(***************************************************************************)
EXTENDS Naturals, Sequences, FiniteSets

CONSTANTS
  MaxSize,     \* _max_size, in messages
  MaxFiles,    \* _max_files
  MaxFailures  \* bound on the failures of one behaviour

ASSUME RotationAssumption ==
  /\ MaxSize \in Nat \ {0} /\ MaxFiles \in Nat /\ MaxFailures \in Nat

FileIndex == 0..MaxFiles

VARIABLES
  content,      \* content[i]: what file i holds, what is still buffered included
  exists,       \* the files that exist
  open,         \* _fd is not null
  unflushed,    \* how much of file 0 is in the buffer of _fd
  currentSize,  \* _current_size
  failures,
  crashed       \* something was written through a null pointer

sinkVars == <<content, exists, open, unflushed, currentSize, failures, crashed>>

SinkInit ==
  /\ content = [i \in FileIndex |-> <<>>]
  /\ exists = {0} /\ open = TRUE
  /\ unflushed = 0 /\ currentSize = 0 /\ failures = 0 /\ crashed = FALSE
-----------------------------------------------------------------------------
(* The loop of _rotate(), from the last file down: the iterations for      *)
(* i > k are done.                                                         *)

\* Mutation: the loop runs from the first file up, over the files it will move.
ShiftedContent_Up(k) ==
  [i \in FileIndex |-> IF i > k THEN content[k] ELSE content[i]]

ShiftedContent(k) ==
  [i \in FileIndex |-> IF i > k THEN content[i - 1] ELSE content[i]]

ShiftedExists(k) ==
  {i \in FileIndex : IF i > k THEN i - 1 \in exists
                 ELSE i \in exists /\ (i = k => k = MaxFiles)}

\* file_helper::close(): fclose() writes what is buffered.
Close == open' = FALSE /\ unflushed' = 0

Fails == failures < MaxFailures /\ failures' = failures + 1

\* The iteration for k cannot remove its target, or has removed it and cannot
\* rename.
RotateFails ==
  /\ Fails
  /\ Close
  /\ \E k \in 1..MaxFiles :
       /\ content' = ShiftedContent(k)
       /\ \/ k \in ShiftedExists(k) /\ exists' = ShiftedExists(k)
          \/ k - 1 \in exists /\ exists' = ShiftedExists(k) \ {k}

\* reopen(true) fails five times.
ReopenFails ==
  /\ Fails
  /\ Close
  /\ content' = ShiftedContent(0)
  /\ exists' = ShiftedExists(0) \ {0}

\* The new file 0 holds the message that did not fit any more.
Rotate(msg) ==
  /\ content' = [ShiftedContent(0) EXCEPT ![0] = <<msg>>]
  /\ exists' = ShiftedExists(0) \cup {0}
  /\ open' = TRUE /\ unflushed' = 1 /\ currentSize' = 1
  /\ UNCHANGED <<failures, crashed>>

\* fwrite() through the null pointer.
Write(msg) ==
  /\ IF open THEN content' = [content EXCEPT ![0] = Append(@, msg)] /\ UNCHANGED crashed
             ELSE crashed' = TRUE /\ UNCHANGED content
  /\ unflushed' = unflushed + 1
  /\ UNCHANGED <<exists, open, failures>>

\* Mutation: the size is set before the files are rotated.
SinkIt_SizeFirst(msg) ==
  IF currentSize + 1 > MaxSize
  THEN \/ Rotate(msg)
       \/ (RotateFails \/ ReopenFails) /\ currentSize' = 1 /\ UNCHANGED crashed
  ELSE Write(msg) /\ currentSize' = currentSize + 1

\* _sink_it(): the size counts the message before anything can fail.
SinkIt(msg) ==
  IF currentSize + 1 > MaxSize
  THEN \/ Rotate(msg)
       \/ /\ RotateFails \/ ReopenFails
          /\ currentSize' = currentSize + 1 /\ UNCHANGED crashed
  ELSE Write(msg) /\ currentSize' = currentSize + 1

\* _flush()
SinkFlush ==
  /\ unflushed' = 0
  /\ UNCHANGED <<content, exists, open, currentSize, failures, crashed>>
-----------------------------------------------------------------------------
\* The files, from the oldest to the one that is written, hold the end of msgs:
\* file i the messages behind cut[i + 1] up to cut[i].
HoldEnd(msgs, cut) ==
  /\ cut[0] = Len(msgs)
  /\ \A i \in FileIndex :
       IF i \in exists
       THEN /\ cut[i + 1] <= cut[i]
            /\ content[i] = SubSeq(msgs, cut[i + 1] + 1, cut[i])
       ELSE cut[i + 1] = cut[i]

\* A failed rotation leaves _fd null: no message is written until a rotation
\* has succeeded, because the size that called for the rotation is kept.
WriterIsOpen == ~crashed /\ (~open => currentSize > MaxSize)
=============================================================================

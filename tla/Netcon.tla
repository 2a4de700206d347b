------------------------------- MODULE Netcon -------------------------------
(***************************************************************************)
(* The two buffers of common/net.cc that the threads of a node share with  *)
(* the event loop: the send thread fills sendbuf with pushData(), the      *)
(* receive thread empties recvbuf with popData().                          *)
(*                                                                         *)
(* Both calls lock Netcon::buf_mutex.  The event loop locks the buf_mutex  *)
(* of its own class, another object, so nothing keeps the loop out while   *)
(* they work; and both look at the length before they lock.  Each access   *)
(* to a length is a step, and `++len' is two.                              *)
(***************************************************************************)
EXTENDS Integers, Sequences

CONSTANTS
  Messages,  \* how many messages the send thread is given to send
  Oversize,  \* those of them that are longer than the buffer
  Size,      \* bufsize, in units that are sent or stored one by one
  Width,     \* lengths are unsigned and wrap around at Width
  Peer,      \* ids of other nodes
  None       \* no message, no peer, no byte

\* Messages are told apart by their number.
Message == 1..Messages

ASSUME NetconAssumption ==
  /\ Messages \in Nat /\ Oversize \subseteq Message
  /\ Size \in Nat \ {0} /\ Width \in Nat /\ Width > 2 * Size
  /\ None \notin Peer

VARIABLES
  sendbuf,  \* the characters in the buffer
  sendlen,  \* sendbuf->len
  recvbuf,
  recvlen,
  sender,   \* the send thread: where it is, with what, for whom
  popper,   \* the receive thread
  given     \* what popData() has returned so far, one call after the other

sendVars == <<sendbuf, sendlen, sender>>
popVars == <<recvbuf, recvlen, popper, given>>

\* A message is a sequence of units; a usual one fills the buffer.
Data(m) == [i \in 1..(IF m \in Oversize THEN Size + 1 ELSE Size) |-> <<m, i>>]

IdleSender == [pc |-> "idle", msg |-> None, to |-> None, todo |-> {},
               at |-> 0, done |-> 0, reg |-> 0]

NetconInit ==
  /\ sendbuf = [i \in 1..Size |-> None]
  /\ sendlen = 0
  /\ recvbuf = [i \in 1..Size |-> None]
  /\ recvlen = 0
  /\ sender = IdleSender
  /\ popper = [pc |-> "idle", len |-> 0]
  /\ given = <<>>

SenderAt(pc) == sender.pc = pc
PopperAt(pc) == popper.pc = pc
-----------------------------------------------------------------------------
(* Slips that the properties must notice *)

\* popData() takes the characters before it resets the length, and does not
\* reset it.
PopReset_Kept ==
  /\ PopperAt("reset")
  /\ popper' = [popper EXCEPT !.pc = "copy"]
  /\ UNCHANGED <<recvbuf, recvlen, given>>

\* The length is not looked at before a new message is stored.
PushCheck_Missing ==
  /\ SenderAt("check")
  /\ Len(Data(sender.msg)) <= Size
  /\ sender' = [sender EXCEPT !.pc = "lock"]
  /\ UNCHANGED <<sendbuf, sendlen>>
-----------------------------------------------------------------------------
(* pushData(), for the message sender.msg.  False, and so another try, as  *)
(* long as there is something in the buffer, and for a message that does   *)
(* not fit at all.                                                         *)

PushCheck ==
  /\ SenderAt("check")
  /\ sendlen = 0
  /\ sendlen + Len(Data(sender.msg)) <= Size
  /\ sender' = [sender EXCEPT !.pc = "lock"]
  /\ UNCHANGED <<sendbuf, sendlen>>

\* Under the lock the fit is tested again; when it fails now, nothing is stored
\* and pushData() returns true all the same.
PushLock ==
  /\ SenderAt("lock")
  /\ sender' = IF sendlen + Len(Data(sender.msg)) <= Size
               THEN [sender EXCEPT !.pc = "store", !.at = sendlen, !.done = 0]
               ELSE [sender EXCEPT !.pc = "send"]
  /\ UNCHANGED <<sendbuf, sendlen>>

\* A character is stored and the length loaded ...
PushStore ==
  /\ SenderAt("store")
  /\ sendbuf' = [sendbuf EXCEPT ![sender.at + sender.done + 1] =
                   Data(sender.msg)[sender.done + 1]]
  /\ sender' = [sender EXCEPT !.pc = "count", !.done = @ + 1, !.reg = sendlen]
  /\ UNCHANGED sendlen

\* ... incremented and written back.
PushCount ==
  /\ SenderAt("count")
  /\ sendlen' = (sender.reg + 1) % Width
  /\ sender' = IF sender.done = Len(Data(sender.msg))
               THEN [sender EXCEPT !.pc = "send", !.at = 0, !.done = 0, !.reg = 0]
               ELSE [sender EXCEPT !.pc = "store", !.reg = 0]
  /\ UNCHANGED sendbuf

PushStep == PushCheck \/ PushLock \/ PushStore \/ PushCount
-----------------------------------------------------------------------------
(* popData() *)

PopCall ==
  /\ PopperAt("idle")
  /\ recvlen > 0
  /\ popper' = [popper EXCEPT !.pc = "lock"]
  /\ UNCHANGED <<recvbuf, recvlen, given>>

PopLock ==
  /\ PopperAt("lock")
  /\ popper' = IF recvlen > 0 THEN [pc |-> "reset", len |-> recvlen]
                              ELSE [popper EXCEPT !.pc = "idle"]
  /\ UNCHANGED <<recvbuf, recvlen, given>>

PopReset ==
  /\ PopperAt("reset")
  /\ recvlen' = 0
  /\ popper' = [popper EXCEPT !.pc = "copy"]
  /\ UNCHANGED <<recvbuf, given>>

PopCopy ==
  /\ PopperAt("copy")
  /\ given' = given \o SubSeq(recvbuf, 1, popper.len)
  /\ popper' = [pc |-> "idle", len |-> 0]
  /\ UNCHANGED <<recvbuf, recvlen>>

PopStep == PopCall \/ PopLock \/ PopReset \/ PopCopy
=============================================================================
